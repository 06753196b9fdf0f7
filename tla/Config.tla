------------------------------- MODULE Config -------------------------------
(***************************************************************************)
(* The project configuration file .taskledger.toml and the four places     *)
(* that patch its text: config set, the ledger keys, the storage directory *)
(* and the project uuid (storage/project_config.py, ledger_config.py,      *)
(* project_identity.py, worker_pipeline_config.py, api/config.py).         *)
(*                                                                         *)
(* Every writer edits the text line by line with its own notion of where a *)
(* key belongs; every reader parses the text as TOML, refuses a document   *)
(* with an unknown or ill-typed key, and so refuses to start.  The model   *)
(* keeps the lines of the file: a table header, a header of an array of    *)
(* tables, or an assignment.  Comments, blank lines and values that span   *)
(* several lines are left out.                                             *)
(*                                                                         *)
(* A value is written the way the user types it: "true" and "false",       *)
(* numerals, "[]" and "[plan]" for lists, "{enabled = true}" for an inline *)
(* table, any other text for a string ("none" for the empty one).  A       *)
(* document maps the path of every scalar in it to its value.              *)
(***************************************************************************)
EXTENDS Naturals, FiniteSetsExt, SequencesExt, TLC

Bools == {"true", "false"}
Numerals == <<"1", "2", "3", "4", "5", "6">>
\* A Python bool is an int, and true is a positive one.
Positives == {"true"} \cup Range(Numerals)
Lists == {"[]", "[plan]"}
Items(list) == IF list = "[plan]" THEN {"plan"} ELSE {}
Inline == "{enabled = true}"
Texts == {"text", "balanced", "guided", "main", "dev", "review", "reviewer",
          "r1", "r2", "uuid", "here", "there", "tl", "off", "replace", "content", "none"}

Header(path) == [kind |-> "head", at |-> path, value |-> ""]
ItemHeader(path) == [kind |-> "item", at |-> path, value |-> ""]
Assign(key, value) == [kind |-> "set", at |-> <<key>>, value |-> value]

\* What f says, and what g says where f says nothing.
Over(f, g) ==
    [x \in DOMAIN f \cup DOMAIN g |-> IF x \in DOMAIN f THEN f[x] ELSE g[x]]

Get(doc, path, default) == IF path \in DOMAIN doc THEN doc[path] ELSE default

----------------------------------------------------------------------------
(* Reading: TOML text to document.                                         *)

\* What one assignment to path puts into the document.
Leaves(path, value) ==
    IF value = Inline THEN [q \in {Append(path, "enabled")} |-> "true"]
    ELSE [q \in {path} |-> value]

\* The table that is open, the paths that have a value, the tables that have a
\* header, and every table on the way to one: a value must not be repeated, nor
\* stand where a table is or a table where it is.
NoText == [ok |-> TRUE, cur |-> <<>>, doc |-> <<>>, values |-> {}, heads |-> {},
           opened |-> {}, items |-> 0]

ReadLine(acc, line) ==
    LET path == acc.cur \o line.at
        at == IF line.kind = "set" THEN path ELSE line.at
        free == acc.ok /\ Prefixes(at) \cap acc.values = {}
    IN
    CASE line.kind = "head" ->
            [acc EXCEPT !.cur = at, !.heads = @ \cup {at},
                        !.opened = @ \cup Prefixes(at),
                        !.ok = free /\ at \notin acc.heads]
      [] line.kind = "item" ->
            [acc EXCEPT !.cur = Append(at, Numerals[acc.items + 1]),
                        !.items = @ + 1,
                        !.opened = @ \cup Prefixes(at), !.ok = free]
      [] line.kind = "set" ->
            [acc EXCEPT !.doc = Over(Leaves(path, line.value), @),
                        !.values = @ \cup {path},
                        !.ok = free /\ path \notin acc.opened]

\* tomllib.loads
Toml(file) ==
    LET upto[n \in 0..Len(file)] ==
            IF n = 0 THEN NoText ELSE ReadLine(upto[n - 1], file[n])
    IN  upto[Len(file)]

Document(file) == Toml(file).doc

----------------------------------------------------------------------------
(* Reading: what a document may say.                                       *)

Below(doc, table) == {q \in DOMAIN doc : IsPrefix(table, q)}

\* A table, if present, is a table and has only the given fields, each with
\* one of the values given for it.
TableHas(doc, table, fields) ==
    \A q \in Below(doc, table) :
        /\ Len(q) = Len(table) + 1
        /\ Last(q) \in DOMAIN fields
        /\ doc[q] \in fields[Last(q)]

SUPPORTED_PROJECT_CONFIG_KEYS ==
    {"config_version", "taskledger_dir", "project_uuid", "project_name",
     "ledger_ref", "ledger_parent_ref", "ledger_next_task_number",
     "ledger_branch_guard", "ledger", "default_memory_update_mode",
     "default_file_render_mode", "default_save_run_reports",
     "default_source_max_chars", "default_total_source_max_chars",
     "default_source_head_lines", "default_source_tail_lines",
     "default_context_order", "workflow_schema", "project_context",
     "artifact_rules", "default_artifact_order", "prompt_profiles",
     "agent_logging", "event_logging", "worker_pipeline", "sync"}

_artifact_rules_from_mapping(doc) ==
    /\ <<"artifact_rules">> \notin DOMAIN doc
    /\ \A q \in Below(doc, <<"artifact_rules">>) :
           TableHas(doc, SubSeq(q, 1, 2),
                    [depends_on |-> Lists, label |-> Texts, description |-> Texts])

\* Only rules that exist are checked: without a rule the order may name
\* anything, and an order that is no list counts as empty.
_validate_artifact_order_and_dependencies(doc) ==
    LET rules == Below(doc, <<"artifact_rules">>)
        names == {q[2] : q \in rules}
        order == Items(Get(doc, <<"default_artifact_order">>, "[]"))
    IN  /\ \A q \in rules : Last(q) = "depends_on" => Items(doc[q]) \subseteq names
        /\ rules # {} => order \subseteq names

_validate_prompt_profile(doc) ==
    /\ <<"prompt_profiles">> \notin DOMAIN doc
    /\ \A q \in Below(doc, <<"prompt_profiles">>) :
           TableHas(doc, SubSeq(q, 1, 2),
                    [profile |-> {"balanced"}, question_policy |-> {},
                     todo_granularity |-> {}, plan_body_detail |-> {},
                     max_required_questions |-> Positives,
                     min_acceptance_criteria |-> Positives,
                     require_files |-> Bools, require_test_commands |-> Bools,
                     require_expected_outputs |-> Bools,
                     require_validation_hints |-> Bools,
                     required_question_topics |-> Lists, extra_guidance |-> Texts])

_validate_agent_logging(doc) ==
    TableHas(doc, <<"agent_logging">>,
             [enabled |-> Bools, capture_taskledger_cli |-> Bools,
              capture_managed_shell |-> Bools, capture_visible_stdout |-> Bools,
              capture_visible_stderr |-> Bools, capture_visible_combined |-> Bools,
              capture_payload_metadata |-> Bools, capture_safe_read_only |-> Bools,
              capture_human_oriented |-> Bools, max_inline_chars |-> Positives,
              store_full_output_artifacts |-> Bools, max_artifact_bytes |-> Positives,
              fail_on_logging_error |-> Bools, redact_patterns |-> Lists])

_validate_event_logging(doc) ==
    TableHas(doc, <<"event_logging">>, [enabled |-> Bools])

_validate_sync_config(doc) ==
    /\ <<"sync">> \notin DOMAIN doc
    /\ TableHas(doc, <<"sync", "git">>,
                [repo |-> Texts, project_path |-> Texts, remote |-> Texts,
                 branch |-> Texts, allow_active_locks |-> Bools, hooks |-> Bools])

_validate_ledger_table(doc) ==
    TableHas(doc, <<"ledger">>, [code |-> Texts, name |-> Texts])

validate_worker_step(doc, step) ==
    /\ TableHas(doc, step, [id |-> {"r1", "r2"}, lifecycle_stage |-> {"review"},
                            base_context |-> {"reviewer"}, label |-> Texts])
    /\ \A required \in {"id", "lifecycle_stage", "base_context"} :
           Append(step, required) \in DOMAIN doc

validate_worker_pipeline(doc) ==
    LET pipeline == <<"worker_pipeline">>
        below == Below(doc, pipeline)
        steps == {SubSeq(q, 1, 3) : q \in {r \in below : Len(r) > 3}}
    IN  /\ TableHas([q \in {r \in below : Len(r) <= 2} |-> doc[q]], pipeline,
                    [enabled |-> Bools, name |-> Texts, mode |-> {"guided"},
                     steps |-> {"[]"}])
        /\ \A q \in below : Len(q) > 2 => q[2] = "steps"
        /\ \A step \in steps : validate_worker_step(doc, step)
        /\ \A s, t \in steps : doc[Append(s, "id")] = doc[Append(t, "id")] => s = t
        /\ Get(doc, <<"worker_pipeline", "enabled">>, "false") = "true" => steps # {}

\* The check load and config set share.  The workflow defaults are not part
\* of it: only merge_project_config looks at them.
_validate_project_config_overrides(doc) ==
    /\ \A q \in DOMAIN doc : q[1] \in SUPPORTED_PROJECT_CONFIG_KEYS
    /\ Get(doc, <<"config_version">>, "2") \in {"1", "2"}
    /\ Get(doc, <<"taskledger_dir">>, "here") \in Texts
    /\ _validate_ledger_table(doc)
    /\ _artifact_rules_from_mapping(doc)
    /\ _validate_artifact_order_and_dependencies(doc)
    /\ _validate_prompt_profile(doc)
    /\ _validate_agent_logging(doc)
    /\ _validate_event_logging(doc)
    /\ validate_worker_pipeline(doc)
    /\ _validate_sync_config(doc)

\* What merge_project_config adds to the checks of load: the workflow
\* defaults, which are at the top of the file.
merge_project_config(doc) ==
    LET Is(keys, values) == \A k \in keys : <<k>> \in DOMAIN doc => doc[<<k>>] \in values
    IN  /\ Is({"default_memory_update_mode"}, {"replace"})
        /\ Is({"default_file_render_mode"}, {"content"})
        /\ Is({"default_save_run_reports"}, Bools)
        /\ Is({"default_source_max_chars", "default_total_source_max_chars",
               "default_source_head_lines", "default_source_tail_lines"}, Positives)
        /\ Is({"default_context_order", "default_artifact_order"}, Lists)
        /\ Is({"workflow_schema", "project_context"}, Texts)

\* The agent logging settings with their defaults.
_parse_agent_logging(doc) ==
    LET On(key, default) == Get(doc, <<"agent_logging", key>>, default) = "true"
    IN  [enabled |-> On("enabled", "false"),
         cli     |-> On("capture_taskledger_cli", "true"),
         shell   |-> On("capture_managed_shell", "true"),
         payload |-> On("capture_payload_metadata", "true"),
         reads   |-> On("capture_safe_read_only", "true"),
         human   |-> On("capture_human_oriented", "true")]

\* What everything that looks for the storage needs of the file.
load_project_config_document(file) ==
    LET toml == Toml(file) IN toml.ok /\ _validate_project_config_overrides(toml.doc)

\* A command gets past main(): start_cli_recorder loads and merges the
\* configuration before anything else and catches no error.
Startable(file) ==
    LET toml == Toml(file)
    IN  /\ toml.ok
        /\ _validate_project_config_overrides(toml.doc)
        /\ merge_project_config(toml.doc)

_ledger_config_from_dict(doc) ==
    [ledger_ref |-> Get(doc, <<"ledger_ref">>, "main"),
     ledger_parent_ref |-> Get(doc, <<"ledger_parent_ref">>, "none"),
     ledger_next_task_number |-> Get(doc, <<"ledger_next_task_number">>, "1"),
     ledger_branch_guard |-> Get(doc, <<"ledger_branch_guard">>, "off")]

----------------------------------------------------------------------------
(* Writing: config set.                                                    *)

LEDGER_CONFIG_KEYS ==
    {"ledger_ref", "ledger_parent_ref", "ledger_next_task_number", "ledger_branch_guard"}

\* Keys config set refuses: they belong to other commands.
_ensure_mutable_project_config_key_path(path) ==
    path[1] \notin {"config_version", "taskledger_dir", "project_uuid",
                    "project_name"} \cup LEDGER_CONFIG_KEYS

\* No table on the way to the key is a scalar or a list.
_set_project_config_path_allowed(doc, path) ==
    /\ \A k \in 1..(Len(path) - 1) : SubSeq(path, 1, k) \notin DOMAIN doc
    /\ ~IsStrictPrefix(<<"worker_pipeline", "steps">>, path)

\* The document with the value at path, and nothing else at or below it.
_set_project_config_path(doc, path, value) ==
    LET kept == {q \in DOMAIN doc : ~IsPrefix(path, q)}
    IN  Over(Leaves(path, value), [q \in kept |-> doc[q]])

\* The header a line stands under.  A header of an array of tables is not
\* recognised (_parse_toml_table_header): its lines count as lines of the
\* table before it.
SectionOf(file, n) ==
    LET heads == {k \in 1..(n - 1) : file[k].kind = "head"}
    IN  IF heads = {} THEN <<>> ELSE file[Max(heads)].at

\* Fault: a key is looked up by its name, whatever table it is in.
_toml_assignment_matches_Anywhere(file, n, section, key) ==
    file[n].kind = "set" /\ file[n].at = <<key>>

\* The lines that assign to the key in the section.
_toml_assignment_matches(file, n, section, key) ==
    file[n].kind = "set" /\ file[n].at = <<key>> /\ SectionOf(file, n) = section

\* Fault: a new key goes to the end of the file.
NewLineAt_End(file, section) == Len(file) + 1

\* Where a key that has no line yet is inserted: at the end of its section,
\* or before the first section.
NewLineAt(file, section) ==
    LET heads == {k \in 1..Len(file) : file[k].kind = "head"}
        start == {k \in heads : file[k].at = section}
    IN  Min({k \in heads : \A h \in start : h < k} \cup {Len(file) + 1})

_apply_project_config_value_patch(file, path, value) ==
    LET section == Front(path)
        line == Assign(Last(path), value)
        hits == {n \in 1..Len(file) :
                    _toml_assignment_matches(file, n, section, Last(path))}
    IN  IF hits # {}
        THEN [n \in 1..Len(file) |-> IF n \in hits THEN line ELSE file[n]]
        ELSE IF section = <<>> \/ Header(section) \in Range(file)
        THEN InsertAt(file, NewLineAt(file, section), line)
        ELSE file \o <<Header(section), line>>

\* config set refuses before it writes.
config_set_accepted(doc, path, value) ==
    /\ _ensure_mutable_project_config_key_path(path)
    /\ _set_project_config_path_allowed(doc, path)
    /\ _validate_project_config_overrides(_set_project_config_path(doc, path, value))

----------------------------------------------------------------------------
(* Writing: the keys other commands own.                                   *)

\* The ledger keys are replaced wherever they stand; those that are missing
\* go to the end of the file, under whatever table is last.
_apply_ledger_patch(file, ledger) ==
    LET Owned(line) == line.kind = "set" /\ line.at[1] \in LEDGER_CONFIG_KEYS
        patched == [n \in 1..Len(file) |->
                       IF Owned(file[n])
                       THEN Assign(file[n].at[1], ledger[file[n].at[1]])
                       ELSE file[n]]
        found == {line.at[1] : line \in {l \in Range(file) : Owned(l)}}
        IfMissing(key) ==
            IF key \in found THEN <<>> ELSE <<Assign(key, ledger[key])>>
    IN  patched \o IfMissing("ledger_ref") \o IfMissing("ledger_parent_ref")
                \o IfMissing("ledger_next_task_number") \o IfMissing("ledger_branch_guard")

\* A patch gives some of the keys their new values; all four are written.
update_ledger_config(file, patch) ==
    _apply_ledger_patch(file, Over(patch, _ledger_config_from_dict(Document(file))))

\* Position of the first line that assigns to the key, 0 if there is none.
LineOf(file, key) ==
    LET hits == {n \in 1..Len(file) : file[n].kind = "set" /\ file[n].at = <<key>>}
    IN  IF hits = {} THEN 0 ELSE Min(hits)

\* Without a line of its own the directory goes after config_version, or to
\* the top.
_apply_taskledger_dir_patch(file, dir) ==
    LET line == Assign("taskledger_dir", dir)
        at == LineOf(file, "taskledger_dir")
    IN  IF at # 0
        THEN [n \in 1..Len(file) |-> IF file[n].at = line.at THEN line ELSE file[n]]
        ELSE InsertAt(file, LineOf(file, "config_version") + 1, line)

insert_or_append_project_uuid(file, uuid) ==
    LET line == Assign("project_uuid", uuid)
        dir == LineOf(file, "taskledger_dir")
        ref == LineOf(file, "ledger_ref")
    IN  IF dir # 0 THEN InsertAt(file, dir + 1, line)
        ELSE IF ref # 0 THEN InsertAt(file, ref, line)
        ELSE Append(file, line)

ensure_project_uuid(file) ==
    IF <<"project_uuid">> \in DOMAIN Document(file) THEN file
    ELSE insert_or_append_project_uuid(file, "uuid")

----------------------------------------------------------------------------
(* Files a project starts from.                                            *)

Top(keys, values) == [n \in 1..Len(keys) |-> Assign(keys[n], values[n])]

LedgerBlock ==
    Top(<<"ledger_ref", "ledger_parent_ref", "ledger_next_task_number",
          "ledger_branch_guard">>, <<"main", "none", "1", "off">>)

\* What init writes; the optional tables of the template are comments.
render_default_taskledger_toml ==
    Top(<<"config_version", "taskledger_dir", "project_uuid">>, <<"2", "here", "uuid">>)
        \o LedgerBlock
        \o <<Header(<<"ledger">>), Assign("code", "tl"), Assign("name", "text")>>

\* The same without an identity, with a worker pipeline and a further table
\* added by hand.
PipelineFile ==
    Top(<<"config_version", "taskledger_dir">>, <<"2", "here">>)
        \o LedgerBlock
        \o <<Header(<<"worker_pipeline">>), Assign("enabled", "true"),
             ItemHeader(<<"worker_pipeline", "steps">>), Assign("id", "r1"),
             Assign("lifecycle_stage", "review"),
             Assign("base_context", "reviewer"),
             Header(<<"event_logging">>), Assign("enabled", "true")>>

\* The file docs/sync.rst gives for a state directory outside the workspace:
\* three of the ledger keys have no line.
DocumentedFile ==
    Top(<<"config_version", "taskledger_dir", "project_uuid", "project_name",
          "ledger_ref">>,
        <<"2", "there", "uuid", "text", "main">>)

Layout == [template |-> render_default_taskledger_toml, pipeline |-> PipelineFile,
           documented |-> DocumentedFile]
=============================================================================

------------------------------ MODULE Session -------------------------------
(***************************************************************************)
(* Command line processes that share one project: each loads the           *)
(* configuration before anything else (cli.py main, start_cli_recorder),   *)
(* runs its command, which may rewrite the configuration file, emits its   *)
(* payload and records itself when it closes.  It counts the log in one    *)
(* step and writes under the id it got in a later one.  Processes run side *)
(* by side and may be killed between any two steps.                        *)
(***************************************************************************)
EXTENDS Config, AgentLog

CONSTANTS Procs,        \* processes that may run at the same time
          Layouts,      \* names of the files a project may start from
          Edits,        \* what is typed after config set: a key's name and a value
          MaxCommands,  \* bound: commands started
          Seconds       \* seconds a command may start in

VARIABLES file,      \* lines of .taskledger.toml
          logs,      \* per ledger, the records of the day
          artifacts, \* per ledger, which command wrote the payload of an id
          procs,     \* what each process is doing
          commands,  \* commands started so far
          met,       \* pairs of commands that ran at the same time
          closed,    \* commands that owe the log a record and closed while the
                     \* configuration could be loaded
          strayed,   \* ledgers that got what was counted in another one
          spoiled    \* the file was last written by an edit that is not Sound

Symmetry == Permutations(Procs)

vars == <<file, logs, artifacts, procs, commands, met, closed, strayed, spoiled>>

LedgerRefs == {"main", "dev"}

KeyPath ==
    [reports  |-> <<"default_save_run_reports">>,
     context  |-> <<"default_context_order">>,
     order    |-> <<"default_artifact_order">>,
     depends  |-> <<"artifact_rules", "analysis", "depends_on">>,
     profile  |-> <<"prompt_profiles", "planning", "profile">>,
     events   |-> <<"event_logging", "enabled">>,
     eventtab |-> <<"event_logging">>,
     below    |-> <<"event_logging", "enabled", "deep">>,
     logging  |-> <<"agent_logging", "enabled">>,
     cli      |-> <<"agent_logging", "capture_taskledger_cli">>,
     reads    |-> <<"agent_logging", "capture_safe_read_only">>,
     human    |-> <<"agent_logging", "capture_human_oriented">>,
     shell    |-> <<"agent_logging", "capture_managed_shell">>,
     chars    |-> <<"agent_logging", "max_inline_chars">>,
     remote   |-> <<"sync", "git", "remote">>,
     code     |-> <<"ledger", "code">>,
     pipeline |-> <<"worker_pipeline", "enabled">>,
     naming   |-> <<"worker_pipeline", "name">>,
     step     |-> <<"worker_pipeline", "steps", "id">>,
     ref      |-> <<"ledger_ref">>,
     typo     |-> <<"event_loging", "enabled">>]

ASSUME SessionAssumption ==
    /\ Layouts \subseteq DOMAIN Layout
    /\ \A edit \in Edits : edit.key \in DOMAIN KeyPath

Typed == {edit.value : edit \in Edits}

\* The ledger the configuration selects: where the log of a command goes.
Current == _ledger_config_from_dict(Document(file)).ledger_ref

----------------------------------------------------------------------------
(* What a command may ask of the configuration file.                       *)

Request(op, path, value) == [op |-> op, path |-> path, value |-> value]

NoRequest == Request("none", <<>>, "")

\* A switch and a fork go to another ledger; the task counter is followed as
\* far as Numerals goes.
Requests ==
    LET ledger == _ledger_config_from_dict(Document(file)) IN
    {Request("set", KeyPath[edit.key], edit.value) : edit \in Edits}
        \cup {Request(op, <<"ledger_ref">>, r) :
                op \in {"ledger", "fork"}, r \in LedgerRefs \ {ledger.ledger_ref}}
        \cup {Request("ledger", <<"ledger_next_task_number">>, Numerals[n + 1]) :
                n \in {k \in 1..(Len(Numerals) - 1) :
                          Numerals[k] = ledger.ledger_next_task_number}}
        \cup {Request("dir", <<"taskledger_dir">>, "there"),
              Request("uuid", <<"project_uuid">>, "uuid")}

\* ledger switch and the task counter give one key a value; a fork also names
\* the ledger it comes from.
LedgerConfigPatch(ledger, request) ==
    IF request.op = "fork"
    THEN [ledger_ref |-> request.value, ledger_parent_ref |-> ledger.ledger_ref]
    ELSE [key \in {request.path[1]} |-> request.value]

\* The text a request turns the file into.
Patched(request) ==
    CASE request.op = "set" ->
            _apply_project_config_value_patch(file, request.path, request.value)
      [] request.op \in {"ledger", "fork"} ->
            update_ledger_config(file,
                LedgerConfigPatch(_ledger_config_from_dict(Document(file)), request))
      [] request.op = "dir" -> _apply_taskledger_dir_patch(file, request.value)
      [] request.op = "uuid" -> ensure_project_uuid(file)

\* The document a request asks for.
Asked(doc, request) ==
    LET ledger == _ledger_config_from_dict(doc)
        new == Over(LedgerConfigPatch(ledger, request), ledger)
    IN  CASE request.op \in {"set", "dir"} ->
                _set_project_config_path(doc, request.path, request.value)
          [] request.op \in {"ledger", "fork"} ->
                Over([path \in {<<key>> : key \in DOMAIN new} |-> new[path[1]]], doc)
          [] request.op = "uuid" ->
                Over(doc, [path \in {request.path} |-> request.value])

\* Where a line patch cannot go to the wrong table.  Ledger keys without a
\* line are appended, which is right in a file without tables only.  config
\* set takes a header of an array of tables for a line of the section before
\* it, so a new key must not follow one there; and it does not see that an
\* inline table and a header, or the header it appends, name the same table.
PlacedSafely(lines, request) ==
    LET Heads == {line \in Range(lines) : line.kind # "set"}
        Sets == {line \in Range(lines) : line.kind = "set"}
        section == Front(request.path)
        new == \A n \in 1..Len(lines) :
                   ~_toml_assignment_matches(lines, n, section, Last(request.path))
    IN  /\ request.op \in {"ledger", "fork"} =>
               Heads = {} \/ LEDGER_CONFIG_KEYS \subseteq {line.at[1] : line \in Sets}
        /\ request.op = "set" =>
               /\ new => \A n \in 1..Len(lines) :
                            lines[n].kind = "item" => SectionOf(lines, n) # section
               /\ request.value = Inline => \A head \in Heads : head.at # request.path
               /\ section # <<>> => Assign(section[1], Inline) \notin Sets

\* config set does not look at the workflow defaults, which every command
\* merges when it starts.
Checked(lines, request) ==
    request.op = "set" => merge_project_config(Asked(Document(lines), request))

\* The edits that keep a file fit to start from.
Sound(lines, request) ==
    Startable(lines) /\ PlacedSafely(lines, request) /\ Checked(lines, request)

----------------------------------------------------------------------------
Idle == [pc |-> "idle"]

\* A process whose recorder is set up.
Process(pc, cmd, now, recorded, owed, keeps) ==
    [pc |-> pc, cmd |-> cmd, second |-> now, recorded |-> recorded,
     owed |-> owed, keeps |-> keeps, payload |-> <<>>,
     log_id |-> <<>>, ledger |-> "none",
     request |-> NoRequest, base |-> <<>>, text |-> <<>>]

\* With logging on, what does more than read is to be on record.
Owes(profile, config, no_log) ==
    /\ config.enabled /\ config.cli /\ ~no_log
    /\ profile.class # "read"
    /\ config.human \/ ~profile.human

Init ==
    /\ file \in {Layout[name] : name \in Layouts}
    /\ logs = [l \in LedgerRefs |-> <<>>]
    /\ artifacts = [l \in LedgerRefs |-> <<>>]
    /\ procs = [p \in Procs |-> Idle]
    /\ commands = 0
    /\ met = {}
    /\ closed = {}
    /\ strayed = {}
    /\ spoiled = FALSE

\* Where a command goes from main(): the commands that write may rewrite the
\* configuration, plan command and implement command run a process, and what
\* the others do touches neither file nor log.
Body(profile) ==
    IF profile.class = "write" THEN "config"
    ELSE IF profile.class = "exec" /\ ~profile.human THEN "shell" ELSE "other"

\* main(): the recorder is set up from the configuration as it is now.  A
\* file that cannot be loaded ends the process here.
start_cli_recorder(p) ==
    LET config == _parse_agent_logging(Document(file))
        cmd == commands + 1
    IN  /\ procs[p].pc = "idle"
        /\ commands < MaxCommands
        /\ Startable(file)
        /\ commands' = cmd
        /\ \E profile \in Profiles, no_log \in BOOLEAN, now \in Seconds :
               procs' = [procs EXCEPT ![p] =
                   Process(Body(profile), cmd, now,
                           ~_should_skip_cli_recording(profile, config, no_log),
                           Owes(profile, config, no_log), config.payload)]
        /\ met' = met \cup {{cmd, procs[q].cmd} :
                                q \in {r \in Procs : procs[r].pc # "idle"}}
        /\ UNCHANGED <<file, logs, artifacts, closed, strayed, spoiled>>

Goto(p, pc) == procs' = [procs EXCEPT ![p].pc = pc]

\* A writing command locates the project, reads the file, checks the request
\* and makes the new text; what is refused ends in an error.
read_config(p) ==
    LET doc == Document(file)
        located == load_project_config_document(file)
        Accepted(request) ==
            request.op = "set" => config_set_accepted(doc, request.path, request.value)
    IN  /\ procs[p].pc = "config"
        /\ \E request \in Requests :
               IF located /\ Accepted(request)
               THEN procs' = [procs EXCEPT ![p].pc = "patched", ![p].base = file,
                                           ![p].request = request,
                                           ![p].text = Patched(request)]
               ELSE Goto(p, "failed")
        /\ UNCHANGED <<file, logs, artifacts, commands, met, closed, strayed, spoiled>>

\* atomic_write_text replaces the whole file, whatever it holds by now; what
\* the command does after that may still end in an error, and config set does
\* when it cannot load what it wrote.
write_config(p) ==
    /\ procs[p].pc = "patched"
    /\ file' = procs[p].text
    /\ spoiled' = ~Sound(procs[p].base, procs[p].request)
    /\ \E pc \in {"worked", "failed"} :
        /\ pc = "worked" /\ procs[p].request.op = "set"
               => load_project_config_document(procs[p].text)
        /\ procs' = [procs EXCEPT ![p].pc = pc, ![p].request = NoRequest,
                                  ![p].base = <<>>, ![p].text = <<>>]
    /\ UNCHANGED <<logs, artifacts, commands, met, closed, strayed>>

\* The rest of a command that leaves the configuration alone, or runs a
\* process without recording it (git, a shell with the capture turned off):
\* it works, or it ends in an error.
work(p) ==
    /\ procs[p].pc \in {"config", "shell", "other"} /\ procs[p].log_id = <<>>
    /\ \E pc \in {"worked", "failed"} : Goto(p, pc)
    /\ UNCHANGED <<file, logs, artifacts, commands, met, closed, strayed, spoiled>>

\* _next_log_id: an id is made from the records of the ledger that is selected
\* now.  What is written under it comes later: the record of a process that
\* plan command or implement command ran, the payload, the command's own record.
\* Each needs the configuration to find the log.
count_records(p) ==
    LET proc == procs[p]
        config == _parse_agent_logging(Document(file))
    IN  /\ proc.pc # "idle" /\ proc.log_id = <<>>
        /\ \/ proc.pc = "shell" /\ Startable(file) /\ config.enabled /\ config.shell
           \/ proc.pc = "worked" /\ proc.recorded /\ proc.keeps
           \/ proc.pc \in {"emitted", "failed"} /\ proc.recorded
        /\ load_project_config_document(file)
        /\ \E now \in IF proc.pc = "shell" THEN Seconds ELSE {proc.second} :
               procs' = [procs EXCEPT ![p].log_id = _next_log_id(logs[Current], now),
                                      ![p].ledger = Current]
        /\ UNCHANGED <<file, logs, artifacts, commands, met, closed, strayed, spoiled>>

\* What a process counted in one ledger may go to another.
Strays(p) == IF procs[p].ledger # Current THEN strayed \cup {Current} ELSE strayed

\* plan command and implement command record the process they ran before they
\* emit their payload; without a configuration that is an error.
record_managed_shell_command(p) ==
    LET loads == load_project_config_document(file) IN
    /\ procs[p].pc = "shell" /\ procs[p].log_id # <<>>
    /\ logs' = IF loads
               THEN [logs EXCEPT ![Current] = Append(@,
                        AgentCommandLogRecord(procs[p].log_id, procs[p].cmd,
                                              "managed_shell", <<>>))]
               ELSE logs
    /\ \E pc \in IF loads THEN {"worked", "failed"} ELSE {"failed"} :
           procs' = [procs EXCEPT ![p].pc = pc, ![p].log_id = <<>>, ![p].ledger = "none"]
    /\ strayed' = IF loads THEN Strays(p) ELSE strayed
    /\ UNCHANGED <<file, artifacts, commands, met, closed, spoiled>>

\* emit_payload: the payload is stored under the id the record is expected
\* to get.  An error on the way is swallowed and the record goes without.
note_payload(p) ==
    LET proc == procs[p]
        stores == proc.recorded /\ proc.keeps /\ load_project_config_document(file)
    IN  /\ proc.pc = "worked"
        /\ stores => proc.log_id # <<>>
        /\ artifacts' = IF stores
                        THEN [artifacts EXCEPT ![Current] =
                                 Over([x \in {proc.log_id} |-> proc.cmd], @)]
                        ELSE artifacts
        /\ procs' = [procs EXCEPT ![p].pc = "emitted",
                                  ![p].payload = IF stores THEN proc.log_id ELSE <<>>,
                                  ![p].log_id = <<>>, ![p].ledger = "none"]
        /\ strayed' = IF stores THEN Strays(p) ELSE strayed
        /\ UNCHANGED <<file, logs, commands, met, closed, spoiled>>

\* The context closes: finish() appends the record.  _close swallows the error
\* of a configuration that does not load, and the command leaves no record.
finish(p) ==
    LET proc == procs[p]
        loads == load_project_config_document(file)
        writes == proc.recorded /\ loads
    IN  /\ proc.pc \in {"emitted", "failed"}
        /\ writes => proc.log_id # <<>>
        /\ logs' = IF writes
                   THEN [logs EXCEPT ![Current] = Append(@,
                       AgentCommandLogRecord(proc.log_id, proc.cmd, "taskledger_cli",
                                             proc.payload))]
                   ELSE logs
        /\ strayed' = IF writes THEN Strays(p) ELSE strayed
        /\ closed' = IF proc.owed /\ loads THEN closed \cup {proc.cmd} ELSE closed
        /\ procs' = [procs EXCEPT ![p] = Idle]
        /\ UNCHANGED <<file, artifacts, commands, met, spoiled>>

killed(p) ==
    /\ procs[p].pc # "idle"
    /\ procs' = [procs EXCEPT ![p] = Idle]
    /\ UNCHANGED <<file, logs, artifacts, commands, met, closed, strayed, spoiled>>

Next ==
    \E p \in Procs :
        \/ start_cli_recorder(p) \/ read_config(p) \/ write_config(p)
        \/ work(p) \/ count_records(p) \/ record_managed_shell_command(p)
        \/ note_payload(p) \/ finish(p) \/ killed(p)

Spec == Init /\ [][Next]_vars

----------------------------------------------------------------------------
\* No sequence of accepted edits, of overlapping ones either, leaves a file
\* a command refuses to start from - as long as the last one written was made
\* from a file that loads, had a safe place for its line (PlacedSafely) and,
\* for a workflow default, a value merge_project_config takes (Checked).  What
\* config set accepts and the ledger commands write beyond that can end every
\* later command in an error; a sound edit never does, whichever of the four
\* patch functions made it and whatever it overwrote.
ConfigLoads == ~spoiled => Startable(file)

\* A write made from the file as it is now, with a safe place for its line,
\* changes the meaning of the file by what the command asked for and by
\* nothing else: the line patched is the line of that key in that table, and
\* no other table is affected (_apply_project_config_value_patch against
\* _set_project_config_path, _apply_ledger_patch against LedgerConfigPatch).
WritesWhatWasAsked ==
    [][\A p \in Procs :
          (/\ procs[p].pc = "patched" /\ procs'[p].pc \in {"worked", "failed"}
           /\ procs[p].base = file /\ load_project_config_document(file)
           /\ PlacedSafely(file, procs[p].request))
              => Document(file') = Asked(Document(file), procs[p].request)]_vars

\* With logging and capture_taskledger_cli on, every command that does more
\* than read and ended normally has a record, whatever the capture settings
\* for reads are and however its command line was looked up in the inventory.
\* Exempt are commands run with --no-log, human-oriented commands while
\* capture_human_oriented is off, and what closes while the configuration does
\* not load: _close swallows that error, so that a config set that breaks the
\* file is itself not on record.  Other errors of finish (a full disk) are not
\* modelled.
ChangesAreLogged ==
    \A cmd \in closed : \E l \in LedgerRefs : \E n \in 1..Len(logs[l]) :
        logs[l][n].cmd = cmd /\ logs[l][n].kind = "taskledger_cli"

RanAlone(cmd) == \A pair \in met : cmd \notin pair

\* Two commands that overlap can count the log before either appends, and get
\* the same id; whoever reads the log sees one of the two records.  That is all
\* that can happen: a record of a command that met no other is never hidden by
\* a record with the same id, not even by one that an overlap made, and the
\* payload stored under its payload reference is its own - unless the ledger was
\* switched between the count and the write of some command, which puts an id of
\* one ledger into the log of the other.
RecordsAreDistinct ==
    \A l \in LedgerRefs \ strayed : \A n \in 1..Len(logs[l]) :
        LET r == logs[l][n] IN
        RanAlone(r.cmd) =>
            /\ r.log_id \notin detect_duplicate_log_ids(logs[l])
            /\ r.payload # <<>> => artifacts[l][r.payload] = r.cmd
=============================================================================

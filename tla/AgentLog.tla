------------------------------ MODULE AgentLog ------------------------------
(***************************************************************************)
(* The agent command log (services/agent_logging.py, storage/agent_logs.py,*)
(* domain/change.py AgentCommandLogRecord): which commands are recorded,   *)
(* how a record gets its id, and what a reader of the log gets to see.     *)
(*                                                                         *)
(* A log is the sequence of records appended to the file of a day, in one  *)
(* ledger.  An id is the second a command started in together with a       *)
(* number counted from the log.  Redaction, truncation, excerpts and the   *)
(* outcome of a command are left out; of the artifacts a record points to  *)
(* only the payload is kept, the one that is written before the record.    *)
(***************************************************************************)
EXTENDS Naturals, Sequences, FiniteSets, CommandInventory

NoEntry == [human |-> FALSE, class |-> "unknown"]

\* What the recorder sees of a command: its own entry, and the entry its
\* command line is looked up under.
Profile(entry, option) ==
    LET key == _command_key_from_argv(Argv(entry.words, option))
        found == IF key \in Keys THEN Metadata(key) ELSE NoEntry
    IN  [class |-> entry.class, human |-> entry.human,
         key_class |-> found.class, key_human |-> found.human]

Profiles == {Profile(e, option) : e \in COMMAND_METADATA, option \in BOOLEAN}

\* Fault: the legacy effect field decides what is read only.
_should_skip_cli_recording_Legacy(profile, config, no_log) ==
    \/ no_log
    \/ ~config.enabled \/ ~config.cli
    \/ profile.key_human /\ ~config.human
    \/ profile.key_class \in {"read", "render", "probe"} /\ ~config.reads

\* An unknown key is recorded; a process run and a render are recorded even
\* if their legacy effect says safe_read_only.
_should_skip_cli_recording(profile, config, no_log) ==
    \/ no_log
    \/ ~config.enabled \/ ~config.cli
    \/ profile.key_human /\ ~config.human
    \/ profile.key_class = "read" /\ ~config.reads

AgentCommandLogRecord(id, cmd, kind, payload) ==
    [log_id |-> id, cmd |-> cmd, kind |-> kind, payload |-> payload]

\* A reader drops a record whose id it has seen before.
load_agent_command_logs(log) ==
    {log[n] : n \in {k \in 1..Len(log) :
                        \A j \in 1..(k - 1) : log[j].log_id # log[k].log_id}}

detect_duplicate_log_ids(log) ==
    {log[k].log_id : k \in {n \in 1..Len(log) :
                               \E j \in 1..(n - 1) : log[j].log_id = log[n].log_id}}

\* Fault: only the records of commands are counted, not those of the
\* processes they ran.
_next_log_id_CommandsOnly(log, second) ==
    <<second, 1 + Cardinality({r \in load_agent_command_logs(log) :
                                  r.kind = "taskledger_cli"})>>

\* The records a reader gets, plus one.
_next_log_id(log, second) ==
    <<second, 1 + Cardinality(load_agent_command_logs(log))>>
=============================================================================

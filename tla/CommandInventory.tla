-------------------------- MODULE CommandInventory --------------------------
(***************************************************************************)
(* The command inventory (command_inventory.py) and the way a command line *)
(* is looked up in it (services/agent_logging.py, cli.py main).            *)
(*                                                                         *)
(* The inventory has one entry per command.  What the rest of the program  *)
(* asks of an entry is its audience (human oriented or not) and the class  *)
(* of its effects:                                                         *)
(*   "read"    reads the ledger or the workspace and nothing else          *)
(*   "write"   changes the ledger, the workspace or a file                 *)
(*   "render"  writes a file outside, although its legacy effect field     *)
(*             still says safe_read_only                                   *)
(*   "exec"    runs another process                                        *)
(*   "probe"   runs another process, legacy effect field safe_read_only    *)
(* Surface, phase, tier and targeting only steer how commands are listed.  *)
(***************************************************************************)
EXTENDS Naturals, Sequences

Entry(words, human, class) == [words |-> words, human |-> human, class |-> class]

Group(words, class, names) == {Entry(Append(words, n), FALSE, class) : n \in names}

Human(words, class, names) == {Entry(Append(words, n), TRUE, class) : n \in names}

----------------------------------------------------------------------------
(* The table, section by section.                                          *)

SetupCommands ==
    UNION {Group(<<"actor">>, "read", {"whoami"}),
           Group(<<"actor">>, "write", {"set", "clear"}),
           Group(<<"harness">>, "write", {"set", "clear"})}

OrientationCommands ==
    UNION {Group(<<>>, "write", {"init"}),
           Group(<<>>, "read", {"next-action", "can", "context", "trace"}),
           Group(<<"config">>, "read", {"list", "show", "get", "keys",
                 "describe"}),
           Group(<<"config">>, "write", {"set"}),
           Group(<<"pipeline">>, "read", {"show", "list", "next", "context"})}

TaskCommands ==
    UNION {Group(<<"task">>, "write", {"create", "activate", "deactivate",
                 "follow-up", "record", "edit", "cancel", "uncancel", "close",
                 "archive", "unarchive"}),
           Group(<<"task">>, "read", {"active", "show", "list", "events"})}

PlanningCommands ==
    UNION {Group(<<"plan">>, "write", {"start", "upsert", "propose",
                 "regenerate", "materialize-todos", "revise", "amend",
                 "reject"}),
           Group(<<"plan">>, "render", {"template", "review", "export",
                 "draft"}),
           Group(<<"plan">>, "read", {"guidance", "lint", "show", "list",
                 "diff"}),
           Group(<<"plan">>, "exec", {"command"})}

ApprovalCommands ==
    UNION {Group(<<"plan">>, "write", {"accept", "approve"})}

QuestionCommands ==
    UNION {Group(<<"question">>, "write", {"add", "add-many", "answer",
                 "answer-many", "dismiss"}),
           Group(<<"question">>, "read", {"status", "answers", "list",
                 "open"})}

ImplementationCommands ==
    UNION {Group(<<"implement">>, "write", {"start", "restart", "resume",
                 "change", "scan-changes", "finish", "log", "deviation",
                 "artifact"}),
           Group(<<"implement">>, "read", {"checklist", "show", "status"}),
           Group(<<"implement">>, "exec", {"command"})}

TodoCommands ==
    UNION {Group(<<"todo">>, "write", {"add", "done", "undone"}),
           Group(<<"todo">>, "read", {"next", "status", "show", "list"})}

ValidationCommands ==
    UNION {Group(<<"validate">>, "write", {"start", "check", "finish",
                 "waive"}),
           Group(<<"validate">>, "read", {"status", "show"})}

ReviewCommands ==
    UNION {Group(<<"review">>, "write", {"record"}),
           Group(<<"review">>, "read", {"list", "show"})}

HandoffCommands ==
    UNION {Group(<<"handoff">>, "write", {"create", "claim", "close",
                 "cancel"}),
           Group(<<"handoff">>, "read", {"show", "list", "plan-context",
                 "implementation-context", "validation-context"})}

ReportCommands ==
    UNION {Group(<<>>, "read", {"status", "view", "usage", "tree"}),
           Human(<<>>, "read", {"monitor", "commands"}),
           Group(<<"task">>, "read", {"dossier"}),
           Human(<<"task">>, "render", {"report"}),
           Group(<<"task">>, "render", {"export"}),
           Human(<<"task">>, "read", {"transcript"})}

ReferenceCommands ==
    UNION {Group(<<"file">>, "write", {"add", "link", "remove", "refresh"}),
           Group(<<"file">>, "read", {"list", "status"}),
           Group(<<"ref">>, "read", {"show", "parse"}),
           Group(<<"link">>, "write", {"add", "remove"}),
           Group(<<"link">>, "read", {"list"}),
           Group(<<"intro">>, "write", {"create", "link"}),
           Group(<<"intro">>, "read", {"list", "show"}),
           Group(<<"require">>, "write", {"add", "remove", "waive"}),
           Group(<<"require">>, "read", {"list"})}

TransferCommands ==
    UNION {Group(<<>>, "write", {"export", "import"}),
           Group(<<>>, "render", {"snapshot"}),
           Group(<<"ledger">>, "read", {"status", "list", "doctor"}),
           Group(<<"ledger">>, "write", {"fork", "switch", "adopt"}),
           Human(<<"storage">>, "read", {"where"}),
           Human(<<"storage">>, "write", {"move"})}

SyncCommands ==
    UNION {Human(<<"sync">>, "probe", {"preflight", "status"}),
           Human(<<"sync">>, "exec", {"commit"}),
           Group(<<"sync">>, "write", {"export", "import"}),
           Human(<<"sync">>, "read", {"git"}),
           Human(<<"sync", "git">>, "exec", {"init"}),
           Human(<<"sync", "git">>, "probe", {"status"}),
           Human(<<"sync", "git">>, "read", {"cd", "path"})}

SyncGitCommands ==
    UNION {Human(<<"sync", "git">>, "exec", {"import-local", "commit",
                 "export-local", "pull", "push", "sync"}),
           Human(<<"sync", "git">>, "read", {"hooks"}),
           Human(<<"sync", "git", "hooks">>, "write", {"install",
                 "uninstall"}),
           Human(<<"sync", "git", "hooks">>, "render", {"status"})}

ReleaseCommands ==
    UNION {Human(<<"release">>, "write", {"tag"}),
           Human(<<"release">>, "read", {"list", "show"})}

SearchCommands ==
    UNION {Group(<<>>, "read", {"search", "grep", "symbols", "deps"})}

RepairCommands ==
    UNION {Group(<<>>, "read", {"doctor"}),
           Group(<<"doctor">>, "read", {"locks", "schema", "indexes"}),
           Group(<<"lock">>, "read", {"show", "list"}),
           Group(<<"lock">>, "write", {"break"}),
           Group(<<"repair">>, "write", {"lock", "index", "run", "task",
                 "task-dirs", "planning-command-changes"}),
           Group(<<"migrate">>, "read", {"status", "plan"}),
           Group(<<"migrate">>, "write", {"apply"}),
           Group(<<>>, "write", {"reindex"})}

COMMAND_METADATA ==
    UNION {SetupCommands, OrientationCommands, TaskCommands, PlanningCommands,
           ApprovalCommands, QuestionCommands, ImplementationCommands,
           TodoCommands, ValidationCommands, ReviewCommands, HandoffCommands,
           ReportCommands, ReferenceCommands, TransferCommands, SyncCommands,
           SyncGitCommands, ReleaseCommands, SearchCommands, RepairCommands}

Keys == {e.words : e \in COMMAND_METADATA}

Metadata(words) == CHOOSE e \in COMMAND_METADATA : e.words = words

----------------------------------------------------------------------------
(* From the command line to an entry.                                      *)

\* Fault: every group of the inventory is a known first word.
_known_commands_All == {w[1] : w \in Keys}

\* The first words main() leaves in argv.  When the first word is any other,
\* an option such as --json or a group that is missing here, argv is rebuilt
\* from the name of the invoked subcommand alone.
_known_commands ==
    {"can", "commands", "context", "deps", "doctor", "export", "grep",
     "import", "init", "monitor", "next-action", "reindex", "search",
     "snapshot", "status", "symbols", "tree", "usage", "view", "task", "plan",
     "question", "implement", "validate", "todo", "intro", "file", "link",
     "require", "lock", "handoff", "ledger", "release", "actor", "harness"}

\* argv as main() hands it to the recorder; option tells whether a global
\* option came before the command.
Argv(words, option) ==
    IF ~option /\ words[1] \in _known_commands THEN words ELSE <<words[1]>>

\* At most two words are looked up, the longer match first.
_command_key_from_argv(argv) ==
    IF Len(argv) >= 2 /\ SubSeq(argv, 1, 2) \in Keys
    THEN SubSeq(argv, 1, 2)
    ELSE <<argv[1]>>
=============================================================================

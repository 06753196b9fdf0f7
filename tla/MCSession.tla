----------------------------- MODULE MCSession ------------------------------
(***************************************************************************)
(* The edits the model checker tries on a configuration: one that switches *)
(* the record on and one that narrows it, one that is refused, and the     *)
(* ones that are accepted and can spoil a file - a workflow default with   *)
(* a wrong value, a key behind an array of tables, an inline table.        *)
(***************************************************************************)
EXTENDS Session

Edit(key, value) == [key |-> key, value |-> value]

MCEdits ==
    {Edit("logging", "true"), Edit("reads", "false"), Edit("events", "text"),
     Edit("reports", "text"), Edit("naming", "text"), Edit("eventtab", Inline)}
=============================================================================

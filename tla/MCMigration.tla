----------------------------- MODULE MCMigration -----------------------------
(***************************************************************************)
(* Migration with three beginnings: nothing but tasks at the root; a log   *)
(* in both places and the same introductions in both; a log at the root    *)
(* only, and releases that differ.                                         *)
(***************************************************************************)
EXTENDS Migration

Beginning(root_log, ledger_log, root_intros, ledger_intros, root_releases, ledger_releases) ==
    [log |-> [root |-> root_log, ledger |-> ledger_log],
     documents |->
         [root |-> [name \in DocumentNames |-> IF name = "intros" THEN root_intros ELSE root_releases],
          ledger |-> [name \in DocumentNames |-> IF name = "intros" THEN ledger_intros ELSE ledger_releases]]]

MCShared ==
    {Beginning(NoLog, {"ledger"}, "none", "one", "none", "none"),
     Beginning({"root"}, {"ledger"}, "one", "one", "one", "none"),
     Beginning({"root"}, NoLog, "none", "other", "one", "other")}
=============================================================================

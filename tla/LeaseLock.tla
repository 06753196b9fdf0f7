------------------------------ MODULE LeaseLock ------------------------------
(***************************************************************************)
(* What a task's lock file promises: there is one lock at a time, a new    *)
(* one appears only when there is none, and until it is taken away it      *)
(* keeps naming the run it was made for; the only thing that happens to it *)
(* meanwhile is that its lease runs out.                                   *)
(***************************************************************************)
CONSTANTS Locks,    \* the unexpired locks that can be taken
          None      \* no lock file

VARIABLE lock

Expired(l) == [l EXCEPT !.expired = TRUE]

Init == lock = None

Acquire == lock = None /\ lock' \in Locks

Expire == lock \in Locks /\ lock' = Expired(lock)

Release == lock # None /\ lock' = None

Next == Acquire \/ Expire \/ Release

Spec == Init /\ [][Next]_lock
=============================================================================

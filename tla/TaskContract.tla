---------------------------- MODULE TaskContract ----------------------------
(***************************************************************************)
(* What the task board promises to the code that commits a task to it      *)
(* (server/TaskBoard.h, class Task): the task runs exactly one of its two  *)
(* callbacks, execute() or timeout(), once, unless it is cancelled before. *)
(*                                                                         *)
(* `fate' is all that the callers see: what has become of each commit.     *)
(***************************************************************************)
EXTENDS Naturals

CONSTANT Handler        \* the commits, one TaskTimeoutHandler each

VARIABLE fate

Fates == {"none", "pending", "executed", "timedout", "cancelled"}

TypeOK == fate \in [Handler -> Fates]

Init == fate = [h \in Handler |-> "none"]

Commit(h) == /\ fate[h] = "none"
             /\ fate' = [fate EXCEPT ![h] = "pending"]

Execute(h) == /\ fate[h] = "pending"
              /\ fate' = [fate EXCEPT ![h] = "executed"]

Timeout(h) == /\ fate[h] = "pending"
              /\ fate' = [fate EXCEPT ![h] = "timedout"]

\* One call of removeTask may cancel several pending tasks.
Cancel(S) == /\ \A h \in S : fate[h] = "pending"
             /\ fate' = [h \in Handler |-> IF h \in S THEN "cancelled" ELSE fate[h]]

Next == \/ \E h \in Handler : Commit(h) \/ Execute(h) \/ Timeout(h)
        \/ \E S \in SUBSET Handler : Cancel(S)

Spec == Init /\ [][Next]_fate
=============================================================================

-------------------------------- MODULE Mailbox --------------------------------
(***************************************************************************)
(* What a loop promises to those who post tasks to it                      *)
(* (include/app/UvLoop.h, UvLoop::postTask): the tasks run one by one, in  *)
(* the order in which they were posted, each of them once.                 *)
(***************************************************************************)
EXTENDS Naturals, Sequences

CONSTANT Loop

VARIABLES
    posted,     \* per loop, all that was ever posted
    handled     \* and all that has run

Init ==
    /\ posted = [l \in Loop |-> <<>>]
    /\ handled = posted

\* Anything may be posted; it comes behind what was posted before.
Post(l) ==
    /\ Len(posted'[l]) = Len(posted[l]) + 1
    /\ posted' = [posted EXCEPT ![l] = Append(@, posted'[l][Len(@) + 1])]

Handle(l) ==
    /\ Len(handled[l]) < Len(posted[l])
    /\ handled' = [handled EXCEPT ![l] = Append(@, posted[l][Len(@) + 1])]

\* The task that runs may post to another loop.
Next ==
    \/ \E l \in Loop : Post(l) /\ UNCHANGED handled
    \/ \E l \in Loop : Handle(l) /\ (UNCHANGED posted \/ \E k \in Loop : Post(k))

Spec == Init /\ [][Next]_<<posted, handled>>
=============================================================================

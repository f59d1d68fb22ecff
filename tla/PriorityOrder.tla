---------------------------- MODULE PriorityOrder ----------------------------
(***************************************************************************)
(* What ProcessPriorityPolicy keeps of the processes, without its linked   *)
(* list (server/ProcessPriorityPolicy.h, the drawing at its class): their  *)
(* order and the position at which the background begins.                  *)
(*                                                                         *)
(*    <node>---<node>---<node>---<node>                                    *)
(*      ^     home app     ^                                               *)
(*     head          mBackgroundPos                                        *)
(*                                                                         *)
(* `place' is Len(order) + 1 while there is no background.                 *)
(***************************************************************************)
EXTENDS Naturals, SequencesExt

CONSTANTS
    Pid,        \* the processes
    Gone        \* the sequences of processes that may leave the front at once

VARIABLE policy         \* [order, place]

TypeOK == /\ policy \in [order : Seq(Pid), place : Nat]
          /\ IsInjective(policy.order)
          /\ policy.place \in 1..(Len(policy.order) + 1)

Empty == [order |-> <<>>, place |-> 1]

Position(o, p) == CHOOSE i \in DOMAIN o.order : o.order[i] = p
Listed(o, p) == \E i \in DOMAIN o.order : o.order[i] = p

(* The place before the background is the home application's, if there is  *)
(* a background: the process there keeps it when it goes to the background.*)
AtHome(o, i) == i + 1 = o.place /\ o.place <= Len(o.order)

Added(o, p, isForeground) ==
    IF Listed(o, p) THEN o
    ELSE IF isForeground
    THEN [order |-> <<p>> \o o.order, place |-> o.place + 1]
    ELSE [o EXCEPT !.order = InsertAt(@, o.place, p)]

(* The first process of the background inherits the place of home.         *)
Removed(o, p) ==
    IF ~Listed(o, p) THEN o
    ELSE LET i == Position(o, p)
         IN [order |-> RemoveAt(o.order, i),
             place |-> IF i < o.place /\ ~AtHome(o, i) THEN o.place - 1 ELSE o.place]

(* The process at home's place takes everything else to the background.    *)
Pushed(o, p) ==
    IF ~Listed(o, p) THEN o
    ELSE LET i == Position(o, p)
         IN [order |-> <<p>> \o RemoveAt(o.order, i),
             place |-> IF AtHome(o, i) THEN 2
                       ELSE IF i >= o.place THEN o.place + 1 ELSE o.place]

(* The last process, the first of the background and the one at home's     *)
(* place stay where they are.                                              *)
Hidden(o, p) ==
    IF ~Listed(o, p) THEN o
    ELSE LET i == Position(o, p)
             place == IF i < o.place THEN o.place - 1 ELSE o.place
         IN IF i \in {Len(o.order), o.place} \/ AtHome(o, i) THEN o
            ELSE [order |-> InsertAt(RemoveAt(o.order, i), place, p), place |-> place]

HiddenAll(o, gone) ==
    LET hidden[i \in 0..Len(gone)] ==
            IF i = 0 THEN o ELSE Hidden(hidden[i - 1], gone[i])
    IN hidden[Len(gone)]

Init == policy = Empty

(* The orders that follow o: p is started for a service, leaves the front, *)
(* ends, or is shown, possibly as a new process.                           *)
Follows(o, then, p) ==
    \/ then = Added(o, p, FALSE)
    \/ then = Hidden(o, p)
    \/ then = Removed(o, p)
    \/ \E gone \in Gone : then = Pushed(HiddenAll(Added(o, p, TRUE), gone), p)

Next == \E o \in {policy}, then \in {policy'} : \E p \in Pid : Follows(o, then, p)

Spec == Init /\ [][Next]_policy
=============================================================================

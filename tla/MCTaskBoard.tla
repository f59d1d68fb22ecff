---------------------------- MODULE MCTaskBoard ----------------------------
(* Instances of TaskBoard for TLC.                                         *)
EXTENDS TaskBoard

\* A limit below and one above the shortest check interval.
MCLimits == {1, 3}
=============================================================================

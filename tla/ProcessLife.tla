------------------------------ MODULE ProcessLife ------------------------------
(***************************************************************************)
(* What the service knows of the process ids, as AppInfoList keeps it      *)
(* (server/AppRecord.h, class AppInfoList): a process is launched, it      *)
(* attaches, it is asked to end at most once, and its end is noticed from  *)
(* wherever it was.  The handler that notices an end may launch a process, *)
(* which gets any id that is free by then.                                 *)
(***************************************************************************)
CONSTANT Pid

VARIABLE phase

Init == phase = [p \in Pid |-> "free"]

Becomes(p, to) == phase' = [phase EXCEPT ![p] = to]

Launch(p) == phase[p] = "free" /\ Becomes(p, "launching")
Attach(p) == phase[p] = "launching" /\ Becomes(p, "live")
Stop(p) == phase[p] = "live" /\ Becomes(p, "stopping")

Notice(p) ==
    /\ phase[p] # "free"
    /\ \/ Becomes(p, "free")
       \/ \E q \in Pid : /\ q = p \/ phase[q] = "free"
                        /\ phase' = [phase EXCEPT ![p] = "free", ![q] = "launching"]

Next == \E p \in Pid : Launch(p) \/ Attach(p) \/ Stop(p) \/ Notice(p)

Spec == Init /\ [][Next]_phase
=============================================================================

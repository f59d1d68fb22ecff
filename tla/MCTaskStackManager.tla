-------------------------- MODULE MCTaskStackManager --------------------------
(* Instances of the standard mode for TLC: a home screen, and an application *)
(* with an entry activity and a second one, which is stacked on the task of *)
(* its caller or has a task of its own.                                     *)
EXTENDS ActivityManagerService

MCName == {"desk", "main", "page"}
MCPackage == [desk |-> "home", main |-> "shop", page |-> "shop"]
MCAffinity == [desk |-> "home", main |-> "shop", page |-> "aside"]
MCMode == [desk |-> "SINGLE_TASK", main |-> "SINGLE_TASK", page |-> "STANDARD"]
MCTopMode == [MCMode EXCEPT !["page"] = "SINGLE_TOP"]
MCEntry == [home |-> "desk", shop |-> "main"]
=============================================================================

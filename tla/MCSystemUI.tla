------------------------------ MODULE MCSystemUI ------------------------------
(* Instances with a system UI for TLC: a home screen, and a package of the  *)
(* system UI with a bar and a panel, each on a task of its own.  Starting   *)
(* the home screen again is the start of an application that hides them.    *)
EXTENDS ActivityManagerService

MCName == {"desk", "bar", "panel"}
MCPackage == [desk |-> "home", bar |-> "ui", panel |-> "ui"]
MCAffinity == [desk |-> "home", bar |-> "ui", panel |-> "aside"]
MCMode == [desk |-> "SINGLE_TASK", bar |-> "SINGLE_TASK", panel |-> "STANDARD"]
MCEntry == [home |-> "desk", ui |-> "bar"]
=============================================================================

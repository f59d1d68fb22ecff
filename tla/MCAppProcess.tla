---------------------------- MODULE MCAppProcess ----------------------------
(* Instances of AppProcess for TLC.                                        *)
EXTENDS AppProcess

\* A player with a service, which the boot broadcast starts; then home.
MCBoot == <<[name |-> "player", kind |-> "SERVICE"], [name |-> "home", kind |-> "ACTIVITY"]>>

\* The home screen has a service of its own, started at boot.
MCBootHome == <<[name |-> "home", kind |-> "SERVICE"], [name |-> "home", kind |-> "ACTIVITY"]>>
=============================================================================

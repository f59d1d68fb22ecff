--------------------------- MODULE ActivityCallbacks ---------------------------
(***************************************************************************)
(* What the author of an activity (include/app/Activity.h) may rely on: in *)
(* which order onCreate() ... onDestroy() are called.  `last' is the       *)
(* status the last callback left the activity in.                          *)
(***************************************************************************)
EXTENDS ActivityStatus

VARIABLE last

Follows ==
    {<<INIT, CREATED>>,
     <<CREATED, STARTED>>, <<CREATED, STOPPED>>, <<CREATED, DESTROYED>>,
     <<STARTED, RESUMED>>, <<STARTED, PAUSED>>, <<STARTED, STOPPED>>,
     <<RESUMED, PAUSED>>,
     <<PAUSED, RESUMED>>, <<PAUSED, STOPPED>>,
     <<STOPPED, STARTED>>, <<STOPPED, DESTROYED>>}

Init == last = INIT

Callback == last' \in {s \in Reports : <<last, s>> \in Follows}

\* onCreate() is not reached: the window cannot be attached.
Fail == last \in {INIT, ERROR} /\ last' = ERROR

\* A record whose creation failed can be created again.
Retry == last = ERROR /\ last' = CREATED

\* The process ends: what is left of the activity is destroyed at once.
Teardown == last \in Reports /\ last' = DESTROYED

Next == Callback \/ Fail \/ Retry \/ Teardown

Spec == Init /\ [][Next]_last
=============================================================================

---------------------------- MODULE ActivityStatus ----------------------------
(***************************************************************************)
(* The status of an activity and the steps between two of them             *)
(* (server/ActivityRecord.h, enum Status; ActivityRecord.cpp,              *)
(* lifecycleTransition() and the six steps it chooses from).  The client   *)
(* side (app/ActivityClientRecord.h) uses the same numbers.                *)
(***************************************************************************)
EXTENDS Integers

ERROR      == -1
INIT       == 0
CREATING   == 1
CREATED    == 2
STARTING   == 3
STARTED    == 4
RESUMING   == 5
RESUMED    == 6
PAUSING    == 7
PAUSED     == 8
STOPPING   == 9
STOPPED    == 10
DESTROYING == 11
DESTROYED  == 12

Status == INIT..DESTROYED
Reports == {CREATED, STARTED, RESUMED, PAUSED, STOPPED, DESTROYED}

(* "creating, starting, resuming, **ing": the server waits for a report.    *)
Busy(status) == status > 0 /\ status % 2 = 1

Steps == {"CREATE", "START", "RESUME", "PAUSE", "STOP", "DESTROY"}

(* Rows: the current status; columns: the requested one.                    *)
lifeCycleTable == <<
  \* none    create    start     resume    pause     stop      destroy
  <<"NONE", "CREATE", "CREATE", "CREATE", "CREATE", "CREATE", "NONE">>,
  <<"NONE", "NONE",   "START",  "START",  "START",  "STOP",   "DESTROY">>,
  <<"NONE", "NONE",   "NONE",   "RESUME", "PAUSE",  "STOP",   "STOP">>,
  <<"NONE", "NONE",   "START",  "NONE",   "PAUSE",  "PAUSE",  "PAUSE">>,
  <<"NONE", "NONE",   "START",  "RESUME", "NONE",   "STOP",   "STOP">>,
  <<"NONE", "NONE",   "START",  "START",  "NONE",   "NONE",   "DESTROY">>,
  <<"NONE", "NONE",   "NONE",   "NONE",   "NONE",   "NONE",   "NONE">> >>

\* (Faulty: a stopped activity is resumed without being started.)
TurnToDirect(status, toStatus) ==
    IF status = STOPPED /\ toStatus = RESUMED THEN "RESUME"
    ELSE lifeCycleTable[((status + 1) \div 2) + 1][((toStatus + 1) \div 2) + 1]

TurnTo(status, toStatus) ==
    lifeCycleTable[((status + 1) \div 2) + 1][((toStatus + 1) \div 2) + 1]

(* The statuses in which create() ... destroy() do anything.                *)
Allows(step, status) ==
    CASE step = "CREATE"  -> status = INIT
      [] step = "START"   -> status > CREATING /\ status < DESTROYED
      [] step = "RESUME"  -> status >= STARTING /\ status <= STOPPED
      [] step = "PAUSE"   -> status > STARTING /\ status < PAUSING
      [] step = "STOP"    -> status > CREATING /\ status < STOPPING
      [] step = "DESTROY" -> status > CREATING /\ status < DESTROYING

(* The status a step leaves behind while its report is awaited, and the     *)
(* status the client reports when it is done.                               *)
Doing(step) ==
    CASE step = "CREATE"  -> CREATING
      [] step = "START"   -> STARTING
      [] step = "RESUME"  -> RESUMING
      [] step = "PAUSE"   -> PAUSING
      [] step = "STOP"    -> STOPPING
      [] step = "DESTROY" -> DESTROYING

Done(step) == Doing(step) + 1
=============================================================================

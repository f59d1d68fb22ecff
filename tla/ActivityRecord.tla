---------------------------- MODULE ActivityRecord ----------------------------
(***************************************************************************)
(* One activity, on both sides of the binder: the server's ActivityRecord  *)
(* with the ActivityLifeCycleTasks that wait for its reports               *)
(* (server/ActivityRecord.cpp, ActivityManagerService.cpp), and the        *)
(* ActivityClientRecord in the application's process (app/).               *)
(*                                                                         *)
(* The server's commands are oneway binder calls: they wait in `sent', in  *)
(* order, until the client's single loop takes them.  A report is a        *)
(* synchronous call: the server handles it before the client goes on, so   *)
(* a callback, its report and the server's answer are one action.  The     *)
(* task managers drive the record: their calls of lifecycleTransition()    *)
(* are the action Request, for every status at every time, and the one     *)
(* place that overwrites the status, turnToActivity(), is TurnToActivity.  *)
(*                                                                         *)
(* What a transition does to other activities, through ActivityWaitResume, *)
(* is in TaskStackManager.  Intents and windows are left out.              *)
(***************************************************************************)
EXTENDS ActivityStatus, Sequences

CONSTANTS
    TurnWhileBusy,  \* whether turnToActivity() may meet a busy top activity
    MaxRequests     \* bound: calls of the task managers in a behaviour

ASSUME TurnAssumption == TurnWhileBusy \in BOOLEAN
ASSUME RequestsAssumption == MaxRequests \in Nat

VARIABLES
    record,         \* the server's side
    client,         \* the client's side
    requests        \* calls of the task managers so far

vars == <<record, client, requests>>

Commands == Steps \cup {"TERMINATE"}

\* What the task managers ask for; a new record has asked for nothing.
Targets == {INIT, RESUMED, PAUSED, STOPPED, DESTROYED}

RecordType ==
    [mStatus : -1..DESTROYED,        \* as the server believes
     mTargetStatus : Targets,
     mIsError : BOOLEAN,
     tasks : Nat,                    \* its ActivityLifeCycleTasks not yet done
     onStack : BOOLEAN,              \* in an ActivityStack
     mapped : BOOLEAN,               \* in mActivityMap
     exists : BOOLEAN,               \* in its AppRecord's mExistActivity
     app : {"RUNNING", "STOPPING", "STOPPED"},
     sent : Seq(Commands)]           \* oneway calls on their way to the client

ClientType ==
    [alive : BOOLEAN,                \* the process
     known : BOOLEAN,                \* in Application::mExistActivities
     mStatus : -1..DESTROYED,        \* what it last reported
     terminating : BOOLEAN]          \* terminateApplication()'s 300 ms run

TypeOK ==
    /\ record \in RecordType
    /\ client \in ClientType
    /\ requests \in 0..MaxRequests

NewRecord ==
    [mStatus |-> INIT, mTargetStatus |-> INIT, mIsError |-> FALSE, tasks |-> 0,
     onStack |-> FALSE, mapped |-> FALSE, exists |-> FALSE, app |-> "RUNNING",
     sent |-> <<>>]

Init ==
    /\ record = NewRecord
    /\ client = [alive |-> TRUE, known |-> FALSE, mStatus |-> INIT, terminating |-> FALSE]
    /\ requests = 0

-----------------------------------------------------------------------------
(* The server's methods, as operators on the record.                        *)

\* create() ... destroy(): nothing is sent to an application that is gone.
Schedule(r, step) ==
    IF Allows(step, r.mStatus)
    THEN [r EXCEPT !.mStatus = Doing(step),
                   !.sent = IF r.app # "STOPPED" THEN Append(@, step) ELSE @,
                   !.exists = @ \/ (step = "CREATE" /\ r.app # "STOPPED")]
    ELSE r

TransitionUnwatched(r, toStatus) ==
    LET step == IF Busy(r.mStatus) THEN "NONE" ELSE TurnTo(r.mStatus, toStatus)
    IN [(IF step = "NONE" THEN r ELSE Schedule(r, step)) EXCEPT !.mTargetStatus = toStatus]

LifecycleTransition(r, toStatus) ==
    IF Busy(r.mStatus)
    THEN [r EXCEPT !.mTargetStatus = toStatus]
    ELSE LET step == TurnTo(r.mStatus, toStatus)
         IN IF step = "NONE"
            THEN r
            ELSE [Schedule(r, step) EXCEPT !.mTargetStatus = toStatus, !.tasks = @ + 1]

\* AppRecord::stopApplication()
StopApplication(r) ==
    IF r.app = "RUNNING"
    THEN [r EXCEPT !.app = "STOPPING", !.sent = Append(@, "TERMINATE")]
    ELSE r

AbnormalExit(r) ==
    IF r.app = "STOPPED"
    THEN [r EXCEPT !.mStatus = DESTROYED]
    ELSE StopApplication([r EXCEPT !.mStatus = DESTROYED, !.exists = FALSE])

\* ITaskManager::deleteActivity(), as far as this activity goes.
DeleteActivity(r) ==
    IF r.onStack
    THEN [LifecycleTransition(r, DESTROYED) EXCEPT !.onStack = FALSE]
    ELSE r

\* (Faulty: the target is taken for reached; the report becomes the
\* target; the transition does not go on.)
ExecuteSkips(r, status) == LifecycleTransition([r EXCEPT !.mStatus = r.mTargetStatus], r.mTargetStatus)

ExecuteStops(r, status) == [r EXCEPT !.mStatus = status]

\* ActivityLifeCycleTask::execute()
ExecuteTask(r, status) ==
    IF status = ERROR
    THEN DeleteActivity([r EXCEPT !.mIsError = TRUE, !.mStatus = @ - 1])
    ELSE LifecycleTransition([r EXCEPT !.mStatus = status], r.mTargetStatus)

\* ActivityLifeCycleTask::timeout()
TimeoutTask(r) ==
    IF r.mStatus = r.mTargetStatus THEN r ELSE DeleteActivity(AbnormalExit(r))

\* (Faulty: the task goes on waiting; a report needs no task that waits.)
TriggerKeepsTask(r, status) == IF r.tasks > 0 THEN ExecuteTask(r, status) ELSE r

TriggerAlways(r, status) == ExecuteTask([r EXCEPT !.tasks = 0], status)

\* eventTrigger() with the report's event: the first task that waits.
TriggerReport(r, status) ==
    IF r.tasks > 0 THEN ExecuteTask([r EXCEPT !.tasks = @ - 1], status) ELSE r

\* What a report of DESTROYED does besides; `alone': the application has no
\* other activity or service.
Destroyed(r, alone) ==
    LET dead == [r EXCEPT !.mStatus = DESTROYED]
        gone == IF r.app = "STOPPED" THEN dead
                ELSE [DeleteActivity(dead) EXCEPT !.exists = FALSE]
    IN [(IF alone /\ r.app # "STOPPED" THEN StopApplication(gone) ELSE gone)
            EXCEPT !.mapped = FALSE]

ReportActivityStatus(r, status, alone) ==
    IF ~r.mapped
    THEN r
    ELSE LET triggered == TriggerReport(r, status)
         IN IF status = DESTROYED THEN Destroyed(triggered, alone) ELSE triggered

\* procAppTerminated() and deleteAppInfo()
ProcAppTerminated(r) ==
    LET stopped == [r EXCEPT !.app = "STOPPED", !.sent = <<>>]
    IN IF r.exists
       THEN [DeleteActivity(AbnormalExit(stopped)) EXCEPT !.exists = FALSE, !.mapped = FALSE]
       ELSE stopped

-----------------------------------------------------------------------------
(* The task managers.                                                       *)

Counted == requests < MaxRequests /\ requests' = requests + 1

\* startActivityReal(): the new record enters its stack and the map.
PushNewActivity ==
    /\ record = NewRecord
    /\ record' = [LifecycleTransition(record, RESUMED) EXCEPT !.onStack = TRUE, !.mapped = TRUE]
    /\ UNCHANGED <<client, requests>>

Request(toStatus) ==
    /\ record.mapped \/ record.mStatus = DESTROYED
    /\ Counted
    /\ record' = LifecycleTransition(record, toStatus)
    /\ UNCHANGED client

\* finishActivity(), FLAG_ACTIVITY_CLEAR_TASK and _CLEAR_TOP take it off its
\* stack with the transition they ask for.
Pop(toStatus) ==
    /\ record.onStack
    /\ Counted
    /\ record' = [LifecycleTransition(record, toStatus) EXCEPT !.onStack = FALSE]
    /\ UNCHANGED client

\* turnToActivity() on the activity that is already on top: "fake pause".
TurnToActivity ==
    /\ record.onStack
    /\ TurnWhileBusy \/ record.mStatus \in {RESUMED, PAUSED}
    /\ Counted
    /\ record' = LifecycleTransition([record EXCEPT !.mStatus = PAUSED], RESUMED)
    /\ UNCHANGED client

\* stopActivity() or stopApplication() for the whole application.
StopApp ==
    /\ record.app = "RUNNING"
    /\ record' = StopApplication(record)
    /\ UNCHANGED <<client, requests>>

LifecycleTimeout ==
    /\ record.tasks > 0
    /\ record' = TimeoutTask([record EXCEPT !.tasks = @ - 1])
    /\ UNCHANGED <<client, requests>>

-----------------------------------------------------------------------------
(* The client.                                                              *)

Received == [record EXCEPT !.sent = Tail(@)]

\* onLaunchActivity(): the activity is created, its window cannot be attached
\* (ERROR is reported), or its class is not registered (nothing is reported).
Launch(status) ==
    /\ client' = [client EXCEPT !.mStatus = status, !.known = @ \/ status = CREATED]
    /\ record' = ReportActivityStatus(Received, status, FALSE)

LaunchUnregistered ==
    /\ record' = Received
    /\ UNCHANGED client

\* onStartActivity() ... onDestroyActivity()
Perform(step, alone) ==
    IF client.known
    THEN /\ client' = [client EXCEPT !.mStatus = Done(step), !.known = step # "DESTROY"]
         /\ record' = ReportActivityStatus(Received, Done(step), alone)
    ELSE /\ record' = Received
         /\ UNCHANGED client

Deliver ==
    /\ client.alive
    /\ record.sent # <<>>
    /\ LET command == Head(record.sent)
       IN \/ /\ command = "CREATE"
             /\ Launch(CREATED) \/ Launch(ERROR) \/ LaunchUnregistered
          \/ /\ command \in Steps \ {"CREATE"}
             /\ \E alone \in BOOLEAN : Perform(command, alone)
          \/ /\ command = "TERMINATE"
             /\ client' = [client EXCEPT !.terminating = TRUE]
             /\ record' = Received
    /\ UNCHANGED requests

\* clearActivityAndService(): the last two callbacks, then the loop stops.
ClearActivity ==
    LET visible == client.mStatus \in STARTED..PAUSED
        stopped == IF visible THEN ReportActivityStatus(record, STOPPED, FALSE) ELSE record
    IN IF client.known /\ client.mStatus < DESTROYING
       THEN /\ record' = ReportActivityStatus(stopped, DESTROYED, TRUE)
            /\ client' = [client EXCEPT !.known = FALSE, !.mStatus = DESTROYED, !.alive = FALSE]
       ELSE /\ client' = [client EXCEPT !.alive = FALSE]
            /\ UNCHANGED record

TerminateDelayEnds ==
    /\ client.alive
    /\ client.terminating
    /\ ClearActivity
    /\ UNCHANGED requests

\* The process dies on its own.
Crash ==
    /\ client.alive
    /\ client' = [client EXCEPT !.alive = FALSE]
    /\ UNCHANGED <<record, requests>>

\* SIGCHLD reaches the server's loop.
AppTerminated ==
    /\ ~client.alive
    /\ record.app # "STOPPED"
    /\ record' = ProcAppTerminated(record)
    /\ UNCHANGED <<client, requests>>

Next ==
    \/ PushNewActivity
    \/ \E to \in Targets \ {INIT} : Request(to)
    \/ \E to \in {PAUSED, DESTROYED} : Pop(to)
    \/ TurnToActivity
    \/ StopApp
    \/ LifecycleTimeout
    \/ Deliver
    \/ TerminateDelayEnds
    \/ Crash
    \/ AppTerminated

Spec == Init /\ [][Next]_vars

(* The task board calls timeout() in the end (TaskBoard, EveryTaskSettles), *)
(* a live client serves its binder and its timer, and SIGCHLD is delivered. *)
Fairness ==
    /\ WF_vars(LifecycleTimeout)
    /\ WF_vars(Deliver)
    /\ WF_vars(TerminateDelayEnds)
    /\ WF_vars(AppTerminated)

FairSpec == Spec /\ Fairness
-----------------------------------------------------------------------------
(* Exactly one lifecycle task waits while a report is awaited, and none     *)
(* while a living activity is at rest: no step can be lost without a        *)
(* timeout, and no stale task can kill the application later.               *)
OneWatchdog ==
    /\ record.tasks <= 1
    /\ Busy(record.mStatus) => record.tasks = 1
    /\ ~Busy(record.mStatus) /\ record.mStatus # DESTROYED => record.tasks = 0

(* An activity only rests where lifecycleTransition() has nothing left to   *)
(* do for the status last asked of it (unless its creation failed).         *)
RestMeansDone ==
    ~Busy(record.mStatus) /\ ~record.mIsError =>
        TurnTo(record.mStatus, record.mTargetStatus) = "NONE"

(* At rest the server's status is what the client is really in.             *)
RestAgrees ==
    /\ client.alive /\ client.known
    /\ ~Busy(record.mStatus) /\ record.mStatus # DESTROYED
    => client.mStatus = record.mStatus

(* A destroyed record is never revived by a late report or a late request.  *)
DestroyedIsFinal == [][record.mStatus = DESTROYED => record'.mStatus = DESTROYED]_vars

(* The client's callbacks come in the order an activity may rely on.        *)
Callbacks == INSTANCE ActivityCallbacks WITH last <- client.mStatus
CallbackOrder == Callbacks!Spec

(* Once the task managers stop asking, every step ends: in its report, its  *)
(* timeout or the end of the process.                                       *)
Converges == <>[](~Busy(record.mStatus))
=============================================================================

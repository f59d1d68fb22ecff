------------------------ MODULE ActivityManagerService ------------------------
(***************************************************************************)
(* The activity requests of ActivityManagerService.cpp with both task      *)
(* managers, the reports of the applications, the pending tasks of the     *)
(* TaskBoard and the end of processes.  It puts many ActivityRecords       *)
(* together: ActivityRecord is one of them, alone, with its client in      *)
(* detail.                                                                 *)
(***************************************************************************)
EXTENDS TaskStackManager, SystemUIManager

CONSTANTS
    Mode,           \* function: the launchMode of an activity
    Entry,          \* function: the entry activity of a package
    Home,           \* the package that answers ACTION_HOME
    Prompt,         \* clients answer before anything times out
    Reliable,       \* no process dies or is stopped, and every launch succeeds
    FinishOnce,     \* only activities on a stack are asked to finish
    HomeStays,      \* the home screen is started first, and never ended in the background
    UiNewTask,      \* the system UI is only started in new tasks
    PostHome,       \* intents are posted to the home task
    MaxRequests     \* bound

ASSUME NameAssumption == \A p \in DOMAIN Entry : Entry[p] \in Name /\ Package[Entry[p]] = p
ASSUME HomeAssumption == Home \in DOMAIN Entry \ SystemUI
ASSUME EnvironmentAssumption == {Prompt, Reliable, FinishOnce, HomeStays, UiNewTask, PostHome}
                               \subseteq BOOLEAN
ASSUME RequestsAssumption == MaxRequests \in Nat

VARIABLES
    am,             \* the server: a heap of ActivityHeap
    requests        \* requests so far

vars == <<am, requests>>

Init == am = NoObjects /\ requests = 0

TypeOK == am \in HeapType /\ requests \in 0..MaxRequests

-----------------------------------------------------------------------------
(* getTaskManager(): the one or the other.                                  *)

ActiveOf(w, isSystemUI) == IF isSystemUI THEN UiActive(w) ELSE Active(w)

Find(w, isSystemUI, tag) == IF isSystemUI THEN UiFindTask(w, tag) ELSE FindTask(w, tag)

Push(w, t, x, clearTask) ==
    IF IsSystemUI(w, x) THEN UiPushNewActivity(w, t, x) ELSE PushNewActivity(w, t, x, clearTask)

Delete(w, x) == IF IsSystemUI(w, x) THEN UiDeleteActivity(w, x) ELSE DeleteActivity(w, x)

MoveToBackground(w, isSystemUI, t) ==
    IF isSystemUI THEN UiMoveTaskToBackground(w, t) ELSE MoveTaskToBackground(w, t)

-----------------------------------------------------------------------------
(* What the tasks and the reports do.                                       *)
\* (Faulty: the transition does not go on behind its first step.)
ExecuteStops(w, x, status) == [w EXCEPT !.act[x].mStatus = status]

\* ActivityLifeCycleTask::execute()
ExecuteTask(w, x, status) ==
    IF status = ERROR
    THEN Delete([w EXCEPT !.act[x].mIsError = TRUE, !.act[x].mStatus = @ - 1], x)
    ELSE LifecycleTransition([w EXCEPT !.act[x].mStatus = status], x, w.act[x].mTargetStatus)

TriggerReport(w, x, status) ==
    LET i == Waiting(w, "LIFECYCLE", x)
    IN IF i = 0 THEN w ELSE ExecuteTask(Taken(w, i), x, status)

\* removeTask() with ActivityWaitResume::Event
Unwatched(w, x) ==
    LET rest(kept, e) == IF e.kind = "WAIT_RESUME" /\ e.of = x THEN kept ELSE Append(kept, e)
    IN [w EXCEPT !.pend = FoldLeft(rest, <<>>, @)]

ReportDestroyed(w, x) ==
    LET p == w.act[x].mApp
        dead == [w EXCEPT !.act[x].mStatus = DESTROYED]
        unwatched == IF IsSystemUI(w, x) THEN dead ELSE Unwatched(dead, x)
        stopped(v) == IF v.proc[p].mExistActivity = <<>> THEN StopApplication(v, p) ELSE v
        ended == IF Freed(w, x) THEN dead ELSE stopped(Forget(Delete(unwatched, x), x))
    IN [ended EXCEPT !.act[x].mapped = FALSE]

ReportActivityStatus(w, x, status) ==
    LET answered(v) ==
            IF status = RESUMED /\ ~Freed(w, x) /\ ~IsSystemUI(w, x)
            THEN TriggerDelayDestroy(TriggerWaitResume(v, x), x)
            ELSE IF status = DESTROYED THEN ReportDestroyed(v, x)
            ELSE v
    IN IF w.act[x].mapped THEN answered(TriggerReport(w, x, status)) ELSE w

\* The timeout() of a task, whatever its kind.
Timeout(w, e) ==
    CASE e.kind = "LIFECYCLE" ->
           IF w.act[e.of].mStatus = w.act[e.of].mTargetStatus THEN w
           ELSE Delete(AbnormalExit(w, e.of), e.of)
      [] e.kind = "WAIT_RESUME" -> LifecycleTransition(w, e.other, RESUMED)
      [] e.kind = "DELAY_DESTROY" -> LifecycleTransition(w, e.other, DESTROYED)

ProcAppTerminated(w, p) ==
    LET exist == w.proc[p].mExistActivity
        stopped == [w EXCEPT !.proc[p].mStatus = "STOPPED", !.proc[p].mExistActivity = <<>>,
                             !.proc[p].sent = <<>>, !.proc[p].terminating = FALSE]
        marked == FoldLeft(AbnormalExit, stopped, exist)
        erase(v, x) == [Delete(v, x) EXCEPT !.act[x].mapped = FALSE]
    IN FoldLeft(erase, marked, exist)

-----------------------------------------------------------------------------
(* Requests.                                                                *)

\* A new activity in the task t of `made': pushed at once, or by an AppAttachTask
\* when its process attaches.  A package whose process is about to attach is
\* refused, and what was made for the request is dropped.
LaunchActivity(w, made, n, t, clearTask) ==
    LET new == NewActivity(made, n, t)
        x == new.activities
        running == FindProc(w, Package[n], {"RUNNING"})
    IN IF running # 0
       THEN Push([new EXCEPT !.act[x].mApp = running], t, x, clearTask)
       ELSE IF FindProc(w, Package[n], {"ATTACHING"}) # 0 THEN w
       ELSE [Spawn(new, Package[n]) EXCEPT !.launch =
                 Append(@, [proc |-> w.procs + 1, activity |-> x, task |-> t, clear |-> clearTask])]

\* startActivityReal(): `anew' says that the flags or the caller ask for a new task.
StartActivityReal(w, n, anew, clearTask, clearTop) ==
    LET isEntry == n = Entry[Package[n]]
        isSystemUI == Package[n] \in SystemUI
        tag == IF isEntry THEN Package[n] ELSE Affinity[n]
        mode == IF isEntry /\ Mode[n] # "SINGLE_TASK" THEN "SINGLE_INSTANCE" ELSE Mode[n]
        newTask == anew \/ isEntry \/ mode = "SINGLE_INSTANCE"
        single == mode \in {"SINGLE_TASK", "SINGLE_INSTANCE"}
        found == IF newTask THEN Find(w, isSystemUI, tag) ELSE ActiveOf(w, isSystemUI)
        isNew == newTask /\ found = 0
        made == IF isNew THEN NewTask(w, tag) ELSE w
        t == IF isNew THEN made.tasks ELSE found
        among == IF mode = "SINGLE_TOP" THEN <<Top(w, t)>>
                 ELSE IF single THEN w.stack[t]
                 ELSE <<>>
        named == SelectInSeq(among, LAMBDA x : w.act[x].name = n)
    IN IF t = 0 \/ (mode = "SINGLE_TOP" /\ ~isNew /\ Top(w, t) = 0) THEN Undefined(w)
       ELSE IF isNew \/ named = 0 THEN LaunchActivity(w, made, n, t, clearTask)
       ELSE IF isSystemUI THEN UiTurnToActivity(w, among[named])
       ELSE TurnToActivity(w, t, among[named], clearTop \/ single)

\* The system UI makes room for an application.
Started(w, package) == IF package \in SystemUI THEN w ELSE UiOnStartActivity(w)

\* startActivity(), for a package: its task is switched to, or its entry started.
StartPackage(w, package, clearTask) ==
    LET isSystemUI == package \in SystemUI
        t == Find(w, isSystemUI, package)
        shown == IF t = 0 THEN StartActivityReal(w, Entry[package], TRUE, clearTask, FALSE)
                 ELSE IF isSystemUI THEN UiSwitchTaskToActive(w, t)
                 ELSE SwitchTaskToActive(w, t)
    IN Started(shown, package)

StartName(w, n, anew, clearTask, clearTop) ==
    Started(StartActivityReal(w, n, anew, clearTask, clearTop), Package[n])

StartHomeActivity(w) == IF Active(w) = 0 THEN StartPackage(w, Home, FALSE) ELSE w

\* A living client has the token of the activity.
Known(w, x) == w.act[x].client \in CREATED..STOPPED
Alive(p) == am.proc[p].mStatus \in {"RUNNING", "STOPPING"}
HasToken(x) == am.act[x].mapped /\ Known(am, x) /\ ~Freed(am, x)

\* checkActivity(): the first activity of its process with its name.
HasName(x) ==
    \E p \in Proc :
        LET exist == am.proc[p].mExistActivity
            named == SelectInSeq(exist, LAMBDA y : am.act[y].name = am.act[x].name)
        IN am.proc[p].mStatus = "RUNNING" /\ named # 0 /\ exist[named] = x

Counted == requests < MaxRequests /\ requests' = requests + 1

\* What the home screen does not do, and nobody does to it.
MayEnd(package) == HomeStays => package # Home

\* With x, its root, the home task ends, and it is not shown.  (Once the home screen's
\* process has died, the home task may be an application's.)
EndsHome(x) ==
    /\ TaskOf(am, x) = am.mHomeTask
    /\ Active(am) # am.mHomeTask
    /\ Place(am.stack[am.mHomeTask], x) = 1

Start ==
    /\ HasRoom(am)
    /\ HomeStays => am.mHomeTask # 0
    /\ Counted
    /\ \E clearTask \in BOOLEAN :
          \/ \E package \in DOMAIN Entry : am' = StartPackage(am, package, clearTask)
          \/ \E n \in Name, anew, clearTop \in BOOLEAN :
                /\ ~anew => /\ \E c \in Activity : HasToken(c)
                            /\ UiNewTask => Package[n] \notin SystemUI
                /\ am' = StartName(am, n, anew, clearTask, clearTop)

\* finishActivity() by token, stopActivity() by name.
Finish(x) ==
    /\ HasToken(x) \/ HasName(x)
    /\ MayEnd(Package[am.act[x].name])
    /\ HomeStays => ~EndsHome(x)
    /\ FinishOnce => \E t \in Task : Contains(am.stack[t], x)
    /\ Counted
    /\ am' = IF IsSystemUI(am, x) THEN UiFinishActivity(am, x) ELSE FinishActivity(am, x)

MoveActivityTaskToBackground(x) ==
    /\ HasToken(x)
    /\ TaskOf(am, x) # 0
    /\ Counted
    /\ am' = MoveToBackground(am, IsSystemUI(am, x), TaskOf(am, x))

\* stopActivity() of a package: its task is left first if it is active, and
\* nothing else is done if the intent is to move it back.
StopPackage(p) ==
    /\ am.proc[p].mStatus = "RUNNING"
    /\ MayEnd(am.proc[p].package)
    /\ Counted
    /\ LET isSystemUI == am.proc[p].package \in SystemUI
           active == ActiveOf(am, isSystemUI)
           left == IF active # 0 /\ am.tag[active] = am.proc[p].package
                   THEN MoveToBackground(am, isSystemUI, active) ELSE am
       IN \/ am' = left
          \/ ~Reliable /\ am' = StopApplication(left, p)

\* stopApplication() by one of its activities.
StopByToken(x) ==
    /\ HasToken(x)
    /\ ~Reliable
    /\ MayEnd(am.proc[am.act[x].mApp].package)
    /\ Counted
    /\ LET t == TaskOf(am, x)
           isSystemUI == IsSystemUI(am, x)
           left == IF t # 0 /\ t = ActiveOf(am, isSystemUI)
                   THEN MoveToBackground(am, isSystemUI, t) ELSE am
       IN am' = StopApplication(left, am.act[x].mApp)

\* findSystemTarget(): the process of a task's root is taken unchecked.
FindSystemTarget(w, target) ==
    LET t == CASE target = "TOP_RESUME" -> 0      \* getTopActivity(), which may be null
               [] target = "FOREGROUND" -> Active(w)
               [] target = "HOME" -> w.mHomeTask
    IN IF t = 0 THEN w
       ELSE IF w.stack[t] = <<>> \/ Freed(w, Head(w.stack[t])) THEN Undefined(w)
       ELSE w

\* postIntent() to a system target; the client's onReceiveIntent() changes nothing here.
PostIntent ==
    /\ \E target \in {"TOP_RESUME", "FOREGROUND"} \cup (IF PostHome THEN {"HOME"} ELSE {}) :
          am' = FindSystemTarget(am, target)
    /\ UNCHANGED requests

\* attachApplication() and the launch that waits for the process.
AppAttached(p) ==
    /\ am.proc[p].mStatus = "ATTACHING"
    /\ \E i \in DOMAIN am.launch :
          LET l == am.launch[i]
              attached == [am EXCEPT !.proc[p].mStatus = "RUNNING",
                                     !.launch = RemoveAt(@, i),
                                     !.act[l.activity].mApp = p]
          IN /\ l.proc = p
             /\ am' = Push(attached, l.task, l.activity, l.clear)
    /\ UNCHANGED requests

-----------------------------------------------------------------------------
(* The clients and the passing of time.                                     *)
Clients(p) == {x \in Activity : am.act[x].mApp = p /\ Known(am, x)}

\* A callback of the client and its report.
Perform(w, x, status) ==
    ReportActivityStatus([w EXCEPT !.act[x].client = status], x, status)

Deliver(p) ==
    /\ Alive(p)
    /\ am.proc[p].sent # <<>>
    /\ LET step == Head(am.proc[p].sent)[1]
           x == Head(am.proc[p].sent)[2]
           taken == [am EXCEPT !.proc[p].sent = Tail(@)]
       IN \/ /\ step \in Steps
             /\ am' = IF step = "CREATE" \/ Known(am, x) THEN Perform(taken, x, Done(step)) ELSE taken
          \/ /\ step = "CREATE"
             /\ ~Reliable
             /\ am' \in {ReportActivityStatus(taken, x, ERROR), taken}
          \/ /\ step = "TERMINATE"
             /\ am' = [taken EXCEPT !.proc[p].terminating = TRUE]
    /\ UNCHANGED requests

\* clearActivityAndService(), one activity.
Teardown(p) ==
    /\ Alive(p)
    /\ am.proc[p].terminating
    /\ \E x \in Clients(p) :
          LET left == IF am.act[x].client \in STARTED..PAUSED THEN <<STOPPED, DESTROYED>>
                      ELSE <<DESTROYED>>
          IN am' = FoldLeft(LAMBDA v, status : Perform(v, x, status), am, left)
    /\ UNCHANGED requests

\* The process ends: by itself, or when its teardown is over.  SIGCHLD.
AppTerminated(p) ==
    /\ \/ Alive(p)
       \/ am.proc[p].mStatus = "ATTACHING"
    /\ Reliable => am.proc[p].terminating /\ Clients(p) = {}
    /\ \E ended \in {IF Alive(p) THEN ProcAppTerminated(am, p)
                    ELSE [am EXCEPT !.proc[p].mStatus = "STOPPED"]} :
          /\ Active(ended) = 0 => HasRoom(ended)
          /\ am' = StartHomeActivity(ended)
    /\ UNCHANGED requests

\* Prompt clients have answered before anything times out.
PendTimeout ==
    /\ am.pend # <<>>
    /\ Prompt => \A p \in Proc : Alive(p) => am.proc[p].sent = <<>> /\ ~am.proc[p].terminating
    /\ am' = Timeout(Taken(am, 1), Head(am.pend))
    /\ UNCHANGED requests

\* systemReady()
Boot ==
    /\ am.procs = 0
    /\ am' = StartHomeActivity(am)
    /\ UNCHANGED requests

Next ==
    /\ ~am.undefined
    /\ \/ Boot
       \/ Start
       \/ \E x \in Activity : \/ Finish(x)
                              \/ MoveActivityTaskToBackground(x)
                              \/ StopByToken(x)
       \/ \E p \in Proc : \/ StopPackage(p)
                          \/ AppAttached(p)
                          \/ Deliver(p)
                          \/ Teardown(p)
                          \/ AppTerminated(p)
       \/ PendTimeout
       \/ PostIntent

Spec == Init /\ [][Next]_vars

\* Some step that is not a request can be taken.
Work ==
    \/ am.procs = 0
    \/ am.pend # <<>>
    \/ \E p \in Proc : \/ am.proc[p].mStatus = "ATTACHING"
                       \/ Alive(p) /\ (am.proc[p].sent # <<>> \/ am.proc[p].terminating)

(* Processes attach, their looper takes every call, and the board's timer   *)
(* fires: uv loops run until they are told to stop.  This is WF_vars of the *)
(* steps that are not requests, its ENABLED written out.                    *)
Fairness == []<>(~Work) \/ []<><<UNCHANGED requests>>_vars

FairSpec == Spec /\ Fairness
-----------------------------------------------------------------------------
OnStack(x) == \E t \in Task : Contains(am.stack[t], x)
Astray(x) == OnStack(x) /\ am.act[x].mTargetStatus = RESUMED /\ x # Top(am, Active(am))
OnActive(x) == Active(am) # 0 /\ Contains(am.stack[Active(am)], x)

(* The handlers never meet a null top activity, task or application, and    *)
(* never pop an empty stack.                                                *)
NeverUndefined == ~am.undefined

(* A listed task has an activity, is listed once, and an activity is on one *)
(* stack, once: what every getTopActivity()-> relies on.                    *)
StacksAreSound ==
    /\ TypeOK
    /\ \A i \in DOMAIN am.mAllTasks : am.stack[am.mAllTasks[i]] # <<>>
    /\ IsInjective(am.mAllTasks)
    /\ \A t \in Task : /\ IsInjective(am.stack[t])
                       /\ \A i \in DOMAIN am.stack[t] : am.act[am.stack[t][i]].mInTask = t

(* Whatever is on a stack belongs to a process that has not ended.          *)
StackedAreAlive ==
    \A x \in Activity : OnStack(x) => ~Freed(am, x)

(* Only the top of the active task is asked to be resumed.                  *)
OneResumed ==
    \A x \in Activity : ~Astray(x)

(* ... except in a step taken while the first of the pending tasks is an    *)
(* ActivityWaitResume that was to stop it: the timeout of that task resumes *)
(* the activity wherever it is by then.                                     *)
OnlyTimeoutsStray ==
    [][\A x \in Activity : Astray(x)' /\ ~Astray(x) =>
          /\ am.pend # <<>>
          /\ Head(am.pend).kind = "WAIT_RESUME"
          /\ Head(am.pend).other = x]_vars

(* When the requests end, the top of the active task comes to be resumed and *)
(* stays so: no timeout, no late answer and no wait forgotten takes it away. *)
TopIsShown ==
    <>[](Active(am) # 0 /\ am.act[Top(am, Active(am))].mStatus = RESUMED)

(* What has left its stack is destroyed by its client in the end.           *)
LeftIsDestroyed ==
    \A x \in Activity :
        am.act[x].mApp # 0 /\ ~OnStack(x) ~> am.act[x].client = DESTROYED

(* A process's foreground count is the number of its activities in the      *)
(* active task.                                                             *)
ForegroundIsCounted ==
    \A p \in Proc : Alive(p) =>
        am.proc[p].mForegroundActivityCnt =
            Cardinality({x \in Activity : am.act[x].mApp = p /\ OnActive(x)})

(* A task leaves the list only when its last activity has left its stack.   *)
TasksAreKept ==
    [][\A t \in Task : Contains(am.mAllTasks, t) /\ ~Contains(am'.mAllTasks, t)
                            => am'.stack[t] = <<>>]_vars

-----------------------------------------------------------------------------
UiActivity == {x \in 1..am.activities : IsSystemUI(am, x)}
UiShown(x) == am.act[x].client = RESUMED /\ am.proc[am.act[x].mApp].mStatus = "RUNNING"

(* A shown activity of the system UI is on a task of the manager's list: the *)
(* start of an application, which goes through the list, will hide it.       *)
UiIsListed ==
    \A x \in UiActivity : UiShown(x) =>
        \E i \in DOMAIN am.mSystemUITasks : Contains(am.stack[am.mSystemUITasks[i]], x)

(* The process of an activity that is shown is in the foreground, for its    *)
(* client and for the priorities.                                           *)
ForegroundIsShown ==
    \A x \in UiActivity : UiShown(x) /\ am.act[x].mTargetStatus = RESUMED
        => am.proc[am.act[x].mApp].foreground
=============================================================================

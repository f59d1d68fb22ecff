----------------------------- MODULE ActivityHeap -----------------------------
(***************************************************************************)
(* The server's objects: the ActivityRecords, the ActivityStacks (tasks)   *)
(* and the AppRecords with the calls on their way to the clients, and the  *)
(* pending tasks of the TaskBoard.  Both task managers and                 *)
(* ActivityManagerService work on them.                                    *)
(*                                                                         *)
(* The heap is one record; the methods are operators from heap to heap, so *)
(* that a handler is the composition of the calls it makes.  Activities,   *)
(* tasks and processes are numbered as they are made; 0 is the null        *)
(* pointer.  Dereferencing it, and popping an empty stack, are undefined:  *)
(* `undefined' is set and the system stops.                                *)
(*                                                                         *)
(* All pending tasks have the same time limit, so they expire in the order *)
(* of their commits (TaskBoard): `pend' is the list of those not done.     *)
(***************************************************************************)
EXTENDS ActivityStatus, SequencesExt

CONSTANTS
    Name,           \* the activities in the manifests
    Package,        \* function: the package of an activity
    Affinity,       \* function: its taskAffinity
    SystemUI,       \* the packages of the system UI
    MaxActivities, MaxTasks, MaxProcs       \* bounds

ASSUME BoundsAssumption == {MaxActivities, MaxTasks, MaxProcs} \subseteq Nat \ {0}

Activity == 1..MaxActivities
Task == 1..MaxTasks
Proc == 1..MaxProcs

NoActivity ==
    [name |-> "none", mStatus |-> INIT, mTargetStatus |-> INIT, mIsError |-> FALSE,
     mInTask |-> 0, mApp |-> 0, mapped |-> FALSE,
     client |-> INIT]       \* what its client last reported

NoProc ==
    [package |-> "none", mStatus |-> "NONE",
     mExistActivity |-> <<>>, mForegroundActivityCnt |-> 0,
     foreground |-> FALSE,  \* what the count has told the client and the priorities
     sent |-> <<>>,         \* oneway calls on their way to the client
     terminating |-> FALSE] \* the client runs terminateApplication()

\* The server when it starts.
NoObjects ==
    [act |-> [x \in Activity |-> NoActivity], activities |-> 0,
     stack |-> [t \in Task |-> <<>>], tag |-> [t \in Task |-> "none"], tasks |-> 0,
     proc |-> [p \in Proc |-> NoProc], procs |-> 0,
     mAllTasks |-> <<>>, mHomeTask |-> 0, mSystemUITasks |-> <<>>,
     pend |-> <<>>, launch |-> <<>>, undefined |-> FALSE]

Packages == {Package[n] : n \in Name}

\* A task's tag: the package or the taskAffinity of its first activity.
Tags == Packages \cup {Affinity[n] : n \in Name} \cup {"none"}

ActivityType ==
    [name : Name \cup {"none"}, mStatus : -1..DESTROYED, mTargetStatus : Status,
     mIsError : BOOLEAN, mInTask : 0..MaxTasks, mApp : 0..MaxProcs, mapped : BOOLEAN,
     client : Reports \cup {INIT}]

Calls == (Steps \X Activity) \cup {<<"TERMINATE", 0>>}

ProcType ==
    [package : Packages \cup {"none"},
     mStatus : {"NONE", "ATTACHING", "RUNNING", "STOPPING", "STOPPED"},
     mExistActivity : Seq(Activity), mForegroundActivityCnt : Int, foreground : BOOLEAN,
     sent : Seq(Calls), terminating : BOOLEAN]

PendType ==
    [kind : {"LIFECYCLE", "WAIT_RESUME", "DELAY_DESTROY"}, of : Activity, other : 0..MaxActivities]

LaunchType == [proc : Proc, activity : Activity, task : Task, clear : BOOLEAN]

HeapType ==
    [act : [Activity -> ActivityType], activities : 0..MaxActivities,
     stack : [Task -> Seq(Activity)], tag : [Task -> Tags], tasks : 0..MaxTasks,
     proc : [Proc -> ProcType], procs : 0..MaxProcs,
     mAllTasks : Seq(Task), mHomeTask : 0..MaxTasks, mSystemUITasks : Seq(Task),
     pend : Seq(PendType), launch : Seq(LaunchType), undefined : BOOLEAN]

\* The mIsSystemUI of an activity's package.
IsSystemUI(w, x) == Package[w.act[x].name] \in SystemUI

Undefined(w) == [w EXCEPT !.undefined = TRUE]

-----------------------------------------------------------------------------
(* ActivityRecord and AppRecord.                                            *)

\* The AppRecord behind the activity's weak pointer, once it is deleted.
Freed(w, x) == w.act[x].mApp = 0 \/ w.proc[w.act[x].mApp].mStatus = "STOPPED"

Send(w, p, call) == [w EXCEPT !.proc[p].sent = Append(@, call)]

Schedule(w, x, step) ==
    LET doing == [w EXCEPT !.act[x].mStatus = Doing(step)]
        p == w.act[x].mApp
        added == IF step = "CREATE"
                 THEN [doing EXCEPT !.proc[p].mExistActivity = Append(@, x)] ELSE doing
    IN IF ~Allows(step, w.act[x].mStatus) THEN w
       ELSE IF Freed(w, x) THEN doing
       ELSE Send(added, p, <<step, x>>)

Commit(w, kind, x, y) == [w EXCEPT !.pend = Append(@, [kind |-> kind, of |-> x, other |-> y])]

\* (Faulty: what is asked of a busy activity is dropped.)
TurnUnlessBusy(w, x, toStatus) ==
    LET step == IF Busy(w.act[x].mStatus) THEN "NONE" ELSE TurnTo(w.act[x].mStatus, toStatus)
    IN IF step = "NONE" THEN w
       ELSE Commit([Schedule(w, x, step) EXCEPT !.act[x].mTargetStatus = toStatus],
                   "LIFECYCLE", x, 0)

\* lifecycleTransition() behind its eventTrigger().
Turn(w, x, toStatus) ==
    LET step == TurnTo(w.act[x].mStatus, toStatus)
    IN IF Busy(w.act[x].mStatus) THEN [w EXCEPT !.act[x].mTargetStatus = toStatus]
       ELSE IF step = "NONE" THEN w
       ELSE Commit([Schedule(w, x, step) EXCEPT !.act[x].mTargetStatus = toStatus],
                   "LIFECYCLE", x, 0)

\* The first pending task of a kind that waits for x, or 0.
Waiting(w, kind, x) == SelectInSeq(w.pend, LAMBDA e : e.kind = kind /\ e.of = x)

Taken(w, i) == [w EXCEPT !.pend = RemoveAt(@, i)]

\* eventTrigger() with ActivityWaitResume::Event.  Its activity is asked for
\* PAUSED, so the transition it makes triggers no other.
TriggerWaitResume(w, x) ==
    LET i == Waiting(w, "WAIT_RESUME", x)
        y == w.pend[i].other
    IN IF i = 0 THEN w
       ELSE IF w.act[y].mTargetStatus = PAUSED THEN Turn(Taken(w, i), y, STOPPED)
       ELSE Taken(w, i)

LifecycleTransition(w, x, toStatus) ==
    IF x = 0 THEN Undefined(w)
    ELSE LET r == w.act[x]
             cannotResume == r.mTargetStatus = RESUMED /\ toStatus > RESUMED /\ r.mStatus < RESUMING
         IN Turn(IF cannotResume THEN TriggerWaitResume(w, x) ELSE w, x, toStatus)

\* (Faulty: the finished activity is forgotten.)
TriggerForgetsDestroy(w, x) ==
    LET i == Waiting(w, "DELAY_DESTROY", x) IN IF i = 0 THEN w ELSE Taken(w, i)

\* eventTrigger() with ActivityDelayDestroy::Event.
TriggerDelayDestroy(w, x) ==
    LET i == Waiting(w, "DELAY_DESTROY", x)
    IN IF i = 0 THEN w ELSE LifecycleTransition(Taken(w, i), w.pend[i].other, DESTROYED)

\* Where x first is in the sequence s, 0 if it is not there.
Place(s, x) == SelectInSeq(s, LAMBDA y : y = x)

\* std::list::remove()
Without(s, x) == FoldLeft(LAMBDA kept, y : IF y = x THEN kept ELSE Append(kept, y), <<>>, s)

\* (Faulty: the last one goes, whoever was to be removed.)
SwappedLast(s, x) == IF Contains(s, x) THEN Front(s) ELSE s

\* The last one takes the place of the removed.
SwappedOut(s, x) == IF Contains(s, x) THEN Front([s EXCEPT ![Place(s, x)] = Last(s)]) ELSE s

\* AppRecord::deleteActivity()
Forget(w, x) == [w EXCEPT !.proc[w.act[x].mApp].mExistActivity = SwappedOut(@, x)]

StopApplication(w, p) ==
    IF w.proc[p].mStatus = "RUNNING"
    THEN [Send(w, p, <<"TERMINATE", 0>>) EXCEPT !.proc[p].mStatus = "STOPPING"]
    ELSE w

AbnormalExit(w, x) ==
    LET dead == [w EXCEPT !.act[x].mStatus = DESTROYED]
    IN IF Freed(w, x) THEN dead ELSE StopApplication(Forget(dead, x), w.act[x].mApp)

\* AppRecord::setForeground(): only a count that becomes 1 or 0 is passed on.
SetForeground(w, x, isForeground) ==
    LET p == w.act[x].mApp
        count == w.proc[p].mForegroundActivityCnt + (IF isForeground THEN 1 ELSE -1)
        changes == count = (IF isForeground THEN 1 ELSE 0)
    IN IF Freed(w, x) THEN w
       ELSE [w EXCEPT !.proc[p].mForegroundActivityCnt = count,
                      !.proc[p].foreground = IF changes THEN isForeground ELSE @]

\* The same through an unchecked getAppRecord().
ChangeForeground(w, x, isForeground) ==
    IF Freed(w, x) THEN Undefined(w) ELSE SetForeground(w, x, isForeground)

-----------------------------------------------------------------------------
(* Tasks and processes.                                                     *)

Top(w, t) == IF t = 0 \/ w.stack[t] = <<>> THEN 0 ELSE Last(w.stack[t])

\* The activity's weak pointer to its stack: the stack is kept by the managers'
\* lists, by mHomeTask and by the launches that wait for a process.
TaskOf(w, x) ==
    LET t == w.act[x].mInTask
        kept == Contains(w.mAllTasks \o w.mSystemUITasks, t) \/ w.mHomeTask = t
                \/ \E i \in DOMAIN w.launch : w.launch[i].task = t
    IN IF kept THEN t ELSE 0

\* findTask() of both managers: the first listed task with the tag whose root lives.
FindIn(w, list, tag) ==
    LET alive(t) == /\ w.tag[t] = tag
                    /\ w.stack[t] # <<>>
                    /\ w.proc[w.act[Head(w.stack[t])].mApp].mStatus = "RUNNING"
        found == SelectInSeq(list, alive)
    IN IF found = 0 THEN 0 ELSE list[found]

\* The process of a package with one of these statuses, or 0.
FindProc(w, package, statuses) ==
    LET found == {p \in Proc : w.proc[p].package = package /\ w.proc[p].mStatus \in statuses}
    IN IF found = {} THEN 0 ELSE CHOOSE p \in found : \A q \in found : p <= q

NewTask(w, tag) == [w EXCEPT !.tasks = @ + 1, !.tag[w.tasks + 1] = tag]

\* AppSpawn: the process has not attached yet.
Spawn(w, package) ==
    [w EXCEPT !.procs = @ + 1,
              !.proc[w.procs + 1] = [NoProc EXCEPT !.package = package, !.mStatus = "ATTACHING"]]

NewActivity(w, n, t) ==
    LET x == w.activities + 1
    IN [w EXCEPT !.activities = x,
                 !.act[x] = [NoActivity EXCEPT !.name = n, !.mInTask = t, !.mapped = TRUE]]

HasRoom(w) == w.activities < MaxActivities /\ w.tasks < MaxTasks /\ w.procs < MaxProcs
=============================================================================

-------------------------- MODULE ActivityInvariant --------------------------
(***************************************************************************)
(* The inductive invariant of ActivityManagerService, IInv, and the        *)
(* relations between heaps in which its proofs say what an operation does. *)
(* Base and CountedBut hold whatever the environment does; Tidy and        *)
(* Careful say what each promise of the environment adds.                  *)
(***************************************************************************)
EXTENDS ActivityManagerService

-----------------------------------------------------------------------------
(* The invariant.                                                          *)

\* The activities on a task.
On(w, t) == ToSet(w.stack[t])

\* The activities in a process's mExistActivity.
Exist(w, p) == ToSet(w.proc[p].mExistActivity)

\* The tasks of the one and of the other manager.
Listed(w) == ToSet(w.mAllTasks)
UiListed(w) == ToSet(w.mSystemUITasks)

\* An activity's process, and the activities made so far.
AppOf(w, x) == w.act[x].mApp
Made(w) == 1..w.activities

\* An activity without a process has not been asked for anything.
ActsOK(w) == \A x \in Activity :
    /\ w.act[x].mStatus >= INIT
    /\ AppOf(w, x) = 0 => w.act[x].mStatus = INIT
    /\ AppOf(w, x) # 0 => w.proc[AppOf(w, x)].mStatus \in {"RUNNING", "STOPPING", "STOPPED"}

\* Among the calls to a client no activity is created twice.
CreatesOnce(q) == \A i, j \in DOMAIN q : q[i][1] = "CREATE" /\ q[i] = q[j] => i = j

\* The activities and the calls of a process are its own; an activity is created once.
ProcOK(w, p) ==
    /\ w.proc[p].mStatus = "STOPPED" => w.proc[p].mExistActivity = <<>>
    /\ \A x \in Exist(w, p) : AppOf(w, x) = p
    /\ \A c \in ToSet(w.proc[p].sent) : c[1] \in Steps =>
          /\ AppOf(w, c[2]) = p
          /\ c[1] = "CREATE" => w.act[c[2]].mStatus > INIT
    /\ CreatesOnce(w.proc[p].sent)

\* The activities of a pending task have processes.
PendOK(w) == \A e \in ToSet(w.pend) :
    /\ AppOf(w, e.of) # 0
    /\ e.kind # "LIFECYCLE" => e.other # 0 /\ AppOf(w, e.other) # 0

\* What holds of the activities, the processes and the pending tasks.
Low(w) == w \in HeapType /\ ActsOK(w) /\ (\A p \in Proc : ProcOK(w, p)) /\ PendOK(w)

\* Everything refers to objects that have been made.
Numbered(w) ==
    /\ \A x \in Activity : AppOf(w, x) # 0 => x <= w.activities
    /\ \A x \in Made(w) : w.act[x].name \in Name /\ w.act[x].mInTask \in 1..w.tasks
    /\ Listed(w) \union UiListed(w) \subseteq 1..w.tasks /\ w.mHomeTask <= w.tasks
    /\ \A p \in Proc : p > w.procs => w.proc[p].mStatus = "NONE"
    /\ w.procs = 0 => w.activities = 0 /\ w.tasks = 0

\* A task is listed once; an activity with a process is on its own task only, once.
Placed(w) ==
    /\ IsInjective(w.mAllTasks)
    /\ \A t \in Task : /\ IsInjective(w.stack[t])
                       /\ \A x \in On(w, t) : AppOf(w, x) # 0 /\ w.act[x].mInTask = t

\* A waiting launch is that of one activity, which has no process yet.
Launches(w) ==
    /\ \A l \in ToSet(w.launch) : /\ l.activity <= w.activities
                                  /\ AppOf(w, l.activity) = 0
                                  /\ w.act[l.activity].mInTask = l.task
    /\ \A i, j \in DOMAIN w.launch : w.launch[i].activity = w.launch[j].activity => i = j

\* A task is one manager's: that of the system UI or the other.
Kinds(w) ==
    /\ Listed(w) \intersect UiListed(w) = {}
    /\ \A x, y \in Made(w) : w.act[x].mInTask = w.act[y].mInTask
                  => IsSystemUI(w, x) = IsSystemUI(w, y)
    /\ \A x \in Made(w) : /\ w.act[x].mInTask \in Listed(w) => ~IsSystemUI(w, x)
                          /\ w.act[x].mInTask \in UiListed(w) => IsSystemUI(w, x)

\* A task that some list, mHomeTask or launch keeps alive.
Kept(w, t) == t \in Listed(w) \union UiListed(w) \/ w.mHomeTask = t
              \/ \E l \in ToSet(w.launch) : l.task = t

\* What is on a kept task is in the mExistActivity of its process, except for X.
CountedBut(w, X) == \A t \in Task : Kept(w, t) =>
    \A x \in On(w, t) : x \in Exist(w, AppOf(w, x)) \/ x \in X

\* What holds whatever the environment does.
Base(w) == Low(w) /\ Numbered(w) /\ Placed(w) /\ Launches(w) /\ Kinds(w)

\* A listed task has an activity.
NonEmpty(w) == \A t \in Listed(w) : w.stack[t] # <<>>

\* There is a home task, and it is listed, as long as anything is.
HomeListed(w) ==
    /\ w.mHomeTask = 0 <=> w.mAllTasks = <<>>
    /\ w.mHomeTask # 0 => w.mHomeTask \in Listed(w)

\* A task with an activity is listed.
AllListed(w) == \A t \in Task : w.stack[t] # <<>> => t \in Listed(w)

\* What holds of the task list, depending on the environment.
Tidy(w) ==
    /\ FinishOnce => NonEmpty(w)
    /\ FinishOnce /\ HomeStays => HomeListed(w)
    /\ FinishOnce /\ HomeStays /\ SystemUI = {} => AllListed(w)

\* No handler is undefined in a careful environment.
Careful(w) == FinishOnce /\ HomeStays /\ UiNewTask => ~w.undefined

\* The activities of X are about to leave their tasks.
Fine(w, X) == Base(w) /\ CountedBut(w, X) /\ Tidy(w) /\ Careful(w)

\* The inductive invariant of the heap.
Inv(w) == Fine(w, {})

\* The inductive invariant.
IInv == Inv(am) /\ requests \in 0..MaxRequests

-----------------------------------------------------------------------------
(* What an operation leaves alone, and what it does to the tasks.          *)

\* What an assignment to an activity leaves alone.
SameButAct(w, v) ==
    /\ v.activities = w.activities /\ v.stack = w.stack /\ v.tag = w.tag /\ v.tasks = w.tasks
    /\ v.proc = w.proc /\ v.procs = w.procs /\ v.mAllTasks = w.mAllTasks
    /\ v.mHomeTask = w.mHomeTask /\ v.mSystemUITasks = w.mSystemUITasks
    /\ v.pend = w.pend /\ v.launch = w.launch /\ v.undefined = w.undefined

\* What an assignment to a process leaves alone.
SameButProc(w, v) ==
    /\ v.act = w.act
    /\ v.activities = w.activities /\ v.stack = w.stack /\ v.tag = w.tag /\ v.tasks = w.tasks
    /\ v.procs = w.procs /\ v.mAllTasks = w.mAllTasks
    /\ v.mHomeTask = w.mHomeTask /\ v.mSystemUITasks = w.mSystemUITasks
    /\ v.pend = w.pend /\ v.launch = w.launch /\ v.undefined = w.undefined

\* An activity is new, or its process knows it.
Ready(w, x) == w.act[x].mStatus = INIT \/ x \in Exist(w, AppOf(w, x))

\* What no call of a task manager changes: what there is and whose it is.  A process
\* may be asked to stop and may count more activities.
Steady(w, v) ==
    /\ v.activities = w.activities /\ v.tasks = w.tasks /\ v.procs = w.procs
    /\ v.tag = w.tag /\ v.launch = w.launch
    /\ \A x \in Activity : /\ v.act[x].name = w.act[x].name
                           /\ v.act[x].mInTask = w.act[x].mInTask
                           /\ v.act[x].mApp = w.act[x].mApp
    /\ \A p \in Proc : /\ \/ v.proc[p].mStatus = w.proc[p].mStatus
                          \/ w.proc[p].mStatus = "RUNNING" /\ v.proc[p].mStatus = "STOPPING"
                       /\ Exist(w, p) \subseteq Exist(v, p)
    /\ \A x \in Activity : ~Freed(w, x) /\ Ready(w, x) => Ready(v, x)

\* The tasks are left alone.
SameTasks(w, v) ==
    /\ v.stack = w.stack /\ v.mAllTasks = w.mAllTasks /\ v.mHomeTask = w.mHomeTask
    /\ v.mSystemUITasks = w.mSystemUITasks

\* A step of activities and processes that goes on from Low to Low.
Calm(w, v) == Low(v) /\ Steady(w, v) /\ SameTasks(w, v)

\* A calm step that is not undefined unless its start is.
Quiet(w, v) == Calm(w, v) /\ v.undefined = w.undefined

\* What the end of an activity or of a process leaves: the activities of X are gone.
Loose(w, v, X) ==
    /\ v.activities = w.activities /\ v.tasks = w.tasks /\ v.procs = w.procs
    /\ v.tag = w.tag /\ v.launch = w.launch
    /\ \A x \in Activity : /\ v.act[x].name = w.act[x].name
                           /\ v.act[x].mInTask = w.act[x].mInTask
                           /\ v.act[x].mApp = w.act[x].mApp
    /\ \A p \in Proc : /\ w.proc[p].mStatus = "NONE" => v.proc[p].mStatus = "NONE"
                       /\ Exist(w, p) \ X \subseteq Exist(v, p)

\* The activities on the tasks have a process.
Owned(w) == \A t \in Task : \A x \in On(w, t) : AppOf(w, x) # 0

\* A steady step that may change the tasks.
Moves(w, v) == Low(v) /\ Steady(w, v)

\* The lists of tasks are left alone.
SameLists(w, v) ==
    /\ v.mAllTasks = w.mAllTasks /\ v.mHomeTask = w.mHomeTask
    /\ v.mSystemUITasks = w.mSystemUITasks

\* No task is listed anew, and no activity is pushed.
Shrinks(w, v) ==
    /\ Listed(v) \subseteq Listed(w) /\ UiListed(v) \subseteq UiListed(w)
    /\ v.mHomeTask \in {0, w.mHomeTask} \union Listed(w)
    /\ IsInjective(w.mAllTasks) => IsInjective(v.mAllTasks)
    /\ \A t \in Task : /\ On(v, t) \subseteq On(w, t)
                       /\ IsInjective(w.stack[t]) => IsInjective(v.stack[t])

\* An activity that is just made is pushed on its task.
Pushable(w, t, x) ==
    /\ t \in Task /\ x \in Made(w) /\ AppOf(w, x) # 0 /\ ~Freed(w, x)
    /\ w.act[x].mStatus = INIT /\ w.act[x].mInTask = t
    /\ \A r \in Task : x \notin On(w, r)
    /\ \A y \in On(w, t) : y \in Exist(w, AppOf(w, y))

\* A task and its new activity.
Joins(w, v, t, x) ==
    /\ Moves(w, v)
    /\ \A r \in Task : r # t => v.stack[r] = w.stack[r]
    /\ v.stack[t] # <<>> /\ IsInjective(v.stack[t]) /\ On(v, t) \subseteq On(w, t) \union {x}
    /\ x \in Exist(v, AppOf(w, x))

\* x is paused, the next is resumed, and then x is destroyed.
Replaced(w, x) ==
    LET next == Top(w, Active(w))
    IN IF next = 0 THEN LifecycleTransition(w, x, DESTROYED)
       ELSE Commit(LifecycleTransition(LifecycleTransition(w, x, PAUSED), next, RESUMED),
                   "DELAY_DESTROY", next, x)

\* An activity has left its task.
Gone(w, x) == TaskOf(w, x) # 0 => x \notin On(w, TaskOf(w, x))

\* The client has taken the create() of x.
Answered(w, x) ==
    /\ w.act[x].mStatus > INIT
    /\ \A p \in Proc : <<"CREATE", x>> \notin ToSet(w.proc[p].sent)

\* x is the new activity of the task t, which may be new as well.
Grows(w, v, t, x) ==
    /\ v \in HeapType /\ x \in Activity /\ x = w.activities + 1 /\ v.activities = x
    /\ \A y \in Activity : y # x => v.act[y] = w.act[y]
    /\ v.act[x].name \in Name /\ v.act[x].mInTask = t /\ v.act[x].mStatus = INIT
    /\ v.tasks \in {w.tasks, w.tasks + 1} /\ t \in 1..v.tasks
    /\ SameTasks(w, v) /\ v.pend = w.pend /\ v.undefined = w.undefined
    /\ v.procs \in Nat \ {0} /\ v.procs >= w.procs
    /\ \A p \in Proc : \/ v.proc[p] = w.proc[p]
                       \/ p > w.procs /\ v.proc[p].mExistActivity = <<>> /\ v.proc[p].sent = <<>>
    /\ \A p \in Proc : p > v.procs => v.proc[p].mStatus = "NONE"
    /\ \/ v.launch = w.launch /\ AppOf(v, x) \in Proc /\ v.proc[AppOf(v, x)].mStatus = "RUNNING"
          /\ AppOf(v, x) <= w.procs
       \/ /\ AppOf(v, x) = 0
          /\ \E l \in LaunchType : v.launch = Append(w.launch, l) /\ l.activity = x /\ l.task = t
    /\ \A y \in Made(w) : w.act[y].mInTask = t => IsSystemUI(w, y) = IsSystemUI(v, x)
    /\ t \in Listed(w) => ~IsSystemUI(v, x)
    /\ t \in UiListed(w) => IsSystemUI(v, x)
    /\ \A y \in On(w, t) : y \in Exist(w, AppOf(w, y))

\* The task of a new activity: a listed one or a new one.
Fits(w, made, n, t) ==
    /\ \/ made = w /\ IF Package[n] \in SystemUI THEN t \in UiListed(w) ELSE t \in Listed(w)
       \/ (\E tag \in Tags : made = NewTask(w, tag)) /\ w.tasks < MaxTasks /\ t = w.tasks + 1

\* The first activity of a sequence with a name.
FirstNamed(w, s, n) == SelectInSeq(s, LAMBDA x : w.act[x].name = n)

\* startActivity() asks for a new task, or has a caller.
Askable(w, n, anew) ==
    ~anew => /\ HomeStays => w.mHomeTask # 0
             /\ UiNewTask => Package[n] \notin SystemUI

-----------------------------------------------------------------------------
(* What activities are asked for.  The handlers change it by transitions;   *)
(* R are the activities that are asked to be resumed, X those whose status   *)
(* is set because they leave their task.                                    *)

\* An activity that is to be resumed; one on a stack; the one on top of the active task.
Wanted(w, x) == w.act[x].mTargetStatus = RESUMED
Stacked(w, x) == \E t \in Task : x \in On(w, t)
Shown(w) == Top(w, Active(w))

\* An activity that is to be resumed will be, or can be paused.
Eager(w, x) == Wanted(w, x) => Busy(w.act[x].mStatus) \/ w.act[x].mStatus < PAUSED
Willing(w, X) == \A x \in Activity \ X : Stacked(w, x) => Eager(w, x)

\* To be resumed, though not on top of the active task.
Stray(w, x) == Stacked(w, x) /\ Wanted(w, x) /\ x # Shown(w)
NoStray(w, v) == \A x \in Activity : Stray(v, x) => Stray(w, x)

\* Only the activities of R are asked to be resumed, and only those of X become unwilling.
Tame(w, v, R, X) == \A x \in Activity :
    /\ x \notin X => (Eager(w, x) => Eager(v, x))
    /\ x \notin R => (Wanted(v, x) => Wanted(w, x))

\* What holds of the tasks in an environment that finishes activities once, keeps the home
\* screen and has no system UI.
Sound(w) == Base(w) /\ NonEmpty(w) /\ HomeListed(w) /\ AllListed(w)

\* The environment of the theorem: activities are finished once, the home screen stays, and
\* there is no system UI.
Alone == FinishOnce /\ HomeStays /\ SystemUI = {}
=============================================================================

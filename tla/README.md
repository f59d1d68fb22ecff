# TLA+ models of the Activity Manager Service

This directory models the server of the repository (`src/server`), the client
half it talks to (`src/app`) and the promises between them, checks the models
with TLC on small instances, and proves some of the results with TLAPS for
every value of the constants. File names below are those of the repository;
`AMS` is `src/server/ActivityManagerService.cpp`.

1. [The system](#1-the-system)
2. [The modules](#2-the-modules)
3. [The runs](#3-the-runs)
4. [The proofs](#4-the-proofs)
5. [Findings](#5-findings)
6. [What is abstracted, and what is not modelled](#6-what-is-abstracted-and-what-is-not-modelled)
7. [Plan](#7-plan)

## 1. The system

The service is one process with one libuv loop. Everything that changes its
state runs on that loop: binder transactions, one timer for pending tasks, one
for the low memory killer, and SIGCHLD. The server has no locks, but the message
queue of a loop, which other threads fill, has one. What makes the server hard is that almost everything it starts is finished by somebody else,
later, perhaps not at all, and that its data structures are walked while their
elements call back into them.

| Part | State | Operations | Must hold |
|---|---|---|---|
| **Pending tasks**, `TaskBoard` | list of tasks with label, deadline, done flag; one timer; `mNextCheckTime` | `commitTask`, `eventTrigger`, `removeTask`, `checkTimeout` | one of `execute()`, `timeout()` runs, once; no deadline is missed or early |
| **One activity**, `ActivityRecord` and `ActivityClientRecord` | status, target status, error flag, pending life-cycle task; the client's status | `lifecycleTransition`, reports, timeout, `abnormalExit` | the two sides agree; callbacks in order; no transition hangs |
| **Task stacks**, `TaskStackManager`, `ActivityStack` | list of tasks, home task, a stack of activities each | switch, push, turn to, finish, move to background, delete; `ActivityWaitResume`, `ActivityDelayDestroy` | one activity in front, and shown; no empty task; nothing dead on a stack |
| **Processes**, `AppRecord`, `AppInfoList`, `AppSpawn` | status, activities, services, foreground count; processes waiting to attach | spawn, attach, `setForeground`, `stopApplication`, SIGCHLD | every process is known once; a task goes to the process it waits for; counts agree with stacks; nothing refers to a dead process |
| **Services**, `ServiceRecord`, `ServiceList`, `ServiceClientRecord`, `Service` | start/bind flags, binder, connections, status on both sides | start, bind, publish, unbind, stop, reports, abnormal exit | a live service keeps its process; connections are told the truth; nothing is left behind |
| **Priorities**, `ProcessPriorityPolicy` | doubly linked list with head, tail, background position; level and score | `add`, `remove`, `pushForeground`, `intoBackground`, `analyseProcessPriority` | the list is sound; home keeps its place; what came to the front last has the foreground score |
| **Low memory killer**, `LowMemoryManager` | scores by pid, thresholds | `setPidOomScore`, `cancelMonitorPid`, `executeLMK` | every running process can be reached, the one shown last is spared |
| **System UI**, `SystemUIManager` | its own list of tasks, without an order or a front | the same interface; stops all of its activities when an application starts | what is shown is on a listed task, and its process in the foreground |
| **Broadcasts and intents** | receivers by action; actions by package | register, unregister, send; choice of a target | a receiver can follow the processes by what it is told |
| **Event loop**, `UvLoop`, `UvMsgQueue`, `UvTimer` | queue with a mutex, handles | push, process, stop, timers | every message handled once, in order; no thread waits for ever |
| **Client plumbing**: contexts, `MessageService`, `ServiceConnection`, `Dialog`, `Intent` | next to none | forward calls | |

How they meet:

```
 request (binder) ──> AMS ──> TaskStackManager / ServiceRecord ──oneway──> client's loop
                       │            │ commit                                   │ callback
                       │            v                                          v
                       │        TaskBoard <──eventTrigger── report (synchronous call)
                       │            │ timeout()
                       v            v
        AppSpawn: fork, SIGCHLD   abnormalExit, deleteActivity, stopApplication
                       │
                       v
        AppRecord::setForeground ──> ProcessPriorityPolicy ──> LowMemoryManager ──> stopApplication
```

What is hard about it:

* *Commands are oneway, reports are calls.* A command may wait in the client's
  queue behind others, while the server changes its mind; a report is handled
  while the client waits for it.
* *Timeouts race answers.* Every step that waits for a client is a task on the
  board that may time out first; the late answer still comes.
* *Failure is partial.* A class may be unregistered, a window unattachable, a
  process die before or after it attaches, in the middle of a switch between two
  tasks, or while it is being told to terminate.
* *Callbacks inside loops.* The board's tasks commit, trigger and remove tasks
  of the list being walked.
* *Names and ids are reused.* A process is searched by name here and by pid
  there; the next one of the name, or with the pid, may come before the last is
  forgotten, and signals of several ends merge into one.
* *State derived by hand*: foreground counts, `mHomeTask`, `mBackgroundPos`,
  `mExistService` repeat what other structures say.

## 2. The modules

| Module | Models | Composes |
|---|---|---|
| `TaskContract` | what the board promises of a task (abstract) | |
| `TaskBoard` | `TaskBoard.cpp`: list, timer, re-entrant loops | implements `TaskContract` |
| `TaskBoardProofs` | theorems about `TaskBoard` | |
| `ActivityStatus` | statuses, the life-cycle table, the six steps | |
| `ActivityCallbacks` | the order of an activity's callbacks (abstract) | `ActivityStatus` |
| `ActivityRecord` | one activity with its client, all failures | implements `ActivityCallbacks` |
| `ActivityRecordProofs` | theorems about `ActivityRecord` | |
| `ActivityHeap` | the server's objects: activities, tasks, processes, pending tasks; `ActivityRecord`, `AppRecord` and the two tasks that wait for a RESUMED | `ActivityStatus`; the board as a list of pending tasks |
| `TaskStackManager` | `TaskStackManager.cpp`: the standard mode | `ActivityHeap` |
| `SystemUIManager` | `SystemUIManager.cpp`: the mode of the system UI | `ActivityHeap` |
| `ActivityManagerService` | the activity requests and reports of AMS, with many clients and processes | both managers |
| `ActivityInvariant` | the inductive invariant of `ActivityManagerService` and the relations its proofs use | `ActivityManagerService` |
| `ActivityManagerServiceProofs` | theorems about `ActivityManagerService`, the heap and both managers | |
| `ProcessLife` | what a process id goes through (abstract) | |
| `AppProcess` | `AppInfoList`, `AppAttachTask`, `AppSpawn`, `systemReady()`, SIGCHLD, receivers | implements `ProcessLife` |
| `AppProcessProofs` | theorems about `AppProcess` | |
| `ServiceRecord` | the services of a package, their clients, the service requests of AMS | |
| `ServiceRecordProofs` | theorems about `ServiceRecord` | |
| `PriorityOrder` | the order of the processes, without pointers (abstract) | |
| `ProcessPriority` | `ProcessPriorityPolicy.cpp` pointer by pointer, the killer and its thresholds, what drives them | implements `PriorityOrder` |
| `ProcessPriorityProofs` | theorems about `ProcessPriority` | |
| `SequenceLemmas` | lemmas about sequences and bounded loops that the proofs share | |
| `Mailbox` | what a loop promises to those who post to it (abstract) | |
| `UvMsgQueue` | `UvMsgQueue`, `UvLoop::postTask`, `UvLoop::stop` for several loops | implements `Mailbox` |
| `UvMsgQueueProofs` | theorems about `UvMsgQueue` | |
| `MCTaskBoard`, `MCTaskStackManager`, `MCSystemUI`, `MCAppProcess`, `MCProcessPriority`, `MCServiceRecord`, `MCUvMsgQueue` | values of constants, symmetry | |

Definitions keep the names of the source. An operator or action whose comment
begins with "(Faulty:" is not part of any behaviour: it is a variant of the
definition behind it, with a mistake one could make in that function, and shows
that some property of a run would notice.

**TaskBoard.** Between two steps of the model some callback runs or the event
loop waits. `sweep` is the `checkTimeout()` in progress with its iterator and
its running minimum, `triggers` the stack of `eventTrigger()` calls nested in
each other and in it. `CommitTask`, `EventTrigger` and `RemoveTask` are possible
in every such state, as the callbacks of the server do call them there. The list
only grows at its back, so it is the set of its commit numbers. `fate` is a
history variable, the only one that `TaskContract` sees.

**ActivityRecord.** `record` is the server's side with its `AppRecord` and the
oneway calls in flight, `client` the other side. A report is a synchronous call,
so a callback, its report and the server's whole answer to it (trigger, next
transition, `stopApplication()` if it was the last) are one action, `Deliver`.
The task managers are the actions `Request`, `Pop` and `TurnToActivity`, for
every status at every time. `Launch(ERROR)`, `LaunchUnregistered`, `Crash`,
`StopApp` and `LifecycleTimeout` are the failures; `TerminateDelayEnds` is
`clearActivityAndService()` after the client's delay.

**ActivityHeap** and the three modules on it. The server's heap is one record,
`am`, and each method an operator from heap to heap, so a handler reads as the
calls it makes, in their order. Null is 0; dereferencing it or popping an empty
stack sets `am.undefined`, after which nothing happens. `am.pend` is what
`TaskBoard` guarantees of the three kinds of tasks: each is taken by the first
event that matches, or expires in the order of the commits. `TaskStackManager`
and `SystemUIManager` are the methods of the two classes; `ActivityManagerService`
chooses between them by the package, as `getTaskManager()` does, and holds the
actions: requests, attachments, a client's callback with its report, timeouts
and the ends of processes. `foreground` of a process is what
`AppRecord::setForeground()` has passed on: it counts calls, and tells the
client and the priorities only when the count becomes 1 or 0.

**AppProcess.** A process is what the system knows of it (`child`) and what the
service knows of it (the two lists), under a pid that may be given again as soon
as it was waited for. `pend` has the `AppAttachTask`s by pid; when a process ends
before it attaches they stay, and `stale`, a history variable, remembers how many.
`boot` is what is left of `systemReady()`, `reaping` says that the SIGCHLD handler
runs: `Reap` is one turn of its loop with the whole callback. The components in a
process are only counted: in front, leaving, services. `told` counts, for a receiver
that was registered once for both broadcasts before the first process, how many more
starts than ends of each name it was sent.

**UvMsgQueue.** Each loop has a thread that waits, is woken, empties the queue
under the mutex, and gives it back. `HandleMessage` is a task, with the post it
makes and the stop of its loop, and is only possible while the other queue's mutex is
free. A post by a thread without a loop holds the mutex for itself only, so it is
one step. That tasks do not post in a circle (`NoCircleAssumption`) is left to
the users of the class: with a circle, in particular with a task that posts to
its own loop, the mutex is never given back, as `std::mutex` is not recursive.

**ServiceRecord.** `sm` is the heap. Records are numbered as they are made, a
record is `listed` while it is in `mServices`, and a process's `mExistService`
is a sequence with the code's swap-and-pop, so that double entries and expired
ones can be seen. `told` is what each connection was told last. A request may
come from any caller at any time. `careful` says whether the callers of a
behaviour wait for what they asked: they start a service only while it is neither
started nor bound, use a connection for one service, and ask nothing of one that
is being launched, bound, unbound or stopped. The invariants that mention
`careful` are what such callers may rely on; the others hold for all callers.

**ProcessPriority.** `list` has the nodes' `next` and `last` and the three
pointers of the class; `Add`, `RemovePid`, `PushForeground` and `IntoBackground`
are its methods with every branch. A process is scored only when memory runs
low (`ExecuteLMK` first runs `analyseProcessPriority()`); the thresholds are
those of `lmk.cfg` or the fixed shares of the memory, the readings are constants. The driver follows
AMS: a process attaches for an activity or a service, `setForeground()` calls
the policy when a process's count becomes 0 or 1, SIGCHLD removes it. `shown` is the set of
processes whose count is above 0, and `front` the one of them whose count became 1 last.
Which processes leave when another one comes to the front (`ComesToFront`, `Gone`) is left open: any of those
that are shown, in any order, or none. A switch between tasks hides the processes of the task that was in
front, unless they have activities in the next one; a task of several processes keeps some of
them; `SystemUIManager` shows its activities beside the application and hides them all when
the next application is started; `deleteActivity()` shows the next task without counting it, so
that its process comes to the front at a later show, or never; and a count that
`SystemUIManager` has taken below 0 (`systemui_foreground`) becomes 0 again without a call. What is proved of the
priorities therefore needs nothing of the task managers.

## 3. The runs

"Bounds" are the constants of the `.cfg`; each bounds the number of *external*
events, never the answers to them.

### Runs that pass

| Run | Bounds | Why they are enough |
|---|---|---|
| `board` | 3 commits, 2 labels, limits below and above `MIN_CHECKOUT_TIME`, nesting 2 | three tasks are needed for one to be run while a second is visited and a third committed; deeper nesting repeats |
| `activity` | 8 requests | every status and target pair with every answer in between; the graph no longer grows in kind |
| `stacks` | home and an application with two activities, 4 activities, 3 tasks, 3 processes, 3 requests | two switches between tasks and a third request while both are under way |
| `stacks_failures` | the same, 2 requests, everything may fail, `SINGLE_TOP` too | a failure in each stage of a switch |
| `systemui` | a home screen and a package of the system UI with two activities on tasks of their own; 4 activities, 4 tasks, 3 processes, 2 requests, everything may fail | one start of each side around an end of the other |
| `priorities` | 3 processes, two with services, levels from low to persistent, any of them shown beside each other; memory enough, in small blocks, and almost gone | head, home and the first of the background can be three different nodes, with the tail any of them, and the process hidden in front of home, at its place or behind it; explored completely; the proofs are for any number of processes |
| `services` | 2 services of which one has a binder, 2 connections, 3 records, 2 processes, 5 requests | start, two binds, an unbind and a stop in every order; one restart of the process |
| `processes` | 2 pids, 2 names of which one has services, 1 component of a kind in a process, 1 stale task, 1 receiver that watches and 1 that comes and goes | a pid is reused and a name is launched again while its last process still stops; both signals merge |
| `uvqueue` | 3 loops in a chain of posts, 4 tasks of which one stops its loop, 4 posts | a loop that waits for one that waits; a stop between two tasks of a queue |

* **board**. `TimerCovers`: once no `checkTimeout()` runs, the timer is
  armed no later than any open deadline. `PendingIsListed`: pending means listed
  and not done. `KeepsContract`: refinement of `TaskContract`. `EveryTaskSettles`,
  `DoneIsErased`: every task is executed, timed out or cancelled, and leaves the list.
* **activity**. `OneWatchdog`: one task waits exactly while a report is awaited.
  `RestMeansDone`, `RestAgrees`: at rest the record is
  where it was last asked to be and so is the client. `DestroyedIsFinal`.
  `CallbackOrder`: refinement of `ActivityCallbacks` whatever fails.
  `Converges`: no transition lasts for ever.
* **stacks**. `StacksAreSound`, with the types; `ForegroundIsCounted` (this one needs that nothing fails:
  `deleteActivity()` and `PopThrough` leave the counts, see section 5);
  `OnlyTimeoutsStray`: nothing but the timeout of an `ActivityWaitResume` asks
  an activity that is not in front to be resumed; `TopIsShown` and
  `LeftIsDestroyed`: when requests end, the top of the front task is shown for
  good, and what has left its stack is destroyed by its client.
* **stacks_failures**. `NeverUndefined`: no null dereference, no
  pop of an empty stack. `StackedAreAlive`.
* **systemui**. `NeverUndefined`: `onStartActivity()` and the others take the
  application of every activity on their tasks unchecked. `UiIsListed`: an activity
  that is shown is on a listed task, from where the start of an application hides it.
  This is shown for one package of the system UI only (section 6).
* **priorities**. `ListIsSound`: the list runs through all processes once, the
  same in both directions. `NeverUndefined`: the unguarded writes of
  `intoBackground()` are safe. `RunningIsMonitored`: the killer can reach every
  process it has not asked to end. `KeepsOrder`: refinement of `PriorityOrder`.
  `LastShownIsSpared`: whatever is shown beside it, hidden, started or ends, the
  process that came to the front last is never killed while it is counted there.
  `HomeKeepsPlace`: the process in front of `mBackgroundPos` stays there while
  it lives and anyone is in the background. The exception is the code's: when everybody
  is in front and home comes to the front, the process behind it has its place.
* **services**. `LiveIsCounted` and `RecordsAreSound` for all callers: a service
  that is started or bound is in its process's list, so that the end of another
  does not end the process under it; bound means connected; what a dead process
  leaves in `mServices` was being stopped. For careful callers `CarefulIsSafe`
  (no null dereference), `ClientAgrees` (a client runs only services the server
  knows, one of each name), `ConnectionsAgree` (when nothing is under way
  connections believe what is so) and `QuietProcessIsUsed` (no process and no
  service is left behind).
* **processes**. `ListsAreSound`: the two lists know every process that has not
  been waited for, once, and at most one of a name is running or on its way.
  `TasksAwaitTheirProcess`: unless its process has ended, a task waits for a
  process of its name that has not attached. `WatchersAgree`: starts less ends
  is the number of attached processes. `LivesItsLife`: refinement of
  `ProcessLife`. `EveryProcessSettles`: a launched process attaches or is given
  up, a stopped one leaves the list, an end is noticed.
* **uvqueue**. `NobodyWaitsForEver`: a mutex is only held by a thread that
  empties its queue, and of any loops that wait one is not waiting for another
  of them. `KeepsOrder`: refinement of `Mailbox`. `EveryTaskRuns`: unless its
  loop is stopped, a task that is queued runs, although wake-ups merge.

### Further configurations

These show a failure whose run would say nothing the text of section 5 does not
say, or a variant of a run above; they are kept beside it and can be run by hand.

| Configuration | Module | What it shows |
|---|---|---|
| `MCTaskStackManagerLate` | `MCTaskStackManager` | `stacks_failures`' properties hold when timeouts race late answers, with no other failure |
| `MCTaskStackManagerStray` | `MCTaskStackManager` | `OneResumed` violated |
| `MCTaskStackManagerTwice` | `MCTaskStackManager` | `NeverUndefined` violated by a second finish |
| `MCTaskStackManagerPost` | `MCTaskStackManager` | `NeverUndefined` violated by a post to the home task |
| `MCProcessPriorityFront` | `MCProcessPriority` | `ForegroundIsSpared` violated: not even the only process in front is always spared |
| `MCServiceRecordCrash` | `MCServiceRecord` | `NeverUndefined` violated by callers that are not careful |

### Fairness

* `TaskBoard`: weak fairness of the timer, of the return of callbacks, and of
  the clock. libuv runs a due timer on its next iteration, and callbacks are
  sequential code without waits.
* `ActivityRecord`: weak fairness of the board's timeout (that is
  `EveryTaskSettles`), of a live client taking its next message and ending its
  delay, and of SIGCHLD. None is assumed of the task managers.
* `ActivityManagerService`: some step other than a request is taken as long as one can
  be. Its `ENABLED` is written out as `Work`, because TLC is slow on the
  enabledness of a handler. A single condition is enough here since the order in
  which steps are taken cannot starve one: each step that is not a request uses
  up a message, a pending task or a process.
* `AppProcess`: weak fairness of the steps of the one thread (boot, the signal
  handler, each turn of its loop) and of children that are launched or asked to
  end, whose `mainRun()` attaches or returns; strong fairness of `AttachApplication`,
  since the loop polls the binder in every turn, however often a signal comes first.
* `UvMsgQueue`: weak fairness of each loop's thread. A mutex need not be fair:
  posts are bounded, so one that waits finds it free in the end.

Deadlock is not checked where requests are bounded, as the system then comes to
rest, or where the system may stop (`uvqueue`'s loops return); in `priorities` nothing is bounded and deadlock is checked.

### Environment constants

`Prompt`: clients answer before anything times out. `Reliable`: no process dies
and every launch succeeds. `FinishOnce`: only activities on a stack are asked to
finish. `HomeStays`: home is started first, its package is not ended, and the last
activity of the home task (an application's, once home's process has died) is not
finished in the background: `mHomeTask` would be left on it (`stacks_home`). `TurnWhileBusy`:
`turnToActivity()` may meet a busy top activity. `Manners`: how callers of services may be. `UiNewTask`: the
system UI is started in new tasks only: otherwise `startActivityReal()` takes
`getActiveTask()` of `SystemUIManager`, which is null when nothing of it is resumed.
`PostHome`: intents are posted to the home task, whose root `findSystemTarget()` takes
unchecked. `SpawnSucceeds`: memory suffices and a launch fails only without a free id. Each
is a condition without which the code does not keep what the run states; the
runs and configurations of section 5 show most of the failures.

## 4. The proofs

`tlapm` proves every leaf with the SMT, Zenon and LS4 backends. Nothing is assumed but
the named `ASSUME`s of the modules, which TLC evaluates on the instances.

**TaskBoardProofs**, for any number of commits, labels, limits and any depth of
nesting. The invariants a reader wants (`TimerCovers`, `PendingIsListed`) are
not inductive: during a sweep the timer is not armed and `mNextCheckTime` is
stale, and what makes the end of the sweep right is the minimum gathered so
far. `BoardInv` adds `TimerBookkeeping`: outside a sweep the timer is armed no
later than `mNextCheckTime`, which covers every open deadline; in a sweep the
running minimum covers the open deadlines of everything visited, also of tasks
committed by the callbacks. It also bounds the commit numbers and deadlines.
From it: `TypeCorrect`, `TimerIsSafe`, `NothingIsLost`, `BoardKeepsContract`
(each step is a step of `TaskContract` or a stutter), and `DebugNeverTimesOut`:
in debug mode `mNextCheckTime` stays 0, `commitTask()` never starts the timer
and so no task times out.

**ActivityRecordProofs**, for any number of requests, under `~TurnWhileBusy`.
`turnToActivity()` sets the status of the top activity to `PAUSED` whatever it
is. On a busy activity a second command is then in flight with a second task,
and `OneWatchdog` is false: the assumption is needed. `RecordInv` joins four
things that only hold together: the status is never an error code and `tasks` is
1 exactly while it is busy (`Watched`), a destroyed record that the server can
still look up has no task a late report could trigger (`Closed`), and at rest
the table has nothing left to do for the target (`Settled`). Without `Closed`,
`DestroyedStays` is not inductive: the late report would run `execute()`.
From it: `RecordTypeCorrect`, `OneTaskWaits`, `NoRequestForgotten`
and `DestroyedStays`. `RestAgreesAlways` and `CallbacksInOrder` need the client's side too:
`InSync` says that while the process lives at most one step is on its way, that the
client is in a status from which it may take it, that the server waits for it unless
it has given the activity up, and that where nothing is on its way both sides have the same status. Each callback is then
the next one that `ActivityCallbacks` allows. The proof found a request that the model
allowed on a record which the server no longer maps and which is not destroyed; the
guard of `Request` now excludes it, as `findActivity()` does. The lemmas about the table (`TableMatchesGuards`: each
entry is a step whose guard allows it, and none leads out of `DESTROYED`)
connect `lifecycleTransition()` with the guards of `create()` to `destroy()`.

**AppProcessProofs**, for any sets of pids and names, any boot sequence and any
bounds. That a name has at most one process that may be given components depends
on the launch asking both lists, on a process leaving one as it enters the
other, and on the pid being free in both when `posix_spawn()` gives it; the last
holds because the lists know exactly the processes that have not been waited
for. `Inv` therefore joins the types, `ListsAreSound`, and
`TasksAwaitTheirProcess` with the bookkeeping of `stale`. The handlers change the
lists by four operations (remove, append, update, move from one list to the
other), and there is one lemma for each on what it keeps of the invariant and which step of
`ProcessLife` it is; the lemma of an action picks the operation. `Reap` is the
step that needs both halves: it removes one process and may launch another in the same
handler, under the same pid or another. From `Inv`: `ListsAreSoundAlways`,
`TasksAwaitAlways`, `LivesItsLifeAlways`. `WatchersAgreeAlways` adds `Watched`: what the
receiver was told of a name is the number of processes of that name on the list
of those that attached; that a watcher is registered for each broadcast once (`Once`)
makes what it counts change by one with each start and each end, whoever else registers.

**UvMsgQueueProofs**, for any number of loops, tasks and posts. `QueueInv` says
that a mutex is held exactly while its thread empties the queue, and that a queue
holds only tasks of its own loop: so a loop can only wait along a post
that `PostsTo` has, and `NoCircleAssumption` gives, for any set of loops, one
that does not. `KeepsOrderAlways` needs that what has run, followed by what is
queued, is what was posted: the second part of the module.

**ProcessPriorityProofs**, for any number of processes, tasks, levels and lines of
`lmk.cfg`. `Represents` relates the linked list to a sequence: head and tail
are its ends, `next` and `last` lead from each element to its neighbours, and
`mBackgroundPos` is the element at some place, or null. There is one lemma for each
pointer operation (push to the front or the back, insertion, removal), and each
method is a composition of them; so one argument gives `SpecListIsSound`, that the
unguarded writes meet no null (`SpecNeverUndefined`), and that each step is a
step of `PriorityOrder` (`SpecKeepsOrder`). The invariant joins it with the types, with
the members of the list being the living processes, and with the background beginning at the second
place or later once something is shown. `SpecHomeKeepsPlace` and `SpecLastShownIsSpared`
need `SpecShownFirst` besides: whoever stands in front of home's place is shown, and `front` is
the first of the list (`InFront`). It is kept by each operation of the list, so by every switch whatever it hides
(`SwitchedFront`), and with it each operation leaves home where it was, or everybody is in front (`HomeStays`): only
`pushForeground()` of home itself moves `mBackgroundPos` off it, to the head, and that is in
front of home's place only when all the others are shown. Nothing is assumed of
which processes are shown beside each other.
`SpecLastShownIsSpared` also takes the scores of `lmk.cfg`'s lines and both readings of the
memory to be above 0 (`Positive`): a line with score 0, or the zeros that are left of the
table, which only a memory of 0 reaches, would stop the process in front too.

**ServiceRecordProofs**, for any number of services, connections, records,
processes and requests. `Inv` has two parts.
*Base* holds whatever callers do: the types; what has not been made is untouched
(`Fresh`); a record has a process that attached (`Placed`); a process that is not up has no services,
messages and clients (`Idle`); messages and services of a process are its own
(`Own`); and the two invariants, record by record (`Counted`, `Sound`).
*Orderly* holds while they are careful: a process that runs counts each
service once and none that is being stopped (`Tidy`), nothing follows the UNBIND or
the STOP of a service in a queue (`InOrder`), tasks that wait for a process name different
services, and at most one record of a name in a process is listed, has a client or has messages
(`OneOfAName`). In the middle of a handler two things are not so yet: the
record whose message is in hand (`h`) is alive although it may be neither
listed nor mentioned in a queue, and the records of a process that handles
`terminateApplication()` (`X`) lose their entries before their clients. Both are
parameters of `Orderly`, and the invariant between steps is the instance without
a message in hand. A method changes one record and its process
only; `Local` says what it leaves alone and `Step` that it keeps `Inv`, and both
compose, so the proof of a handler follows its calls. The loops over records keep a set of
states if each turn does (`DestroyLoopKeeps` and the two behind it): the function that `ForEach` and
`Attached` define by recursion exists because it has finitely many arguments
(`IteratedExists` in `SequenceLemmas`, from the least element of a set of naturals).

The second half of the module adds what connections are told. `ConnectionsAgree` and
`QuietProcessIsUsed` speak of states in which nothing is under way, so they only follow
from what each message still on its way will do. `Informed` says it: a client has each
service that its process should have, or the message that creates it is in the queue, and
a service that is no longer used has its UNBIND or STOP there (`Reached`); a BIND is only
sent for a connection of a service that goes on (`Addressed`); each connection of such a
service has been told, or its BIND is in the queue (`Heard`); a connection
serves one service (`Single`), without which the "disconnected" of one would contradict
the "connected" of another; a connection that believes has a service that goes on, or one whose process was told
to terminate (`Believes`, the exception of section 5); a process that is waited for is waited for by a task
(`Waited`); and one that runs without a service is about to stop one (`Occupied`). An
`unbindConnection()` in progress has told its connection already and not yet unbound every
service: `E` is the set of the connections it is about. `Informed` is inductive given `Inv`, and only while
callers are careful; most of its proof is `ToldStep`, about steps that concern one record
(`About`). From it: `InformedAlways`, `ConnectionsAgreeAlways`, `QuietProcessIsUsedAlways`.

**ActivityManagerServiceProofs**, for any names, packages, affinities and launch modes, and any number of
activities, tasks, processes and requests, with both task managers. The inductive
invariant is `Inv(am)` (`ActivityInvariant`), in layers that say what each promise of the environment adds:

* `Base` holds whatever the environment does: the types and what each activity, process
  and pending task refers to (`Low`: an activity without a process was asked for nothing, a
  process's list and calls are of its own activities, none is created twice, a pending
  task has its activities); everything refers to what was made (`Numbered`); a listed
  task is listed once, an activity with a process is on its own task only, once
  (`Placed`); a waiting launch is that of one activity, which has no process yet
  (`Launches`); a task is one manager's (`Kinds`).
* `CountedBut`: what is on a task that somebody keeps (a list, `mHomeTask`, a launch) is
  in its process's `mExistActivity`. Without it `StackedAreAlive` is not inductive:
  `procAppTerminated()` takes off the stacks just what that list has.
* `Tidy`: with `FinishOnce` a listed task is not empty, with `HomeStays` besides there is a
  home task on the list while anything is, and without a system UI every task
  with an activity is listed. Each condition is needed: `MCTaskStackManagerTwice` and
  `stacks_home` break the first two; a system UI's task is not listed when its tag already is (section 6).
* `Careful`: with `FinishOnce`, `HomeStays` and `UiNewTask` no handler was undefined.

A handler is a composition of operations on the heap, some of them loops whose bodies
call back into the managers, and the proof follows it upwards. `Calm` says that a call
on an activity leaves the tasks alone, `Moves` that an operation of a manager leaves what activities, processes and
pending tasks refer to, `Loose` that some activities may be forgotten. A loop keeps a set of heaps if each
pass does, since the function behind `FoldLeft` exists (`FoldExists` in `SequenceLemmas`).
In the middle of a handler the invariant is broken for the activities on their way out:
`Fine(w, X)` leaves them out, a deletion takes one from `X`, and between steps `X` is empty. A new activity, and a
process that attaches, are the two ways in (`Grows`, `Pushable`). From it: `Invariant`, `TypeCorrect`,
`StacksAreSoundAlways` (`FinishOnce`), `NeverUndefinedAlways` (with `HomeStays` and `UiNewTask`),
`StackedAreAliveAlways` and `TasksAreKeptAlways` (with `HomeStays`, no system UI); the last
says that the failure of `stacks_home` needs the home task to end in the background.

`OnlyTimeoutsStrayAlways` (with `FinishOnce`, `HomeStays`, no system UI) needs what each activity
was asked for at every call inside a handler. The invariant gains `Willing`: an activity on a stack that is
to be resumed can be paused, or will be when its client answers, so that the next request to pause it is not
lost. Without it the property is not inductive: `turnToActivity()` pauses the activity in
front by a transition that does nothing in some statuses. `Tame(w, v, R, X)` says what an operation does: only
the activities of `R` are asked to be resumed, only those of `X` become unwilling; each
handler is a chain of such steps in which whoever was in front is paused before another
comes to the front (`NoStray`). In the middle of a handler the activities in `X` are about to leave their stack.

Only model-checked: all liveness, as the prover has no `ENABLED` (`EveryTaskSettles`, `DoneIsErased`,
`Converges`, `EveryProcessSettles`, `EveryTaskRuns`, `TopIsShown`, `LeftIsDestroyed`);
`ForegroundIsCounted` and `UiIsListed`, which need the client's side of each activity (they fail when timeouts
race answers) and, the first, the cardinality of the front task's share in each
process. There are no theorems about
what a recursive definition returns for every input, as the library's induction theorems
cannot be instantiated; that a bounded loop keeps an invariant is proved as above.

## 5. Findings

Each of these runs checks one property and ends in a counterexample.

| Run | What happens |
|---|---|
| `stacks_home` | When the last activity of the home task finishes in the background, `mHomeTask` still points to the task. `moveTaskToBackground()` does not find it on the list and drops the task it was to move, activities and all. |
| `processes_boot` | A service of the home screen's package is started by the boot broadcast; its process has not attached when `systemReady()` starts the home screen, and `submitAppStartupTask()` refuses a second task that is an activity. Nobody asks again until some process ends. |
| `systemui_foreground` | Two applications are started while the system UI is hidden: each takes one from its foreground count, which is then negative. When it is shown next the count does not become 1, and neither its client nor the priorities hear of it. |

The further configurations of section 3 show these:

| Configuration | What happens |
|---|---|
| `MCTaskStackManagerStray` | Two switches between the same two tasks within one answer commit two `ActivityWaitResume`s for one activity. A report takes only the first; the timeout of the second asks an activity of a background task to be resumed. |
| `MCTaskStackManagerTwice` | `finishActivity()` of an activity that has left its stack pops everything in search of it, and then the empty vector. |
| `MCTaskStackManagerPost` | The home task of `stacks_home`, ended but still `mHomeTask`, is asked for its root by `findSystemTarget()`. |
| `MCProcessPriorityFront` | While home and the system UI are both in front nobody is in the background, `mBackgroundPos` is null, and home's place is that of the last: `pushForeground()` of home then gives it to the UI. With the calls of the task managers: the UI is shown beside home, an application is started (the UI and home are hidden), the UI is shown again, the application crashes, home starts a second activity (home at the head, the UI last), a second application is started and the UI shown beside it, which makes that application `mBackgroundPos` and puts the UI in front of it. When the UI is hidden `intoBackground()` takes it for home and leaves it at the head. The application, the only one in front, is scored as background and stopped by the killer. A task of two applications has the same effect. No comment or document of the code denies it, so this is not a run of the list above. |
| `MCServiceRecordCrash` | A service is bound and then started (or started twice): it is listed twice in its process. Once it is stopped one entry is left, expired, and the next `postIntent()` to the package dereferences it. |

Seen while modelling, without a run of its own:

* `deleteActivity()` takes activities off the front task without
  `setForeground(false)`, and shows the next task without `setForeground(true)`;
  `ForegroundIsCounted` is therefore only stated where nothing fails.
* `checkService()` compares the whole target of an intent, `package/service`,
  with names that have no package: an intent is never posted to a service.
* When a bound service's process is asked to terminate, the reports of
  `clearActivityAndService()` delete its records, and its connections are never
  told that they are disconnected (the exception in `ConnectionsAgree`).
* Two requests that find a package unattached make two records of one service.
* `unbindConnection()` tells a connection once for every bound service, also of
  other packages.
* The receivers of a process that dies stay registered: nothing unregisters them.
* The `AppAttachTask` of a process that ended before it attached is executed by
  the next process that gets its pid, of whatever package (`stale` in
  `TasksAwaitTheirProcess`).
* `LowMemoryManager::init()` computes `info.arena * 4` in an `int`, which
  overflows from 512 MB on (`ArenaAssumption`).
* The wait of the second `ActivityWaitResume` above is harmless for what is shown in
  the end (`TopIsShown`): the stray activity is behind the front one.

## 6. What is abstracted, and what is not modelled

* Intents, results, windows, configuration, logging and traces do not change
  the control of the parts modelled and are left out.
* `TaskBoard`: time is counted in ticks; a handler that is done keeps its task
  alive until it is erased, which no caller depends on.
* `ActivityManagerService`: all its tasks have one time limit; pids are not
  reused; services are left out, so `checkActiveStatus()` is `mExistActivity` not
  being empty; a process that dies before it attaches takes its launch along
  (`AppProcess` has both). The boot guide is one more `startActivity()` before
  the first and is not a step of its own. Results and `setIntent()` are left out.
  One package has one affinity per activity; the instance of the system UI has one package.
  With a second one, an activity of which has the first's name as its affinity,
  `UiIsListed` does not hold: both are started on a new task of that tag before
  either attaches, `pushNewActivity()` lists the first of the two tasks, and the
  activity on the other is shown and not hidden by the start of an application.
  No document says which packages may share an affinity, so the run leaves it out.
* `AppProcess`: components have no identity and services are only stopped by
  their reports; a task is stale as soon as the end of its process was noticed;
  registrations beyond the bound are left out.
* `UvMsgQueue`: a task posts at most one other; libuv's handles other than the
  queue's are left out.
* `ActivityRecord`: what a transition does to other activities is in
  `TaskStackManager`; the fake pause only resumes.
* `ServiceRecord`: one package, without activities; a class is always
  registered; what a connection is told arrives at once; a message, its
  callbacks and their reports are one step; a report that arrives after the end of
  its process is left out; the record `findService()` finds first among several
  of one name may be any of them. Messages after `terminateApplication()` are
  still handled: in the code the client's loop runs on for 300 ms and ends its
  services after that, in the model it ends them with the message and still answers the later ones.
* `ProcessPriority`: the reading of `/proc` is left out, any of the instance's readings
  may come at any time; `lastWakeUptime` is not used by the code.
* Not modelled: the action table (`IntentAction`), which is filled from the
  manifests once and only looked up; the command line, logging and AIDL
  declarations, which have no state; `ContextImpl`, `ContextWrapper`,
  `ActivityManager`, `Dialog`, `MessageService` and `ServiceConnection`, which hand each
  call on and keep nothing that a later call depends on; windows, which belong
  to another service.

## 7. Plan

Done, with proofs: the board, one activity, the processes, the message queue, the priorities with the
killer, the services, and the stacks with both task managers.

Next, in this order:

1. Proofs about the rest: `ForegroundIsCounted` and `UiIsListed`, from an invariant like
   `InSync` of `ActivityRecordProofs` for every activity of the heap.
2. Services of several packages with activities in the same process: the
   composition of `ServiceRecord` and `ActivityManagerService` on
   `checkActiveStatus()`.
3. Two packages of the system UI with one affinity (section 6): a statement of `UiIsListed`
   that leaves out the tasks `pushNewActivity()` does not list.

------------------------------ MODULE AppProcess ------------------------------
(***************************************************************************)
(* The processes of the applications: AppInfoList with its two lists and   *)
(* AppAttachTask (server/AppRecord.cpp), AppSpawn, the requests, the       *)
(* attachment, the SIGCHLD callback and systemReady() of                   *)
(* ActivityManagerService.cpp, and the main loop of the children           *)
(* (app/ApplicationThread.cpp).  The receivers of APP_START and APP_EXIT   *)
(* are told of both ends of a process.                                     *)
(*                                                                         *)
(* A process is known by the name it is launched under: its package, or    *)
(* "vservice:" and the package for the services of a quick application.    *)
(* Its components are counted, TaskStackManager and ServiceRecord have     *)
(* them in detail.  The service is one thread: `boot' is what is left of   *)
(* systemReady(), `reaping' says that the SIGCHLD handler runs.            *)
(***************************************************************************)
EXTENDS Integers, Sequences, FiniteSets

CONSTANTS
    Pid,            \* the process ids the system gives
    Name,           \* the names of the processes
    WithActivity, WithService,  \* the names that have activities, services
    Home,           \* the name that answers ACTION_HOME
    Boot,           \* the targets systemReady() starts, in their order
    SpawnSucceeds,  \* memory suffices and posix_spawn() fails only without a free id
    Watcher,        \* receivers registered once for both actions since the start
    Guest,          \* receivers that come and go
    MaxParts,       \* bound: components of a kind in a process, tasks for a process
    MaxStale,       \* bound: tasks of processes that ended before they attached
    MaxGuests       \* bound: registrations of guests for an action

Kind == {"ACTIVITY", "SERVICE"}
Target == [name : Name, kind : Kind]

ASSUME NameAssumption == Home \in WithActivity /\ WithActivity \cup WithService \subseteq Name
ASSUME BootAssumption == Boot \in Seq(Target) /\ SpawnSucceeds \in BOOLEAN
ASSUME ReceiverAssumption == Watcher \cap Guest = {} /\ IsFiniteSet(Watcher)
ASSUME BoundsAssumption == {MaxParts, MaxStale, MaxGuests} \subseteq Nat

VARIABLES
    mAppWaitingAttach,  \* the names and pids of the processes that have not attached
    mAppList,           \* the AppRecords
    pend,               \* per pid, its AppAttachTasks that are not done: what each starts
    child,              \* the processes, as the system sees them
    sigchld,            \* SIGCHLD is pending
    reaping, boot,
    receivers,          \* mReceivers, for APP_START and APP_EXIT
    told,               \* APP_STARTs less APP_EXITs each watcher has been sent, by name
    stale               \* history: how many tasks of pend are of an ended process

listVars == <<mAppWaitingAttach, mAppList, pend, child>>
handlerVars == <<sigchld, reaping, boot>>
castVars == <<receivers, told>>
vars == <<listVars, handlerVars, castVars, stale>>

Action == {"START", "EXIT"}

Parts == [front : Nat, leaving : Nat, services : Nat]
App == [name : Name, pid : Pid, mStatus : {"RUNNING", "STOPPING"}, parts : Parts]

TypeOK ==
    /\ mAppWaitingAttach \in Seq([name : Name, pid : Pid])
    /\ mAppList \in Seq(App)
    /\ pend \in [Pid -> Seq(Target)]
    /\ child \in [Pid -> {"NONE", "SPAWNED", "ATTACHING", "RUNNING", "ENDED"}]
    /\ sigchld \in BOOLEAN /\ reaping \in BOOLEAN /\ boot \in Seq(Target)
    /\ receivers \in [Action -> Seq(Watcher \cup Guest)]
    /\ told \in [Watcher -> [Name -> Int]]
    /\ stale \in [Pid -> Nat]

Init ==
    /\ mAppWaitingAttach = <<>>
    /\ mAppList = <<>>
    /\ pend = [p \in Pid |-> <<>>]
    /\ child = [p \in Pid |-> "NONE"]
    /\ sigchld = FALSE /\ reaping = FALSE
    /\ boot = Boot
    /\ receivers \in [Action -> {s \in [1..Cardinality(Watcher) -> Watcher] :
                                    \A w \in Watcher : \E i \in DOMAIN s : s[i] = w}]
    /\ told = [w \in Watcher |-> [n \in Name |-> 0]]
    /\ stale = [p \in Pid |-> 0]

Idle == boot = <<>> /\ ~reaping

-----------------------------------------------------------------------------
(* AppInfoList.                                                            *)

Has(list, p) == \E i \in DOMAIN list : list[i].pid = p

HasIn(list, p, status) == \E i \in DOMAIN list : list[i].pid = p /\ list[i].mStatus = status

\* (Faulty: the last one is dropped, and the removed one stays.)
PopLast(list, p) == IF Has(list, p) THEN [k \in 1..(Len(list) - 1) |-> list[k]] ELSE list

\* deleteAppInfo(), deleteAppWaitingAttach(): the last one takes the place.
Without(list, p) ==
    IF Has(list, p)
    THEN LET i == CHOOSE i \in DOMAIN list : list[i].pid = p
         IN [k \in 1..(Len(list) - 1) |-> IF k = i THEN list[Len(list)] ELSE list[k]]
    ELSE list

\* findAppInfoWithAlive(): where the first running process of a name is.
Alive(list, n) == {i \in DOMAIN list : list[i].name = n /\ list[i].mStatus = "RUNNING"}

\* (Faulty: the names are not compared.)
AnyAttaching(wait, n) == DOMAIN wait

\* getAttachingAppPid().
Attaching(wait, n) == {i \in DOMAIN wait : wait[i].name = n}

First(S) == CHOOSE i \in S : \A j \in S : i <= j

NoParts == [front |-> 0, leaving |-> 0, services |-> 0]

Record(n, p) == [name |-> n, pid |-> p, mStatus |-> "RUNNING", parts |-> NoParts]

\* The component a task or a request starts in a process that runs.
Holding(app, kind) ==
    IF kind = "ACTIVITY" THEN [app EXCEPT !.parts.front = @ + 1]
    ELSE [app EXCEPT !.parts.services = @ + 1]

\* (Faulty: a second request to stop takes the first one back.)
StoppedAgain(app) == [app EXCEPT !.mStatus = IF @ = "RUNNING" THEN "STOPPING" ELSE "RUNNING"]

\* AppRecord::stopApplication().
Stopped(app) == IF app.mStatus = "RUNNING" THEN [app EXCEPT !.mStatus = "STOPPING"] ELSE app

(* sendBroadcast(): every registration is sent it.                         *)
Times(a, r) == Cardinality({i \in DOMAIN receivers[a] : receivers[a][i] = r})

Told(a, n) ==
    [w \in Watcher |-> [told[w] EXCEPT ![n] = IF a = "START" THEN @ + Times(a, w)
                                                              ELSE @ - Times(a, w)]]
-----------------------------------------------------------------------------
(* Starting components.                                                    *)

Unchanged(list, wait, kids) ==
    mAppList' = list /\ mAppWaitingAttach' = wait /\ child' = kids

Host(list, wait, kids, n, kind) ==
    /\ Alive(list, n) # {}
    /\ Unchanged([list EXCEPT ![First(Alive(list, n))] = Holding(@, kind)], wait, kids)
    /\ UNCHANGED pend

Commit(p, n, kind) == pend' = [pend EXCEPT ![p] = Append(@, [name |-> n, kind |-> kind])]

\* submitAppStartupTask() with a process of the name on its way ...
Join(list, wait, kids, n, kind) ==
    /\ Alive(list, n) = {} /\ Attaching(wait, n) # {}
    /\ Unchanged(list, wait, kids)
    /\ IF kind = "SERVICE"         \* isSupportMultiTask
       THEN Commit(wait[First(Attaching(wait, n))].pid, n, kind)
       ELSE UNCHANGED pend

\* ... and without one: appSpawn() may give any id that is free.
Spawn(list, wait, kids, n, kind) ==
    /\ Alive(list, n) = {} /\ Attaching(wait, n) = {}
    /\ \E p \in Pid :
          /\ kids[p] = "NONE"
          /\ Unchanged(list, Append(wait, [name |-> n, pid |-> p]), [kids EXCEPT ![p] = "SPAWNED"])
          /\ Commit(p, n, kind)

\* isOkToLaunch() or posix_spawn() fails.
SpawnFails(list, wait, kids, n) ==
    /\ Alive(list, n) = {} /\ Attaching(wait, n) = {}
    /\ SpawnSucceeds => \A p \in Pid : kids[p] # "NONE"
    /\ Unchanged(list, wait, kids)
    /\ UNCHANGED pend

\* What startActivityReal() and startServiceReal() do for a new component.
Start(list, wait, kids, n, kind) ==
    \/ Host(list, wait, kids, n, kind)
    \/ Join(list, wait, kids, n, kind)
    \/ Spawn(list, wait, kids, n, kind)
    \/ SpawnFails(list, wait, kids, n)

\* systemReady(): the boot broadcasts and the home screen, nothing in between.
BootNext ==
    /\ boot # <<>>
    /\ Start(mAppList, mAppWaitingAttach, child, Head(boot).name, Head(boot).kind)
    /\ boot' = Tail(boot)
    /\ UNCHANGED <<sigchld, reaping, castVars, stale>>

Roomy(n) ==
    /\ \A i \in DOMAIN mAppList : mAppList[i].name = n =>
          mAppList[i].parts.front < MaxParts /\ mAppList[i].parts.services < MaxParts
    /\ \A i \in DOMAIN mAppWaitingAttach : mAppWaitingAttach[i].name = n =>
          Len(pend[mAppWaitingAttach[i].pid]) < MaxParts

StartActivity(n) ==
    /\ Idle /\ Roomy(n)
    /\ Start(mAppList, mAppWaitingAttach, child, n, "ACTIVITY")
    /\ UNCHANGED <<handlerVars, castVars, stale>>

StartService(n) ==
    /\ Idle /\ Roomy(n)
    /\ Start(mAppList, mAppWaitingAttach, child, n, "SERVICE")
    /\ UNCHANGED <<handlerVars, castVars, stale>>

-----------------------------------------------------------------------------
(* The children.                                                           *)

\* mainRun() up to its attachApplication() call, which is then on its way.
CallAttach(p) ==
    /\ child[p] = "SPAWNED"
    /\ child' = [child EXCEPT ![p] = "ATTACHING"]
    /\ UNCHANGED <<mAppWaitingAttach, mAppList, pend, handlerVars, castVars, stale>>

AskedToEnd(p) == HasIn(mAppList, p, "STOPPING")

StaleTasks == Cardinality(UNION {{p} \X (1..stale[p]) : p \in Pid})

\* A process ends: it was asked to, crashes or is killed.  The system keeps
\* it until it is waited for.
End(p) ==
    /\ child[p] \in {"SPAWNED", "ATTACHING", "RUNNING"}
    /\ child[p] # "RUNNING" => StaleTasks + Len(pend[p]) - stale[p] <= MaxStale
    /\ child' = [child EXCEPT ![p] = "ENDED"]
    /\ sigchld' = TRUE
    /\ UNCHANGED <<mAppWaitingAttach, mAppList, pend, reaping, boot, castVars, stale>>

\* terminateApplication(): the loop of the client stops and mainRun() returns.
EndAsked(p) == AskedToEnd(p) /\ End(p)

-----------------------------------------------------------------------------
(* ActivityManagerService.                                                 *)

\* A new process with the components that waited for it.
Of(kind, tasks) == Cardinality({k \in DOMAIN tasks : tasks[k].kind = kind})

Holds(app, tasks) ==
    [app EXCEPT !.parts = [front |-> Of("ACTIVITY", tasks), leaving |-> 0,
                           services |-> Of("SERVICE", tasks)]]

\* attachApplication(): every task that waits for the pid is executed.
AttachApplication(p) ==
    /\ Idle
    /\ child[p] = "ATTACHING"
    /\ child' = [child EXCEPT ![p] = "RUNNING"]
    /\ IF Has(mAppList, p) \/ ~Has(mAppWaitingAttach, p)
       THEN UNCHANGED <<mAppWaitingAttach, mAppList, pend, told, stale>>
       ELSE LET i == CHOOSE i \in DOMAIN mAppWaitingAttach : mAppWaitingAttach[i].pid = p
                n == mAppWaitingAttach[i].name
            IN /\ mAppWaitingAttach' = Without(mAppWaitingAttach, p)
               /\ mAppList' = Append(mAppList, Holds(Record(n, p), pend[p]))
               /\ pend' = [pend EXCEPT ![p] = <<>>]
               /\ stale' = [stale EXCEPT ![p] = 0]
               /\ told' = Told("START", n)
    /\ UNCHANGED <<handlerVars, receivers>>

UpdateApp(i, app) == mAppList' = [mAppList EXCEPT ![i] = app]

\* The low memory killer, stopApplication() and stopActivity() of a package.
StopApplication ==
    /\ Idle
    /\ \E i \in DOMAIN mAppList : UpdateApp(i, Stopped(mAppList[i]))
    /\ UNCHANGED <<mAppWaitingAttach, pend, child, handlerVars, castVars, stale>>

\* finishActivity(): the activity leaves its task before it is destroyed.
FinishActivity ==
    /\ Idle
    /\ \E i \in DOMAIN mAppList :
          /\ mAppList[i].parts.front > 0 /\ mAppList[i].parts.leaving < MaxParts
          /\ UpdateApp(i, [mAppList[i] EXCEPT !.parts.front = @ - 1, !.parts.leaving = @ + 1])
    /\ UNCHANGED <<mAppWaitingAttach, pend, child, handlerVars, castVars, stale>>

\* DESTROYED is reported: a process whose last component is gone is stopped.
ReportDestroyed ==
    /\ Idle
    /\ \E i \in DOMAIN mAppList, part \in DOMAIN NoParts :
          LET app == mAppList[i]
              rest == [app EXCEPT !.parts[part] = @ - 1]
          IN /\ app.parts[part] > 0
             /\ UpdateApp(i, IF rest.parts = NoParts THEN Stopped(rest) ELSE rest)
    /\ UNCHANGED <<mAppWaitingAttach, pend, child, handlerVars, castVars, stale>>

\* The signal handler starts; more signals may come while it runs.
SigChld ==
    /\ Idle /\ sigchld
    /\ sigchld' = FALSE /\ reaping' = TRUE
    /\ UNCHANGED <<listVars, boot, castVars, stale>>

\* There is an active task as long as an activity of any process is on one.
ActiveTask(list) == \E i \in DOMAIN list : list[i].parts.front > 0

\* waitpid() gives an ended child, and the callback of systemReady() runs.
Reap(p) ==
    /\ reaping
    /\ child[p] = "ENDED"
    /\ LET known == Has(mAppList, p)
           list == Without(mAppList, p)
           wait == IF known THEN mAppWaitingAttach ELSE Without(mAppWaitingAttach, p)
           kids == [child EXCEPT ![p] = "NONE"]
       IN /\ IF ActiveTask(list) THEN Unchanged(list, wait, kids) /\ UNCHANGED pend
             ELSE Start(list, wait, kids, Home, "ACTIVITY")
          /\ stale' = [stale EXCEPT ![p] = Len(pend[p])]
          /\ told' = IF known
                     THEN Told("EXIT", (CHOOSE app \in {mAppList[i] : i \in DOMAIN mAppList} :
                                           app.pid = p).name)
                     ELSE told
    /\ UNCHANGED <<handlerVars, receivers>>

\* (Faulty: `if' for `while' around waitpid().)
ReapedOne == reaping

Reaped == reaping /\ \A p \in Pid : child[p] # "ENDED"

SigChldReturns ==
    /\ Reaped
    /\ reaping' = FALSE
    /\ UNCHANGED <<listVars, sigchld, boot, castVars, stale>>

-----------------------------------------------------------------------------
(* mReceivers.                                                             *)

RegisterReceiver(r, a) ==
    /\ Idle
    /\ Len(receivers[a]) < Cardinality(Watcher) + MaxGuests
    /\ receivers' = [receivers EXCEPT ![a] = Append(@, r)]
    /\ UNCHANGED <<listVars, handlerVars, told, stale>>

\* (Faulty: the first one is erased, whoever it is.)
EraseFirst(list, r) == IF list = <<>> THEN list ELSE Tail(list)

\* The first registration of a receiver for an action is erased.
EraseOne(list, r) ==
    LET at == {i \in DOMAIN list : list[i] = r}
    IN IF at = {} THEN list
       ELSE [k \in 1..(Len(list) - 1) |-> IF k < First(at) THEN list[k] ELSE list[k + 1]]

UnregisterReceiver(r) ==
    /\ Idle
    /\ receivers' = [a \in Action |-> EraseOne(receivers[a], r)]
    /\ UNCHANGED <<listVars, handlerVars, told, stale>>

-----------------------------------------------------------------------------
Next ==
    \/ BootNext
    \/ \E n \in WithActivity : StartActivity(n)
    \/ \E n \in WithService : StartService(n)
    \/ \E p \in Pid : CallAttach(p) \/ End(p) \/ AttachApplication(p) \/ Reap(p)
    \/ StopApplication \/ FinishActivity \/ ReportDestroyed
    \/ SigChld \/ SigChldReturns
    \/ \E r \in Guest : UnregisterReceiver(r) \/ \E a \in Action : RegisterReceiver(r, a)

Spec == Init /\ [][Next]_vars

(* The loop of the service polls its signals and the binder in every turn, *)
(* however often either is busy, a child that is launched calls            *)
(* attachApplication() or ends, and one that was asked to end ends.        *)
Fairness ==
    /\ WF_vars(BootNext)
    /\ WF_vars(SigChld)
    /\ WF_vars(SigChldReturns)
    /\ \A p \in Pid : /\ WF_vars(CallAttach(p))
                      /\ SF_vars(AttachApplication(p))
                      /\ WF_vars(Reap(p))
                      /\ WF_vars(EndAsked(p))

FairSpec == Spec /\ Fairness

-----------------------------------------------------------------------------
(* The two lists, which are searched by name here and by pid there, know    *)
(* every process that has not been waited for, once; and of the processes   *)
(* of one name at most one may be given components, be it on its way or     *)
(* running, whatever ends, is stopped and is launched again meanwhile.      *)
Pids(list) == {list[i].pid : i \in DOMAIN list}

Sound(list, wait, kids) ==
    /\ Pids(list) \cap Pids(wait) = {}
    /\ Pids(list) \cup Pids(wait) = {p \in Pid : kids[p] # "NONE"}
    /\ \A i, j \in DOMAIN list : list[i].pid = list[j].pid => i = j
    /\ \A i, j \in DOMAIN wait : wait[i].pid = wait[j].pid => i = j
    /\ \A n \in Name : /\ Alive(list, n) = {} \/ Attaching(wait, n) = {}
                       /\ \A i, j \in Alive(list, n) : i = j
                       /\ \A i, j \in Attaching(wait, n) : i = j

ListsAreSound == Sound(mAppList, mAppWaitingAttach, child)

(* Every task that waits for a process waits for one that was launched      *)
(* under the name the task is for and has not attached, unless the process  *)
(* has ended: only then may another one with its pid execute it.            *)
Awaited(wait, tasks, ended) ==
    \A p \in Pid : \A k \in (ended[p] + 1)..Len(tasks[p]) :
        \E i \in DOMAIN wait : wait[i] = [name |-> tasks[p][k].name, pid |-> p]

TasksAwaitTheirProcess == Awaited(mAppWaitingAttach, pend, stale)

(* A receiver that has been registered for both broadcasts from the start   *)
(* knows from them how many processes of a name are attached, whatever      *)
(* other receivers do: both ends of every process are broadcast, once, and  *)
(* the end of one that never attached is not.                               *)
WatchersAgree ==
    \A w \in Watcher, n \in Name :
        told[w][n] = Cardinality({i \in DOMAIN mAppList : mAppList[i].name = n})

(* The two lists and the status implement ProcessLife.                      *)
PhaseIn(list, wait, p) ==
    IF Has(wait, p) THEN "launching"
    ELSE IF HasIn(list, p, "RUNNING") THEN "live"
    ELSE IF HasIn(list, p, "STOPPING") THEN "stopping"
    ELSE "free"

Phase(p) == PhaseIn(mAppList, mAppWaitingAttach, p)

Life == INSTANCE ProcessLife WITH phase <- [p \in Pid |-> Phase(p)]
LivesItsLife == Life!Spec

(* No process stays between two states: one that is waited for attaches or  *)
(* is given up, one that is asked to end leaves the list, and an end is     *)
(* noticed although signals merge.                                          *)
EveryProcessSettles ==
    \A p \in Pid : /\ Phase(p) = "launching" ~> (Phase(p) # "launching" \/ stale[p] > 0)
                   /\ Phase(p) = "stopping" ~> Phase(p) # "stopping"
                   /\ child[p] = "ENDED" ~> child[p] # "ENDED"

(* What systemReady() starts is launched, or waits for its process: "to     *)
(* start Activity and Service", says the code of both boot broadcasts.      *)
Launched(target) ==
    \/ \E p \in Pid : \E k \in DOMAIN pend[p] : pend[p][k] = target
    \/ \E i \in DOMAIN mAppList :
          /\ mAppList[i].name = target.name
          /\ mAppList[i].parts[IF target.kind = "ACTIVITY" THEN "front" ELSE "services"] > 0

BootIsStarted == [][boot' # boot => Launched(Head(boot))']_vars
=============================================================================

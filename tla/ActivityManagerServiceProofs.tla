---------------------- MODULE ActivityManagerServiceProofs ----------------------
(***************************************************************************)
(* Proofs about ActivityManagerService, the composition of the heap of     *)
(* activities, tasks and processes with both task managers: its types;     *)
(* that stacks are sound if only activities on a stack are finished; that  *)
(* no handler is undefined if besides the home screen stays and the system *)
(* UI uses new tasks; that without a system UI no stack holds an activity  *)
(* whose process has ended, and only a late timeout resumes an activity    *)
(* that is not shown.                                                      *)
(*                                                                         *)
(* ActivityInvariant defines Inv, the inductive invariant of the heap.     *)
(* The handlers of the service are compositions of operations on the heap, *)
(* and the proofs follow them upwards: what a transition, a deletion, a    *)
(* loop over a stack leaves alone (Calm, Moves, SameLists); what an        *)
(* operation of a manager keeps of Fine, where X names the activities on   *)
(* their way out; then one lemma for each action.  The last sections go    *)
(* the same way for what activities are asked for.                         *)
(***************************************************************************)
EXTENDS ActivityInvariant, SequenceLemmas, TLAPS

USE DEF ERROR, INIT, CREATING, CREATED, STARTING, STARTED, RESUMING, RESUMED, PAUSING, PAUSED,
        STOPPING, STOPPED, DESTROYING, DESTROYED

-----------------------------------------------------------------------------
(* The types of the parts of a heap.                                       *)

\* The types of the parts of a heap.
LEMMA HeapParts ==
    ASSUME NEW w \in HeapType
    PROVE  /\ w.act \in [Activity -> ActivityType] /\ w.activities \in 0..MaxActivities
           /\ w.stack \in [Task -> Seq(Activity)] /\ w.tag \in [Task -> Tags]
           /\ w.tasks \in 0..MaxTasks
           /\ w.proc \in [Proc -> ProcType] /\ w.procs \in 0..MaxProcs
           /\ w.mAllTasks \in Seq(Task) /\ w.mHomeTask \in 0..MaxTasks
           /\ w.mSystemUITasks \in Seq(Task)
           /\ w.pend \in Seq(PendType) /\ w.launch \in Seq(LaunchType) /\ w.undefined \in BOOLEAN
           /\ \A x \in Activity : w.act[x] \in ActivityType
           /\ \A t \in Task : w.stack[t] \in Seq(Activity)
           /\ \A p \in Proc : w.proc[p] \in ProcType
BY DEF HeapType

\* The types of the fields of an activity.
LEMMA ActParts ==
    ASSUME NEW a \in ActivityType
    PROVE  /\ a.name \in Name \union {"none"} /\ a.mStatus \in -1..DESTROYED
           /\ a.mTargetStatus \in Status /\ a.mIsError \in BOOLEAN
           /\ a.mInTask \in 0..MaxTasks /\ a.mApp \in 0..MaxProcs /\ a.mapped \in BOOLEAN
           /\ a.client \in Reports \union {INIT}
           /\ a.mApp # 0 => a.mApp \in Proc
           /\ a.mInTask # 0 => a.mInTask \in Task
BY BoundsAssumption DEF ActivityType, Proc, Task

\* The types of the fields of a process.
LEMMA ProcParts ==
    ASSUME NEW y \in ProcType
    PROVE  /\ y.mStatus \in {"NONE", "ATTACHING", "RUNNING", "STOPPING", "STOPPED"}
           /\ y.mExistActivity \in Seq(Activity) /\ y.mForegroundActivityCnt \in Int
           /\ y.foreground \in BOOLEAN /\ y.sent \in Seq(Calls) /\ y.terminating \in BOOLEAN
           /\ y.package \in Packages \union {"none"}
BY DEF ProcType

\* The types of the fields of a pending task.
LEMMA PendParts ==
    ASSUME NEW w \in HeapType, NEW e \in ToSet(w.pend)
    PROVE  /\ e \in PendType /\ e.kind \in {"LIFECYCLE", "WAIT_RESUME", "DELAY_DESTROY"}
           /\ e.of \in Activity /\ e.other \in 0..MaxActivities
           /\ e.other # 0 => e.other \in Activity
<1>1. w.pend \in Seq(PendType)
  BY HeapParts
<1>2. e \in PendType
  BY <1>1, ElementsFacts
<1>3. QED
  BY <1>2, BoundsAssumption DEF PendType, Activity

-----------------------------------------------------------------------------
(* What changing one part of a heap leaves.                                *)

\* Assigning an activity changes nothing else.
LEMMA ActSet ==
    ASSUME NEW w \in HeapType, NEW x \in Activity, NEW a \in ActivityType
    PROVE  LET v == [w EXCEPT !.act[x] = a]
           IN /\ v \in HeapType /\ SameButAct(w, v) /\ v.act[x] = a
              /\ \A y \in Activity : y # x => v.act[y] = w.act[y]
BY DEF HeapType, SameButAct

\* Assigning a process changes nothing else.
LEMMA ProcSet ==
    ASSUME NEW w \in HeapType, NEW p \in Proc, NEW y \in ProcType
    PROVE  LET v == [w EXCEPT !.proc[p] = y]
           IN /\ v \in HeapType /\ SameButProc(w, v) /\ v.proc[p] = y
              /\ \A q \in Proc : q # p => v.proc[q] = w.proc[q]
BY DEF HeapType, SameButProc

\* Setting the status of an activity.
LEMMA StatusSet ==
    ASSUME NEW w \in HeapType, NEW x \in Activity, NEW s \in Status
    PROVE  LET v == [w EXCEPT !.act[x].mStatus = s]
           IN /\ v \in HeapType /\ SameButAct(w, v)
              /\ v.act[x] = [w.act[x] EXCEPT !.mStatus = s]
              /\ \A y \in Activity : y # x => v.act[y] = w.act[y]
<1> DEFINE a == [w.act[x] EXCEPT !.mStatus = s]
<1>1. a \in ActivityType
  <2>1. w.act[x] \in ActivityType /\ s \in -1..DESTROYED
    BY HeapParts DEF Status, INIT, DESTROYED
  <2>2. QED
    BY <2>1 DEF ActivityType
<1>2. [w EXCEPT !.act[x].mStatus = s] = [w EXCEPT !.act[x] = a]
  OBVIOUS
<1> HIDE DEF a
<1>3. QED
  BY <1>1, <1>2, ActSet DEF a

-----------------------------------------------------------------------------
(* Steps that leave the tasks alone.                                        *)

\* A status is a row and a column of the table.
LEMMA StepsOfTable ==
    ASSUME NEW s \in Status, NEW t \in Status
    PROVE  TurnTo(s, t) \in Steps \union {"NONE"}
<1> DEFINE c == ((t + 1) \div 2) + 1
           d == ((s + 1) \div 2) + 1
<1>1. c \in 1..7 /\ d \in 1..7
  BY DEF Status
<1> HIDE DEF c, d
<1>2. lifeCycleTable[d][c] \in Steps \union {"NONE"}
  BY <1>1 DEF lifeCycleTable, Steps
<1>3. QED
  BY <1>2 DEF TurnTo, c, d

\* A step leaves an activity in a status behind INIT.
LEMMA DoingIsLater ==
    ASSUME NEW step \in Steps
    PROVE  Doing(step) \in Status /\ Doing(step) > INIT
BY DEF Steps, Doing, Status

\* A steady step ends no process.
LEMMA FreedStays ==
    ASSUME NEW w \in HeapType, NEW v, Steady(w, v), NEW x \in Activity
    PROVE  Freed(v, x) <=> Freed(w, x)
<1>1. w.act[x].mApp # 0 => w.act[x].mApp \in Proc
  BY HeapParts, ActParts
<1>2. v.act[x].mApp = w.act[x].mApp
  BY DEF Steady
<1>3. CASE w.act[x].mApp = 0
  BY <1>2, <1>3 DEF Freed
<1>4. CASE w.act[x].mApp # 0
  <2>1. \/ v.proc[w.act[x].mApp].mStatus = w.proc[w.act[x].mApp].mStatus
        \/ w.proc[w.act[x].mApp].mStatus = "RUNNING" /\ v.proc[w.act[x].mApp].mStatus = "STOPPING"
    BY <1>1, <1>4 DEF Steady
  <2>2. QED
    BY <1>2, <2>1 DEF Freed
<1>5. QED
  BY <1>3, <1>4

\* Doing nothing is steady.
LEMMA SteadyReflexive ==
    ASSUME NEW w
    PROVE  Steady(w, w) /\ SameTasks(w, w)
BY DEF Steady, SameTasks

\* Two steady steps are one.
LEMMA SteadyTransitive ==
    ASSUME NEW w \in HeapType, NEW u \in HeapType, NEW v, Steady(w, u), Steady(u, v)
    PROVE  /\ Steady(w, v)
           /\ SameTasks(w, u) /\ SameTasks(u, v) => SameTasks(w, v)
<1>1. \A x \in Activity : ~Freed(w, x) /\ Ready(w, x) => Ready(v, x)
  <2> TAKE x \in Activity
  <2>1. Freed(u, x) <=> Freed(w, x)
    BY FreedStays
  <2>2. QED
    BY <2>1 DEF Steady
<1>2. \A p \in Proc : /\ \/ v.proc[p].mStatus = w.proc[p].mStatus
                         \/ w.proc[p].mStatus = "RUNNING" /\ v.proc[p].mStatus = "STOPPING"
                      /\ Exist(w, p) \subseteq Exist(v, p)
  <2> TAKE p \in Proc
  <2>1. /\ \/ u.proc[p].mStatus = w.proc[p].mStatus
           \/ w.proc[p].mStatus = "RUNNING" /\ u.proc[p].mStatus = "STOPPING"
        /\ Exist(w, p) \subseteq Exist(u, p)
    BY DEF Steady
  <2>2. /\ \/ v.proc[p].mStatus = u.proc[p].mStatus
           \/ u.proc[p].mStatus = "RUNNING" /\ v.proc[p].mStatus = "STOPPING"
        /\ Exist(u, p) \subseteq Exist(v, p)
    BY DEF Steady
  <2>3. QED
    BY <2>1, <2>2
<1>3. /\ v.activities = w.activities /\ v.tasks = w.tasks /\ v.procs = w.procs
      /\ v.tag = w.tag /\ v.launch = w.launch
      /\ \A x \in Activity : /\ v.act[x].name = w.act[x].name
                             /\ v.act[x].mInTask = w.act[x].mInTask
                             /\ v.act[x].mApp = w.act[x].mApp
  BY DEF Steady
<1>4. QED
  BY <1>1, <1>2, <1>3 DEF Steady, SameTasks

\* Two calm steps are one.
LEMMA CalmTransitive ==
    ASSUME NEW w, Low(w), NEW u, Calm(w, u), NEW v, Calm(u, v)
    PROVE  Calm(w, v)
BY SteadyTransitive DEF Calm, Low

\* Doing nothing is calm.
LEMMA CalmReflexive ==
    ASSUME NEW w, Low(w)
    PROVE  Calm(w, w)
BY SteadyReflexive DEF Calm

\* Giving up is calm.
LEMMA SetUndefined ==
    ASSUME NEW w, Low(w)
    PROVE  Calm(w, Undefined(w)) /\ Undefined(w).undefined
<1> DEFINE v == Undefined(w)
<1>1. /\ v \in HeapType /\ v.act = w.act /\ v.proc = w.proc /\ v.pend = w.pend /\ v.undefined
      /\ v.activities = w.activities /\ v.tasks = w.tasks /\ v.procs = w.procs
      /\ v.tag = w.tag /\ v.launch = w.launch /\ SameTasks(w, v)
  BY DEF Low, HeapType, Undefined, SameTasks
<1> HIDE DEF v
<1>2. Low(v)
  BY <1>1 DEF Low, ActsOK, ProcOK, PendOK, AppOf, Exist
<1>3. Steady(w, v)
  BY <1>1 DEF Steady, Ready, AppOf, Exist
<1>4. QED
  BY <1>1, <1>2, <1>3 DEF Calm, v

\* A call is added, or the first is taken, and nothing is created twice.
LEMMA CreatesOnceFacts ==
    ASSUME NEW q \in Seq(Calls), CreatesOnce(q)
    PROVE  /\ \A c \in Calls : (c[1] = "CREATE" => c \notin ToSet(q)) => CreatesOnce(Append(q, c))
           /\ q # <<>> => /\ CreatesOnce(Tail(q))
                          /\ Head(q)[1] = "CREATE" => Head(q) \notin ToSet(Tail(q))
<1> DEFINE n == Len(q)
<1>1. n \in Nat /\ DOMAIN q = 1..n /\ \A i \in 1..n : q[i] \in ToSet(q)
  BY ElementsFacts
<1>2. ASSUME NEW c \in Calls, c[1] = "CREATE" => c \notin ToSet(q) PROVE CreatesOnce(Append(q, c))
  <2> DEFINE a == Append(q, c)
  <2>1. /\ DOMAIN a = 1..(n + 1) /\ a[n + 1] = c /\ \A i \in 1..n : a[i] = q[i]
    BY AppendProperties
  <2> HIDE DEF a, n
  <2>2. ASSUME NEW i \in 1..(n + 1), NEW j \in 1..(n + 1), a[i][1] = "CREATE", a[i] = a[j]
                PROVE i = j
    <3>1. CASE i \in 1..n /\ j \in 1..n
      BY <3>1, <2>1, <2>2, <1>1 DEF CreatesOnce
    <3>2. CASE i = n + 1 /\ j \in 1..n
      BY <3>2, <2>1, <2>2, <1>1, <1>2
    <3>3. CASE i \in 1..n /\ j = n + 1
      BY <3>3, <2>1, <2>2, <1>1, <1>2
    <3>4. QED
      BY <3>1, <3>2, <3>3, <1>1
  <2>3. QED
    BY <2>1, <2>2 DEF CreatesOnce, a
<1>3. ASSUME q # <<>>
      PROVE  CreatesOnce(Tail(q)) /\ (Head(q)[1] = "CREATE" => Head(q) \notin ToSet(Tail(q)))
  <2> DEFINE t == Tail(q)
  <2>1. /\ Head(q) = q[1] /\ DOMAIN t = 1..(n - 1) /\ n >= 1
        /\ \A i \in 1..(n - 1) : t[i] = q[i + 1]
    BY <1>1, <1>3, HeadTailProperties, EmptySeq
  <2> HIDE DEF t, n
  <2>2. \A i \in 1..(n - 1) : i + 1 \in 1..n /\ i + 1 # 1
    BY <1>1
  <2>3. CreatesOnce(t)
    <3> SUFFICES ASSUME NEW i \in 1..(n - 1), NEW j \in 1..(n - 1), t[i][1] = "CREATE", t[i] = t[j]
                 PROVE  i = j
      BY <2>1 DEF CreatesOnce
    <3>1. i + 1 = j + 1
      BY <2>1, <2>2, <1>1 DEF CreatesOnce
    <3>2. QED
      BY <3>1
  <2>4. ASSUME Head(q)[1] = "CREATE", Head(q) \in ToSet(t) PROVE FALSE
    <3>1. PICK i \in 1..(n - 1) : t[i] = q[1]
      BY <2>1, <2>4 DEF ToSet
    <3>2. q[i + 1] = q[1] /\ 1 \in 1..n
      BY <3>1, <2>1, <2>2, <1>1
    <3>3. QED
      BY <3>2, <2>1, <2>2, <2>4, <1>1 DEF CreatesOnce
  <2>5. QED
    BY <2>3, <2>4 DEF t
<1>4. QED
  BY <1>2, <1>3

\* Another record for an activity of a process.
LEMMA ActChange ==
    ASSUME NEW w, Low(w), NEW x \in Activity, AppOf(w, x) # 0,
           NEW v \in HeapType, SameButAct(w, v), \A y \in Activity : y # x => v.act[y] = w.act[y],
           v.act[x].name = w.act[x].name, v.act[x].mInTask = w.act[x].mInTask,
           v.act[x].mApp = w.act[x].mApp,
           v.act[x].mStatus = w.act[x].mStatus \/ v.act[x].mStatus > INIT
    PROVE  /\ Low(v)
           /\ \/ Freed(w, x) \/ x \in Exist(w, AppOf(w, x))
              \/ v.act[x].mStatus = w.act[x].mStatus \/ w.act[x].mStatus # INIT
              => Calm(w, v)
<1>1. w \in HeapType /\ v.proc = w.proc /\ v.pend = w.pend
  BY DEF Low, SameButAct
<1>2. \A y \in Activity : AppOf(v, y) = AppOf(w, y)
  BY DEF AppOf
<1>3. \A y \in Activity : v.act[y].mStatus = w.act[y].mStatus \/ v.act[y].mStatus > INIT
  OBVIOUS
<1>4. ASSUME NEW y \in Activity
      PROVE  w.act[y].mStatus >= INIT /\ w.act[y].mStatus \in Int /\ v.act[y].mStatus \in Int
  <2>1. w.act[y] \in ActivityType /\ v.act[y] \in ActivityType
    BY <1>1, HeapParts
  <2>2. w.act[y].mStatus >= INIT
    BY DEF Low, ActsOK
  <2>3. QED
    BY <2>1, <2>2, ActParts
<1>5. ActsOK(v)
  <2> SUFFICES ASSUME NEW y \in Activity
               PROVE  /\ v.act[y].mStatus >= INIT
                      /\ AppOf(v, y) = 0 => v.act[y].mStatus = INIT
                      /\ AppOf(v, y) # 0
                                    => v.proc[AppOf(v, y)].mStatus \in {"RUNNING", "STOPPING", "STOPPED"}
    BY DEF ActsOK
  <2>1. /\ AppOf(w, y) = 0 => w.act[y].mStatus = INIT
        /\ AppOf(w, y) # 0 => w.proc[AppOf(w, y)].mStatus \in {"RUNNING", "STOPPING", "STOPPED"}
    BY DEF Low, ActsOK
  <2>2. y = x => AppOf(w, y) # 0
    OBVIOUS
  <2>3. QED
    BY <2>1, <2>2, <1>1, <1>2, <1>3, <1>4
<1>6. ASSUME NEW p \in Proc PROVE ProcOK(v, p)
  <2>1. ProcOK(w, p)
    BY DEF Low
  <2>2. Exist(w, p) \subseteq Activity /\ Exist(v, p) = Exist(w, p)
    BY <1>1, HeapParts, ProcParts, ElementsFacts DEF Exist
  <2>3. \A c \in ToSet(w.proc[p].sent) : c[1] \in Steps => c[2] \in Activity
    <3>1. \A c \in ToSet(w.proc[p].sent) : c \in Calls
      BY <1>1, HeapParts, ProcParts, ElementsFacts
    <3>2. QED
      BY <3>1 DEF Calls, Steps
  <2>4. QED
    BY <2>1, <2>2, <2>3, <1>1, <1>2, <1>3 DEF ProcOK
<1>7. PendOK(v)
  <2>1. \A e \in ToSet(w.pend) : e.of \in Activity /\ (e.other # 0 => e.other \in Activity)
    BY <1>1, PendParts
  <2>2. QED
    BY <2>1, <1>1, <1>2 DEF Low, PendOK
<1>8. Low(v)
  BY <1>5, <1>6, <1>7 DEF Low
<1>9. ASSUME \/ Freed(w, x) \/ x \in Exist(w, AppOf(w, x))
             \/ v.act[x].mStatus = w.act[x].mStatus \/ w.act[x].mStatus # INIT
      PROVE  Calm(w, v)
  <2>1. \A p \in Proc : Exist(v, p) = Exist(w, p)
    BY <1>1 DEF Exist
  <2>2. \A y \in Activity : AppOf(w, y) # 0 => AppOf(w, y) \in Proc
    BY <1>1, HeapParts, ActParts DEF AppOf
  <2>3. ASSUME NEW y \in Activity, ~Freed(w, y), Ready(w, y) PROVE Ready(v, y)
    BY <2>1, <2>2, <2>3, <1>2, <1>9 DEF Ready, Freed, AppOf
  <2>4. Steady(w, v) /\ SameTasks(w, v)
    BY <2>1, <2>3, <1>1 DEF Steady, SameTasks, SameButAct
  <2>5. QED
    BY <2>4, <1>8 DEF Calm
<1>10. QED
  BY <1>8, <1>9

\* Another record for a process.
LEMMA ProcChange ==
    ASSUME NEW w, Low(w), NEW p \in Proc,
           NEW v \in HeapType, SameButProc(w, v), \A q \in Proc : q # p => v.proc[q] = w.proc[q],
           \/ v.proc[p].mStatus = w.proc[p].mStatus
           \/ w.proc[p].mStatus = "RUNNING" /\ v.proc[p].mStatus \in {"STOPPING", "STOPPED"}
           \/ w.proc[p].mStatus = "STOPPING" /\ v.proc[p].mStatus = "STOPPED",
           ProcOK(v, p)
    PROVE  /\ Low(v)
           /\ v.proc[p].mStatus \in {w.proc[p].mStatus, "STOPPING"}
                         /\ Exist(w, p) \subseteq Exist(v, p)
                => Calm(w, v)
<1>1. w \in HeapType /\ v.act = w.act /\ v.pend = w.pend
  BY DEF Low, SameButProc
<1>2. \A x \in Activity : AppOf(w, x) # 0 => AppOf(w, x) \in Proc
  BY <1>1, HeapParts, ActParts DEF AppOf
<1>3. ActsOK(v)
  BY <1>1, <1>2 DEF Low, ActsOK, AppOf
<1>4. \A q \in Proc : ProcOK(v, q)
  BY <1>1 DEF Low, ProcOK, AppOf, Exist
<1>5. PendOK(v)
  BY <1>1 DEF Low, PendOK, AppOf
<1>6. Low(v)
  BY <1>3, <1>4, <1>5 DEF Low
<1>7. SUFFICES ASSUME v.proc[p].mStatus \in {w.proc[p].mStatus, "STOPPING"}, Exist(w, p) \subseteq Exist(v, p)
               PROVE  Calm(w, v)
  BY <1>6
<1>8. QED
  <2>1. \A q \in Proc : /\ \/ v.proc[q].mStatus = w.proc[q].mStatus
                           \/ w.proc[q].mStatus = "RUNNING" /\ v.proc[q].mStatus = "STOPPING"
                        /\ Exist(w, q) \subseteq Exist(v, q)
    BY <1>7 DEF Exist
  <2>2. \A x \in Activity : ~Freed(w, x) /\ Ready(w, x) => Ready(v, x)
    BY <1>1, <1>2, <2>1 DEF Ready, Freed, AppOf
  <2>3. Steady(w, v) /\ SameTasks(w, v)
    BY <2>1, <2>2, <1>1 DEF Steady, SameTasks, SameButProc
  <2>4. QED
    BY <2>3, <1>6 DEF Calm

\* Other pending tasks.
LEMMA PendChange ==
    ASSUME NEW w, Low(w), NEW q \in Seq(PendType),
           \A e \in ToSet(q) : /\ AppOf(w, e.of) # 0
                               /\ e.kind # "LIFECYCLE" => e.other # 0 /\ AppOf(w, e.other) # 0
    PROVE  LET v == [w EXCEPT !.pend = q]
           IN /\ Calm(w, v) /\ v.undefined = w.undefined /\ v.act = w.act /\ v.proc = w.proc
              /\ v.pend = q
<1> DEFINE v == [w EXCEPT !.pend = q]
<1>1. /\ v \in HeapType /\ v.act = w.act /\ v.proc = w.proc /\ v.pend = q
      /\ v.activities = w.activities /\ v.tasks = w.tasks /\ v.procs = w.procs
      /\ v.tag = w.tag /\ v.launch = w.launch /\ SameTasks(w, v) /\ v.undefined = w.undefined
  BY DEF Low, HeapType, SameTasks
<1> HIDE DEF v
<1>2. Low(v)
  BY <1>1 DEF Low, ActsOK, ProcOK, PendOK, AppOf, Exist
<1>3. Steady(w, v)
  BY <1>1 DEF Steady, Ready, AppOf, Exist
<1>4. QED
  BY <1>1, <1>2, <1>3 DEF Calm, v

-----------------------------------------------------------------------------
(* The calls on one activity of a process leave the tasks alone.            *)

\* Doing nothing is quiet.
LEMMA QuietReflexive ==
    ASSUME NEW w, Low(w)
    PROVE  Quiet(w, w)
BY CalmReflexive DEF Quiet

\* Two quiet steps are one.
LEMMA QuietTransitive ==
    ASSUME NEW w, Low(w), NEW u, Quiet(w, u), NEW v, Quiet(u, v)
    PROVE  Quiet(w, v)
BY CalmTransitive DEF Quiet

\* A calm step keeps the activities' processes.
LEMMA QuietKeepsApp ==
    ASSUME NEW w, NEW v, Calm(w, v)
    PROVE  /\ Low(v)
           /\ \A x \in Activity : AppOf(v, x) = AppOf(w, x)
BY DEF Calm, Steady, AppOf

\* What a status is set to, once its step is scheduled.
LEMMA TargetQuiet ==
    ASSUME NEW w, Low(w), NEW x \in Activity, AppOf(w, x) # 0, NEW s \in Status
    PROVE  Quiet(w, [w EXCEPT !.act[x].mTargetStatus = s])
<1> DEFINE a == [w.act[x] EXCEPT !.mTargetStatus = s]
           v == [w EXCEPT !.act[x] = a]
<1>1. a \in ActivityType /\ w \in HeapType
  <2>1. w.act[x] \in ActivityType /\ w \in HeapType
    BY HeapParts DEF Low
  <2>2. QED
    BY <2>1 DEF ActivityType
<1>2. [w EXCEPT !.act[x].mTargetStatus = s] = v
  OBVIOUS
<1>3. /\ a.name = w.act[x].name /\ a.mInTask = w.act[x].mInTask /\ a.mApp = w.act[x].mApp
      /\ a.mStatus = w.act[x].mStatus
  BY <1>1, HeapParts DEF ActivityType
<1> HIDE DEF a
<1>4. /\ v \in HeapType /\ SameButAct(w, v) /\ v.act[x] = a
      /\ \A y \in Activity : y # x => v.act[y] = w.act[y]
  BY <1>1, ActSet
<1> HIDE DEF v
<1>5. Calm(w, v)
  BY <1>3, <1>4, ActChange
<1>6. QED
  BY <1>2, <1>4, <1>5 DEF Quiet, SameButAct

\* Assigning a status.
LEMMA StatusQuiet ==
    ASSUME NEW w, Low(w), NEW x \in Activity, AppOf(w, x) # 0, NEW s \in Status, s > INIT
    PROVE  LET v == [w EXCEPT !.act[x].mStatus = s]
           IN /\ Low(v)
              /\ Freed(w, x) \/ x \in Exist(w, AppOf(w, x)) \/ w.act[x].mStatus # INIT
                            => Quiet(w, v)
<1> DEFINE v == [w EXCEPT !.act[x].mStatus = s]
<1>1. w \in HeapType
  BY DEF Low
<1>2. /\ v \in HeapType /\ SameButAct(w, v)
      /\ v.act[x] = [w.act[x] EXCEPT !.mStatus = s]
      /\ \A y \in Activity : y # x => v.act[y] = w.act[y]
  BY <1>1, StatusSet
<1>3. /\ v.act[x].name = w.act[x].name /\ v.act[x].mInTask = w.act[x].mInTask
      /\ v.act[x].mApp = w.act[x].mApp /\ v.act[x].mStatus = s
  BY <1>1, <1>2, HeapParts DEF ActivityType
<1> HIDE DEF v
<1>4. /\ Low(v)
      /\ \/ Freed(w, x) \/ x \in Exist(w, AppOf(w, x))
         \/ v.act[x].mStatus = w.act[x].mStatus \/ w.act[x].mStatus # INIT
         => Calm(w, v)
  <2>1. v.act[x].mStatus = w.act[x].mStatus \/ v.act[x].mStatus > INIT
    BY <1>3
  <2>2. QED
    BY <2>1, <1>2, <1>3, ActChange
<1>5. QED
  BY <1>2, <1>4 DEF Quiet, SameButAct, v

\* A oneway call on its way to the client.
LEMMA SendQuiet ==
    ASSUME NEW w, Low(w), NEW p \in Proc, NEW c \in Calls,
           c[1] \in Steps => AppOf(w, c[2]) = p,
           c[1] = "CREATE" => w.act[c[2]].mStatus > INIT /\ c \notin ToSet(w.proc[p].sent)
    PROVE  /\ Quiet(w, Send(w, p, c))
           /\ Send(w, p, c).proc[p] = [w.proc[p] EXCEPT !.sent = Append(w.proc[p].sent, c)]
<1> DEFINE q == Append(w.proc[p].sent, c)
           y == [w.proc[p] EXCEPT !.sent = q]
           v == [w EXCEPT !.proc[p] = y]
<1>1. w \in HeapType /\ w.proc[p] \in ProcType /\ w.proc[p].sent \in Seq(Calls) /\ ProcOK(w, p)
  BY HeapParts, ProcParts DEF Low
<1>2. q \in Seq(Calls) /\ ToSet(q) = ToSet(w.proc[p].sent) \union {c}
  BY <1>1, AppendFacts
<1>3. y \in ProcType /\ y.sent = q /\ y.mStatus = w.proc[p].mStatus
              /\ y.mExistActivity = w.proc[p].mExistActivity
  BY <1>1, <1>2 DEF ProcType
<1>4. Send(w, p, c) = v
  BY DEF Send
<1>5. CreatesOnce(q)
  BY <1>1, CreatesOnceFacts DEF ProcOK
<1> HIDE DEF y, q
<1>6. /\ v \in HeapType /\ SameButProc(w, v) /\ v.proc[p] = y
      /\ \A r \in Proc : r # p => v.proc[r] = w.proc[r]
  BY <1>1, <1>3, ProcSet
<1> HIDE DEF v
<1>7. ProcOK(v, p)
  <2>1. v.act = w.act
    BY <1>6 DEF SameButProc
  <2>2. \A d \in ToSet(q) : d[1] \in Steps => /\ AppOf(w, d[2]) = p
                                              /\ d[1] = "CREATE" => w.act[d[2]].mStatus > INIT
    BY <1>1, <1>2 DEF ProcOK
  <2>3. QED
    BY <1>1, <1>3, <1>5, <1>6, <2>1, <2>2 DEF ProcOK, AppOf, Exist
<1>8. Calm(w, v)
  BY <1>3, <1>6, <1>7, ProcChange DEF Exist
<1>9. QED
  BY <1>4, <1>6, <1>8 DEF Quiet, SameButProc, y, q

\* Only create() is for an activity that has not been created.
LEMMA AllowsFacts ==
    ASSUME NEW step \in Steps, step # "CREATE", NEW s \in Int, Allows(step, s)
    PROVE  s # INIT
<1>1. CASE step = "START"
  BY <1>1 DEF Allows
<1>2. CASE step = "RESUME"
  BY <1>2 DEF Allows
<1>3. CASE step = "PAUSE"
  BY <1>3 DEF Allows
<1>4. CASE step = "STOP"
  BY <1>4 DEF Allows
<1>5. CASE step = "DESTROY"
  BY <1>5 DEF Allows
<1>6. QED
  BY <1>1, <1>2, <1>3, <1>4, <1>5 DEF Steps

\* create() ... destroy(); a process that is there knows its activity from create() on.
LEMMA ScheduleQuiet ==
    ASSUME NEW w, Low(w), NEW x \in Activity, AppOf(w, x) # 0, NEW step \in Steps
    PROVE  LET v == Schedule(w, x, step)
           IN /\ Quiet(w, v)
              /\ step = "CREATE" /\ w.act[x].mStatus = INIT /\ ~Freed(w, x)
                            => x \in Exist(v, AppOf(w, x))
<1> DEFINE v == Schedule(w, x, step)
           doing == [w EXCEPT !.act[x].mStatus = Doing(step)]
           p == w.act[x].mApp
           c == <<step, x>>
<1>1. /\ w \in HeapType /\ p \in Proc /\ p = AppOf(w, x) /\ Doing(step) \in Status
              /\ Doing(step) > INIT
      /\ w.act[x].mStatus \in Int /\ w.act[x].mStatus >= INIT
  <2>1. w \in HeapType /\ w.act[x].mStatus >= INIT
    BY DEF Low, ActsOK
  <2>2. w.act[x] \in ActivityType
    BY <2>1, HeapParts
  <2>3. QED
    BY <2>1, <2>2, ActParts, DoingIsLater DEF AppOf
<1>2. /\ doing \in HeapType /\ SameButAct(w, doing)
      /\ doing.act[x] = [w.act[x] EXCEPT !.mStatus = Doing(step)]
      /\ \A y \in Activity : y # x => doing.act[y] = w.act[y]
  BY <1>1, StatusSet
<1>3. /\ Low(doing)
      /\ Freed(w, x) \/ w.act[x].mStatus # INIT => Quiet(w, doing)
  BY <1>1, StatusQuiet
<1>4. /\ doing.act[x].mStatus > INIT /\ doing.act[x].mApp = p /\ doing.proc = w.proc
      /\ doing.act[x].name = w.act[x].name /\ doing.act[x].mInTask = w.act[x].mInTask
  BY <1>1, <1>2, HeapParts DEF ActivityType, SameButAct
<1>5. c \in Calls /\ c[1] = step /\ c[2] = x
  BY DEF Calls
<1>6. CASE ~Allows(step, w.act[x].mStatus)
  <2>1. v = w
    BY <1>6 DEF Schedule
  <2>2. ~(step = "CREATE" /\ w.act[x].mStatus = INIT)
    BY <1>6 DEF Allows
  <2>3. QED
    BY <2>1, <2>2, QuietReflexive
<1>7. CASE Allows(step, w.act[x].mStatus) /\ Freed(w, x)
  <2>1. v = doing
    BY <1>7 DEF Schedule
  <2>2. QED
    BY <2>1, <1>3, <1>7
<1>8. CASE Allows(step, w.act[x].mStatus) /\ ~Freed(w, x) /\ step # "CREATE"
  <2>1. v = Send(doing, p, c)
    BY <1>8 DEF Schedule
  <2>2. w.act[x].mStatus # INIT
    BY <1>1, <1>8, AllowsFacts
  <2>3. Quiet(w, doing) /\ Low(doing) /\ AppOf(doing, x) = p
    BY <2>2, <1>3, <1>4 DEF AppOf
  <2> HIDE DEF doing, p, c, v
  <2>4. Quiet(doing, Send(doing, p, c))
    BY <2>3, <1>1, <1>5, <1>8, SendQuiet
  <2>5. Quiet(w, v)
    BY <2>1, <2>3, <2>4, QuietTransitive
  <2>6. QED
    BY <2>5, <1>8 DEF v
<1>9. CASE Allows(step, w.act[x].mStatus) /\ ~Freed(w, x) /\ step = "CREATE"
  <2> DEFINE e == Append(w.proc[p].mExistActivity, x)
             y == [w.proc[p] EXCEPT !.mExistActivity = e]
             added == [doing EXCEPT !.proc[p] = y]
  <2>1. v = Send(added, p, c)
    <3>1. [doing EXCEPT !.proc[p].mExistActivity = Append(@, x)] = added
      BY <1>4
    <3>2. QED
      BY <1>9, <3>1 DEF Schedule
  <2>2. w.act[x].mStatus = INIT
    BY <1>9 DEF Allows
  <2>3. /\ w.proc[p] \in ProcType /\ ProcOK(w, p) /\ w.proc[p].mExistActivity \in Seq(Activity)
        /\ \A d \in ToSet(w.proc[p].sent) : d \in Calls
    BY <1>1, HeapParts, ProcParts, ElementsFacts DEF Low
  <2>4. e \in Seq(Activity) /\ ToSet(e) = ToSet(w.proc[p].mExistActivity) \union {x}
    BY <2>3, AppendFacts
  <2>5. /\ y \in ProcType /\ y.mExistActivity = e /\ y.mStatus = w.proc[p].mStatus
        /\ y.sent = w.proc[p].sent
    BY <2>3, <2>4 DEF ProcType
  <2> HIDE DEF y, e
  <2>6. /\ added \in HeapType /\ SameButProc(doing, added) /\ added.proc[p] = y
        /\ \A q \in Proc : q # p => added.proc[q] = doing.proc[q]
    <3>1. doing \in HeapType /\ p \in Proc /\ y \in ProcType
      BY <2>5, <1>1, <1>2
    <3> HIDE DEF doing, p
    <3>2. QED
      BY <3>1, ProcSet
  <2>7. ~(w.proc[p].mStatus = "STOPPED") /\ c \notin ToSet(w.proc[p].sent)
    BY <1>9, <1>5, <2>2, <2>3, <1>1 DEF Freed, ProcOK, Steps
  <2> HIDE DEF added, doing, v, p, c
  <2>8. ProcOK(added, p)
    <3>1. ProcOK(doing, p) /\ added.act = doing.act /\ AppOf(doing, x) = p
      BY <1>1, <1>3, <1>4, <2>6 DEF Low, SameButProc, AppOf
    <3>2. \A z \in ToSet(e) : AppOf(added, z) = p
      BY <3>1, <2>4, <1>4 DEF ProcOK, AppOf, Exist
    <3>3. QED
      BY <3>1, <3>2, <2>5, <2>6, <2>7, <1>4 DEF ProcOK, AppOf, Exist
  <2>9. Calm(doing, added)
    <3>1. Exist(doing, p) \subseteq Exist(added, p)
      BY <2>4, <2>5, <2>6, <1>4 DEF Exist
    <3>2. QED
      BY <3>1, <2>5, <2>6, <2>8, <1>1, <1>3, <1>4, ProcChange
  <2>10. /\ Quiet(added, v)
         /\ v.proc[p] = [added.proc[p] EXCEPT !.sent = Append(added.proc[p].sent, c)]
    <3>1. Low(added) /\ AppOf(added, x) = p /\ added.act[x].mStatus > INIT
                  /\ c \notin ToSet(added.proc[p].sent)
      BY <2>5, <2>6, <2>7, <2>9, <1>4 DEF Calm, AppOf, SameButProc
    <3>2. QED
      BY <3>1, <2>1, <1>1, <1>5, SendQuiet
  <2>11. x \in Exist(v, p)
    <3>1. added.proc[p] \in ProcType
      BY <2>5, <2>6
    <3>2. v.proc[p].mExistActivity = e
      BY <3>1, <2>5, <2>6, <2>10 DEF ProcType
    <3>3. QED
      BY <3>2, <2>4 DEF Exist
  <2>12. Steady(doing, v) /\ SameTasks(doing, v) /\ Low(v) /\ v.undefined = w.undefined
    <3>1. Calm(doing, v)
      BY <2>9, <2>10, <1>3, CalmTransitive DEF Quiet
    <3>2. QED
      BY <3>1, <2>6, <2>10, <1>2 DEF Calm, Quiet, SameButAct, SameButProc
  <2>13. ASSUME NEW z \in Activity, ~Freed(w, z), Ready(w, z) PROVE Ready(v, z)
    <3>1. CASE z = x
      BY <3>1, <2>11, <2>12, <1>4 DEF Ready, Steady, AppOf
    <3>2. CASE z # x
      <4>1. doing.act[z] = w.act[z]
        BY <3>2, <1>2
      <4>2. ~Freed(doing, z) /\ Ready(doing, z)
        BY <2>13, <4>1, <1>4 DEF Freed, Ready, Exist, AppOf
      <4>3. QED
        BY <4>2, <2>12 DEF Steady
    <3>3. QED
      BY <3>1, <3>2
  <2>14. Steady(w, v) /\ SameTasks(w, v)
    <3>1. \A z \in Activity : /\ doing.act[z].name = w.act[z].name
                              /\ doing.act[z].mInTask = w.act[z].mInTask
                              /\ doing.act[z].mApp = w.act[z].mApp
      BY <1>2, <1>4 DEF p
    <3>2. \A q \in Proc : Exist(doing, q) = Exist(w, q) /\ doing.proc[q].mStatus = w.proc[q].mStatus
      BY <1>4 DEF Exist
    <3>3. QED
      BY <3>1, <3>2, <2>12, <2>13, <1>2 DEF Steady, SameTasks, SameButAct
  <2>15. QED
    BY <2>11, <2>12, <2>14, <1>1 DEF Quiet, Calm, v
<1>10. QED
  BY <1>6, <1>7, <1>8, <1>9

-----------------------------------------------------------------------------
(* The pending tasks and the transitions.                                   *)

\* What Waiting finds is the place of a pending task of the kind.
LEMMA WaitingFacts ==
    ASSUME NEW w \in HeapType, NEW kind, NEW x
    PROVE  LET i == Waiting(w, kind, x)
           IN i # 0 => i \in 1..Len(w.pend) /\ w.pend[i].kind = kind /\ w.pend[i].of = x
<1> DEFINE I == {i \in 1..Len(w.pend) : w.pend[i].kind = kind /\ w.pend[i].of = x}
<1>1. w.pend \in Seq(PendType) /\ Len(w.pend) \in Nat
  BY HeapParts
<1>2. Waiting(w, kind, x) = IF I # {} THEN Min(I) ELSE 0
  BY DEF Waiting, SelectInSeq
<1>3. I # {} => Min(I) \in I
  <2>1. I \in SUBSET Nat
    BY <1>1
  <2> HIDE DEF I
  <2>2. QED
    BY <2>1, LeastIsMin
<1>4. Waiting(w, kind, x) = 0 \/ Waiting(w, kind, x) \in I
  <2> HIDE DEF I
  <2>1. QED
    BY <1>2, <1>3
<1>5. QED
  BY <1>4

\* Committing a pending task.
LEMMA CommitQuiet ==
    ASSUME NEW w, Low(w), NEW kind \in {"LIFECYCLE", "WAIT_RESUME", "DELAY_DESTROY"},
           NEW x \in Activity, AppOf(w, x) # 0, NEW y \in 0..MaxActivities,
           kind # "LIFECYCLE" => y # 0 /\ AppOf(w, y) # 0
    PROVE  /\ Quiet(w, Commit(w, kind, x, y))
           /\ Commit(w, kind, x, y).act = w.act /\ Commit(w, kind, x, y).proc = w.proc
<1> DEFINE e == [kind |-> kind, of |-> x, other |-> y]
           q == Append(w.pend, e)
<1>1. w.pend \in Seq(PendType) /\ e \in PendType
  BY HeapParts DEF Low, PendType
<1>2. q \in Seq(PendType) /\ ToSet(q) = ToSet(w.pend) \union {e}
  BY <1>1, AppendFacts
<1>3. \A d \in ToSet(q) : AppOf(w, d.of) # 0 /\ (d.kind # "LIFECYCLE" => d.other # 0
              /\ AppOf(w, d.other) # 0)
  BY <1>2 DEF Low, PendOK
<1>4. Commit(w, kind, x, y) = [w EXCEPT !.pend = q]
  BY DEF Commit
<1> HIDE DEF q
<1>5. QED
  BY <1>2, <1>3, <1>4, PendChange DEF Quiet

\* Taking a pending task.
LEMMA TakenQuiet ==
    ASSUME NEW w, Low(w), NEW i \in 1..Len(w.pend)
    PROVE  Quiet(w, Taken(w, i)) /\ Taken(w, i).act = w.act /\ Taken(w, i).proc = w.proc
<1> DEFINE q == RemoveAt(w.pend, i)
<1>1. w.pend \in Seq(PendType)
  BY HeapParts DEF Low
<1>2. q \in Seq(PendType) /\ ToSet(q) \subseteq ToSet(w.pend)
  BY <1>1, RemovedFacts
<1>3. \A d \in ToSet(q) : AppOf(w, d.of) # 0 /\ (d.kind # "LIFECYCLE" => d.other # 0
              /\ AppOf(w, d.other) # 0)
  BY <1>2 DEF Low, PendOK
<1>4. Taken(w, i) = [w EXCEPT !.pend = q]
  BY DEF Taken
<1> HIDE DEF q
<1>5. QED
  BY <1>2, <1>3, <1>4, PendChange DEF Quiet

\* The status of an activity is one of the table.
LEMMA StatusFacts ==
    ASSUME NEW w, Low(w), NEW x \in Activity
    PROVE  w.act[x].mStatus \in Status
<1>1. w.act[x] \in ActivityType /\ w.act[x].mStatus >= INIT
  BY HeapParts DEF Low, ActsOK
<1>2. QED
  BY <1>1 DEF ActivityType, Status

\* The process of an activity has attached; one that knows the activity has not ended.
LEMMA AppFacts ==
    ASSUME NEW w, Low(w), NEW x \in Activity, AppOf(w, x) # 0
    PROVE  /\ AppOf(w, x) \in Proc /\ w.proc[AppOf(w, x)] \in ProcType
           /\ w.proc[AppOf(w, x)].mStatus \in {"RUNNING", "STOPPING", "STOPPED"}
           /\ x \in Exist(w, AppOf(w, x)) => ~Freed(w, x)
<1>1. w.act[x] \in ActivityType /\ AppOf(w, x) \in Proc
  BY HeapParts, ActParts DEF Low, AppOf
<1>2. /\ w.proc[AppOf(w, x)] \in ProcType /\ ProcOK(w, AppOf(w, x))
      /\ w.proc[AppOf(w, x)].mExistActivity \in Seq(Activity)
      /\ w.proc[AppOf(w, x)].mStatus \in {"RUNNING", "STOPPING", "STOPPED"}
  BY <1>1, HeapParts, ProcParts DEF Low, ActsOK
<1>3. w.proc[AppOf(w, x)].mStatus = "STOPPED" => Exist(w, AppOf(w, x)) = {}
  BY <1>2, ElementsFacts DEF ProcOK, Exist
<1>4. QED
  BY <1>1, <1>2, <1>3 DEF Freed, AppOf

\* A new activity that is to be resumed is created first.
LEMMA ResumedIsCreated == TurnTo(INIT, RESUMED) = "CREATE"
<1>1. (INIT + 1) \div 2 = 0 /\ (RESUMED + 1) \div 2 = 3
  OBVIOUS
<1>2. TurnTo(INIT, RESUMED) = lifeCycleTable[1][4]
  BY <1>1 DEF TurnTo
<1>3. QED
  BY <1>2 DEF lifeCycleTable

\* lifecycleTransition() behind its eventTrigger().  An activity that is to be resumed is
\* created first.
LEMMA TurnQuiet ==
    ASSUME NEW w, Low(w), NEW x \in Activity, AppOf(w, x) # 0, NEW s \in Status
    PROVE  LET v == Turn(w, x, s)
           IN /\ Quiet(w, v)
              /\ s = RESUMED /\ ~Freed(w, x) /\ Ready(w, x) => x \in Exist(v, AppOf(w, x))
<1> DEFINE r == w.act[x].mStatus
           step == TurnTo(r, s)
           v == Turn(w, x, s)
           u == Schedule(w, x, step)
           z == [u EXCEPT !.act[x].mTargetStatus = s]
<1>1. r \in Status /\ step \in Steps \union {"NONE"} /\ AppOf(w, x) \in Proc
  BY StatusFacts, StepsOfTable, AppFacts
<1>2. CASE Busy(r)
  <2>1. v = [w EXCEPT !.act[x].mTargetStatus = s]
    BY <1>2 DEF Turn
  <2>2. Quiet(w, v)
    BY <2>1, TargetQuiet
  <2>3. Ready(w, x) => x \in Exist(w, AppOf(w, x))
    BY <1>2 DEF Ready, Busy
  <2> HIDE DEF v
  <2>4. QED
    BY <2>2, <2>3, <1>1 DEF Quiet, Calm, Steady, v
<1>3. CASE ~Busy(r) /\ step = "NONE"
  <2>1. v = w
    BY <1>3 DEF Turn
  <2>2. s = RESUMED => r # INIT
    BY <1>3, ResumedIsCreated
  <2>3. QED
    BY <2>1, <2>2, QuietReflexive DEF Ready
<1>4. CASE ~Busy(r) /\ step # "NONE"
  <2>1. v = Commit(z, "LIFECYCLE", x, 0)
    BY <1>4 DEF Turn
  <2>2. /\ Quiet(w, u)
        /\ step = "CREATE" /\ r = INIT /\ ~Freed(w, x) => x \in Exist(u, AppOf(w, x))
    BY <1>1, <1>4, ScheduleQuiet
  <2>3. s = RESUMED /\ r = INIT => step = "CREATE"
    BY ResumedIsCreated
  <2> HIDE DEF u, r, step, v
  <2>4. Low(u) /\ AppOf(u, x) # 0
    BY <2>2, QuietKeepsApp DEF Quiet
  <2>5. Quiet(u, z)
    BY <2>4, TargetQuiet
  <2> HIDE DEF z
  <2>6. Low(z) /\ AppOf(z, x) # 0
    BY <2>4, <2>5, QuietKeepsApp DEF Quiet
  <2>7. Quiet(z, v)
    <3>1. 0 \in 0..MaxActivities
      BY BoundsAssumption
    <3>2. QED
      BY <3>1, <2>1, <2>6, CommitQuiet
  <2>8. Quiet(u, v)
    BY <2>4, <2>5, <2>7, QuietTransitive
  <2>9. Quiet(w, v)
    BY <2>2, <2>8, QuietTransitive
  <2>10. ASSUME s = RESUMED, ~Freed(w, x), Ready(w, x) PROVE x \in Exist(v, AppOf(w, x))
    <3>1. CASE r = INIT
      BY <3>1, <2>2, <2>3, <2>8, <2>10, <1>1 DEF Quiet, Calm, Steady
    <3>2. CASE r # INIT
      BY <3>2, <2>9, <2>10, <1>1 DEF Quiet, Calm, Steady, Ready, r
    <3>3. QED
      BY <3>1, <3>2
  <2>11. QED
    BY <2>9, <2>10 DEF v
<1>5. QED
  BY <1>2, <1>3, <1>4

\* The activity that waited is stopped.
LEMMA TriggerWaitResumeQuiet ==
    ASSUME NEW w, Low(w), NEW x \in Activity
    PROVE  Quiet(w, TriggerWaitResume(w, x))
<1> DEFINE i == Waiting(w, "WAIT_RESUME", x)
           y == w.pend[i].other
           u == Taken(w, i)
<1>1. CASE i = 0
  BY <1>1, QuietReflexive DEF TriggerWaitResume
<1>2. CASE i # 0
  <2>1. i \in 1..Len(w.pend) /\ w.pend[i].kind = "WAIT_RESUME" /\ w \in HeapType
    BY <1>2, WaitingFacts DEF Low
  <2>2. w.pend[i] \in ToSet(w.pend)
    BY <2>1, HeapParts, ElementsFacts
  <2>3. y \in Activity /\ AppOf(w, y) # 0
    BY <2>1, <2>2, PendParts DEF Low, PendOK
  <2>4. Quiet(w, u)
    BY <2>1, TakenQuiet
  <2>5. TriggerWaitResume(w, x) \in {u, Turn(u, y, STOPPED)}
    BY <1>2 DEF TriggerWaitResume
  <2> HIDE DEF u, y
  <2>6. Low(u) /\ AppOf(u, y) # 0
    BY <2>3, <2>4, QuietKeepsApp DEF Quiet
  <2>7. Quiet(u, Turn(u, y, STOPPED))
    BY <2>3, <2>6, TurnQuiet DEF Status
  <2>8. QED
    BY <2>4, <2>5, <2>7, QuietTransitive
<1>3. QED
  BY <1>1, <1>2

\* lifecycleTransition()
LEMMA TransitionQuiet ==
    ASSUME NEW w, Low(w), NEW x \in Activity, AppOf(w, x) # 0, NEW s \in Status
    PROVE  LET v == LifecycleTransition(w, x, s)
           IN /\ Quiet(w, v)
              /\ s = RESUMED /\ ~Freed(w, x) /\ Ready(w, x) => x \in Exist(v, AppOf(w, x))
<1> DEFINE v == LifecycleTransition(w, x, s)
           u == TriggerWaitResume(w, x)
           r == w.act[x]
           cannotResume == r.mTargetStatus = RESUMED /\ s > RESUMED /\ r.mStatus < RESUMING
<1>1. x # 0
  BY DEF Activity
<1>2. v = Turn(IF cannotResume THEN u ELSE w, x, s)
  BY <1>1 DEF LifecycleTransition
<1> HIDE DEF v
<1>3. CASE cannotResume
  <2>1. v = Turn(u, x, s) /\ s # RESUMED
    BY <1>2, <1>3 DEF Status
  <2>2. Quiet(w, u)
    BY TriggerWaitResumeQuiet
  <2> HIDE DEF u
  <2>3. Low(u) /\ AppOf(u, x) # 0
    BY <2>2, QuietKeepsApp DEF Quiet
  <2>4. Quiet(u, v)
    BY <2>1, <2>3, TurnQuiet
  <2>5. QED
    BY <2>1, <2>2, <2>4, QuietTransitive DEF v
<1>4. CASE ~cannotResume
  <2>1. v = Turn(w, x, s)
    BY <1>2, <1>4
  <2>2. QED
    BY <2>1, TurnQuiet DEF v
<1>5. QED
  BY <1>3, <1>4

\* ... of what may be no activity.
LEMMA TransitionCalm ==
    ASSUME NEW w, Low(w), NEW x \in Activity \union {0}, x # 0 => AppOf(w, x) # 0, NEW s \in Status
    PROVE  Calm(w, LifecycleTransition(w, x, s))
<1>1. CASE x = 0
  BY <1>1, SetUndefined DEF LifecycleTransition
<1>2. CASE x # 0
  BY <1>2, TransitionQuiet DEF Quiet
<1>3. QED
  BY <1>1, <1>2

\* The activity that waited is destroyed.
LEMMA TriggerDelayDestroyQuiet ==
    ASSUME NEW w, Low(w), NEW x \in Activity
    PROVE  Quiet(w, TriggerDelayDestroy(w, x))
<1> DEFINE i == Waiting(w, "DELAY_DESTROY", x)
           y == w.pend[i].other
           u == Taken(w, i)
<1>1. CASE i = 0
  BY <1>1, QuietReflexive DEF TriggerDelayDestroy
<1>2. CASE i # 0
  <2>1. i \in 1..Len(w.pend) /\ w.pend[i].kind = "DELAY_DESTROY" /\ w \in HeapType
    BY <1>2, WaitingFacts DEF Low
  <2>2. w.pend[i] \in ToSet(w.pend)
    BY <2>1, HeapParts, ElementsFacts
  <2>3. y \in Activity /\ AppOf(w, y) # 0
    BY <2>1, <2>2, PendParts DEF Low, PendOK
  <2>4. Quiet(w, u)
    BY <2>1, TakenQuiet
  <2>5. TriggerDelayDestroy(w, x) = LifecycleTransition(u, y, DESTROYED)
    BY <1>2 DEF TriggerDelayDestroy
  <2> HIDE DEF u, y
  <2>6. Low(u) /\ AppOf(u, y) # 0
    BY <2>3, <2>4, QuietKeepsApp DEF Quiet
  <2>7. Quiet(u, LifecycleTransition(u, y, DESTROYED))
    BY <2>3, <2>6, TransitionQuiet DEF Status
  <2>8. QED
    BY <2>4, <2>5, <2>7, QuietTransitive
<1>3. QED
  BY <1>1, <1>2

-----------------------------------------------------------------------------
(* The foreground count, and the end of a process.                          *)

\* Counting an activity.
LEMMA SetForegroundQuiet ==
    ASSUME NEW w, Low(w), NEW x \in Activity, AppOf(w, x) # 0, NEW b \in BOOLEAN
    PROVE  Quiet(w, SetForeground(w, x, b))
<1> DEFINE p == AppOf(w, x)
           count == w.proc[p].mForegroundActivityCnt + (IF b THEN 1 ELSE -1)
           shown == IF count = (IF b THEN 1 ELSE 0) THEN b ELSE w.proc[p].foreground
           y == [w.proc[p] EXCEPT !.mForegroundActivityCnt = count, !.foreground = shown]
           v == [w EXCEPT !.proc[p] = y]
<1>1. CASE Freed(w, x)
  BY <1>1, QuietReflexive DEF SetForeground
<1>2. CASE ~Freed(w, x)
  <2>1. p \in Proc /\ w.proc[p] \in ProcType /\ w \in HeapType /\ ProcOK(w, p)
    BY AppFacts DEF Low
  <2>2. /\ y \in ProcType /\ y.mStatus = w.proc[p].mStatus
        /\ y.mExistActivity = w.proc[p].mExistActivity /\ y.sent = w.proc[p].sent
    <3>1. count \in Int /\ shown \in BOOLEAN
      BY <2>1 DEF ProcType
    <3> HIDE DEF count, shown
    <3>2. QED
      BY <3>1, <2>1 DEF ProcType
  <2>3. SetForeground(w, x, b) = v
    BY <1>2, <2>1 DEF SetForeground, AppOf, HeapType
  <2> HIDE DEF y, p
  <2>4. /\ v \in HeapType /\ SameButProc(w, v) /\ v.proc[p] = y
        /\ \A q \in Proc : q # p => v.proc[q] = w.proc[q]
    BY <2>1, <2>2, ProcSet
  <2> HIDE DEF v
  <2>5. ProcOK(v, p)
    BY <2>1, <2>2, <2>4 DEF ProcOK, Exist, AppOf, SameButProc
  <2>6. Calm(w, v)
    BY <2>1, <2>2, <2>4, <2>5, ProcChange DEF Exist
  <2>7. QED
    BY <2>3, <2>4, <2>6 DEF Quiet, SameButProc
<1>3. QED
  BY <1>1, <1>2

\* Counting an activity of a process that has not ended.
LEMMA ChangeForegroundQuiet ==
    ASSUME NEW w, Low(w), NEW x \in Activity, AppOf(w, x) # 0, NEW b \in BOOLEAN
    PROVE  LET v == ChangeForeground(w, x, b)
           IN Calm(w, v) /\ (~Freed(w, x) => v.undefined = w.undefined)
BY SetForegroundQuiet, SetUndefined DEF ChangeForeground, Quiet

\* Asking a process to end.
LEMMA StopApplicationQuiet ==
    ASSUME NEW w, Low(w), NEW p \in Proc
    PROVE  Quiet(w, StopApplication(w, p))
<1> DEFINE c == <<"TERMINATE", 0>>
           u == Send(w, p, c)
           y == [u.proc[p] EXCEPT !.mStatus = "STOPPING"]
           v == [u EXCEPT !.proc[p] = y]
<1>1. CASE w.proc[p].mStatus # "RUNNING"
  BY <1>1, QuietReflexive DEF StopApplication
<1>2. CASE w.proc[p].mStatus = "RUNNING"
  <2>1. c \in Calls /\ c[1] \notin Steps /\ c[1] # "CREATE"
    BY DEF Calls, Steps
  <2>2. Quiet(w, u) /\ u.proc[p] = [w.proc[p] EXCEPT !.sent = Append(w.proc[p].sent, c)]
    <3> HIDE DEF c
    <3>1. QED
      BY <2>1, SendQuiet
  <2>3. StopApplication(w, p) = v
    BY <1>2 DEF StopApplication
  <2>4. w.proc[p] \in ProcType
    BY HeapParts DEF Low
  <2>5. u.proc[p].mStatus = "RUNNING"
    BY <1>2, <2>2, <2>4 DEF ProcType
  <2> HIDE DEF u
  <2>6. u \in HeapType /\ u.proc[p] \in ProcType /\ ProcOK(u, p) /\ Low(u)
    BY <2>2, HeapParts DEF Quiet, Calm, Low
  <2>7. /\ y \in ProcType /\ y.mStatus = "STOPPING"
        /\ y.mExistActivity = u.proc[p].mExistActivity /\ y.sent = u.proc[p].sent
    BY <2>6 DEF ProcType
  <2> HIDE DEF y
  <2>8. /\ v \in HeapType /\ SameButProc(u, v) /\ v.proc[p] = y
        /\ \A q \in Proc : q # p => v.proc[q] = u.proc[q]
    BY <2>6, <2>7, ProcSet
  <2> HIDE DEF v
  <2>9. ProcOK(v, p)
    BY <2>6, <2>7, <2>8 DEF ProcOK, Exist, AppOf, SameButProc
  <2>10. Calm(u, v)
    BY <2>5, <2>6, <2>7, <2>8, <2>9, ProcChange DEF Exist
  <2>11. Quiet(u, v)
    BY <2>8, <2>10 DEF Quiet, SameButProc
  <2>12. QED
    BY <2>2, <2>3, <2>11, QuietTransitive
<1>3. QED
  BY <1>1, <1>2

\* A steady step is loose.
LEMMA SteadyIsLoose ==
    ASSUME NEW w, NEW v, Steady(w, v), NEW X
    PROVE  Loose(w, v, X)
BY DEF Steady, Loose

\* Two loose steps are one.
LEMMA LooseTransitive ==
    ASSUME NEW w, NEW u, NEW v, NEW X, NEW Y, Loose(w, u, X), Loose(u, v, Y)
    PROVE  Loose(w, v, X \union Y)
BY DEF Loose

\* Removing from an unordered list.
LEMMA PlaceFacts ==
    ASSUME NEW S, NEW s \in Seq(S), NEW x
    PROVE  /\ Place(s, x) \in 0..Len(s)
           /\ x \in ToSet(s) => Place(s, x) # 0
           /\ Place(s, x) # 0 => Place(s, x) \in 1..Len(s) /\ s[Place(s, x)] = x /\ x \in ToSet(s)
<1> DEFINE I == {i \in 1..Len(s) : s[i] = x}
<1>1. Len(s) \in Nat /\ DOMAIN s = 1..Len(s) /\ \A i \in 1..Len(s) : s[i] \in ToSet(s)
  BY ElementsFacts
<1>2. Place(s, x) = IF I # {} THEN Min(I) ELSE 0
  BY DEF Place, SelectInSeq
<1>3. I # {} <=> x \in ToSet(s)
  BY <1>1 DEF ToSet
<1>4. I # {} => Min(I) \in I
  <2>1. I \in SUBSET Nat
    BY <1>1
  <2> HIDE DEF I
  <2>2. QED
    BY <2>1, LeastIsMin
<1>5. I \subseteq 1..Len(s) /\ \A i \in I : s[i] = x
  OBVIOUS
<1> HIDE DEF I
<1>6. CASE I = {}
  BY <1>1, <1>2, <1>3, <1>6
<1>7. CASE I # {}
  <2>1. Place(s, x) \in I
    BY <1>2, <1>4, <1>7
  <2>2. Place(s, x) \in 1..Len(s) /\ s[Place(s, x)] = x /\ x \in ToSet(s)
    BY <2>1, <1>3, <1>5, <1>7
  <2> DEFINE i == Place(s, x)
             n == Len(s)
  <2>3. i \in 1..n /\ n \in Nat /\ s[i] = x /\ x \in ToSet(s)
    BY <2>2, <1>1
  <2> HIDE DEF i, n
  <2>4. i \in 0..n /\ i # 0
    BY <2>3
  <2>5. QED
    BY <2>3, <2>4 DEF i, n
<1>8. QED
  BY <1>6, <1>7

\* What SwappedOut leaves.
LEMMA SwappedFacts ==
    ASSUME NEW S, NEW s \in Seq(S), NEW x
    PROVE  LET r == SwappedOut(s, x)
           IN /\ r \in Seq(S) /\ ToSet(r) \subseteq ToSet(s)
              /\ \A y \in ToSet(s) : y # x => y \in ToSet(r)
              /\ IsInjective(s) => IsInjective(r) /\ x \notin ToSet(r)
<1> DEFINE n == Len(s)
           i == Place(s, x)
           t == [s EXCEPT ![i] = Last(s)]
           r == SwappedOut(s, x)
<1>1. n \in Nat /\ DOMAIN s = 1..n /\ \A k \in 1..n : s[k] \in S /\ s[k] \in ToSet(s)
  BY ElementsFacts
<1>2. CASE ~Contains(s, x)
  <2>1. r = s /\ x \notin ToSet(s)
    BY <1>2, ElementsFacts DEF SwappedOut
  <2>2. QED
    BY <2>1
<1>3. CASE Contains(s, x)
  <2>1. /\ r = Front(t) /\ i \in 1..n /\ s[i] = x /\ n >= 1 /\ Last(s) = s[n] /\ s # <<>>
    <3>1. x \in ToSet(s)
      BY <1>3, ElementsFacts
    <3>2. i \in 1..n /\ s[i] = x
      BY <3>1, PlaceFacts
    <3>3. s # <<>>
      BY <3>1, ElementsFacts
    <3>4. QED
      BY <3>2, <3>3, <1>1, <1>3, ElementsFacts DEF SwappedOut
  <2>2. t \in Seq(S) /\ Len(t) = n /\ \A k \in 1..n : t[k] = IF k = i THEN s[n] ELSE s[k]
    <3>1. t \in [1..n -> S] /\ \A k \in 1..n : t[k] = IF k = i THEN s[n] ELSE s[k]
      BY <1>1, <2>1
    <3>2. QED
      BY <3>1, <1>1
  <2> HIDE DEF t, i
  <2>3. t # <<>> /\ DOMAIN t = 1..n
    BY <2>1, <2>2, <1>1, ElementsFacts
  <2>4. /\ r \in Seq(S) /\ Len(r) = n - 1 /\ DOMAIN r = 1..(n - 1)
        /\ \A k \in 1..(n - 1) : r[k] = t[k]
    <3>1. r = SubSeq(t, 1, n - 1)
      BY <2>1, <2>2 DEF Front
    <3>2. 1 \in Int /\ n - 1 \in Int /\ \A k \in 1..(n - 1) : t[k] \in S
      BY <1>1, <2>1, <2>2
    <3>3. QED
      BY <3>1, <3>2, <2>1, <2>2, <1>1, SubSeqProperties
  <2> HIDE DEF r, n
  <2>5. \A k \in 1..(n - 1) : k \in 1..n /\ r[k] = IF k = i THEN s[n] ELSE s[k]
    BY <2>2, <2>4, <1>1
  <2>6. ToSet(r) = {r[k] : k \in 1..(n - 1)} /\ ToSet(s) = {s[k] : k \in 1..n}
    BY <2>4, <1>1 DEF ToSet
  <2>7. ToSet(r) \subseteq ToSet(s)
    <3>1. \A k \in 1..(n - 1) : r[k] \in ToSet(s)
      BY <2>1, <2>5, <1>1
    <3>2. QED
      BY <3>1, <2>6
  <2>8. ASSUME NEW y \in ToSet(s), y # x PROVE y \in ToSet(r)
    <3>1. PICK k \in 1..n : s[k] = y
      BY <2>6
    <3>2. k # i
      BY <3>1, <2>8, <2>1
    <3>3. CASE k = n
      <4>1. i \in 1..(n - 1) /\ r[i] = y
        BY <3>1, <3>2, <3>3, <2>1, <2>5, <1>1
      <4>2. QED
        BY <4>1, <2>6
    <3>4. CASE k # n
      <4>1. k \in 1..(n - 1) /\ r[k] = y
        BY <3>1, <3>2, <3>4, <2>5, <1>1
      <4>2. QED
        BY <4>1, <2>6
    <3>5. QED
      BY <3>3, <3>4
  <2>9. ASSUME IsInjective(s) PROVE IsInjective(r) /\ x \notin ToSet(r)
    <3>1. \A k, l \in 1..n : s[k] = s[l] => k = l
      BY <2>9, <1>1 DEF IsInjective
    <3>2. \A k \in 1..(n - 1) : k # n
      BY <1>1
    <3>3. \A k, l \in 1..(n - 1) : r[k] = r[l] => k = l
      BY <3>1, <3>2, <2>1, <2>5, <1>1
    <3>4. \A k \in 1..(n - 1) : r[k] # x
      BY <3>1, <3>2, <2>1, <2>5, <1>1
    <3>5. QED
      BY <3>3, <3>4, <2>4, <2>6 DEF IsInjective
  <2>10. QED
    BY <2>4, <2>7, <2>8, <2>9 DEF r
<1>4. QED
  BY <1>2, <1>3

\* AppRecord::deleteActivity()
LEMMA ForgetLoose ==
    ASSUME NEW w, Low(w), NEW x \in Activity, AppOf(w, x) # 0
    PROVE  LET v == Forget(w, x)
           IN Low(v) /\ Loose(w, v, {x}) /\ SameTasks(w, v) /\ v.undefined = w.undefined
<1> DEFINE p == AppOf(w, x)
           e == SwappedOut(w.proc[p].mExistActivity, x)
           y == [w.proc[p] EXCEPT !.mExistActivity = e]
           v == [w EXCEPT !.proc[p] = y]
<1>1. p \in Proc /\ w.proc[p] \in ProcType /\ w \in HeapType /\ ProcOK(w, p)
  BY AppFacts DEF Low
<1>2. /\ w.proc[p].mExistActivity \in Seq(Activity) /\ e \in Seq(Activity)
      /\ ToSet(e) \subseteq Exist(w, p) /\ Exist(w, p) \ {x} \subseteq ToSet(e)
  BY <1>1, ProcParts, SwappedFacts DEF Exist
<1>3. Forget(w, x) = v
  BY DEF Forget, AppOf
<1> HIDE DEF e, p
<1>4. /\ y \in ProcType /\ y.mStatus = w.proc[p].mStatus /\ y.mExistActivity = e
      /\ y.sent = w.proc[p].sent
  BY <1>1, <1>2 DEF ProcType
<1> HIDE DEF y
<1>5. /\ v \in HeapType /\ SameButProc(w, v) /\ v.proc[p] = y
      /\ \A q \in Proc : q # p => v.proc[q] = w.proc[q]
  BY <1>1, <1>4, ProcSet
<1> HIDE DEF v
<1>6. ProcOK(v, p)
  <2>1. v.act = w.act /\ Exist(v, p) = ToSet(e)
    BY <1>4, <1>5 DEF SameButProc, Exist
  <2>2. w.proc[p].mStatus = "STOPPED" => e = <<>>
    <3>1. w.proc[p].mStatus = "STOPPED" => ToSet(e) = {}
      BY <1>1, <1>2, ElementsFacts DEF ProcOK, Exist
    <3>2. QED
      BY <3>1, <1>2, ElementsFacts
  <2>3. QED
    BY <1>1, <1>2, <1>4, <1>5, <2>1, <2>2 DEF ProcOK, AppOf
<1>7. Low(v)
  BY <1>1, <1>4, <1>5, <1>6, ProcChange
<1>8. \A q \in Proc : /\ w.proc[q].mStatus = "NONE" => v.proc[q].mStatus = "NONE"
                      /\ Exist(w, q) \ {x} \subseteq Exist(v, q)
  BY <1>2, <1>4, <1>5 DEF Exist
<1>9. QED
  BY <1>3, <1>5, <1>7, <1>8 DEF Loose, SameTasks, SameButProc

\* abnormalExit()
LEMMA AbnormalExitLoose ==
    ASSUME NEW w, Low(w), NEW x \in Activity, AppOf(w, x) # 0
    PROVE  LET v == AbnormalExit(w, x)
           IN /\ Low(v) /\ Loose(w, v, {x}) /\ SameTasks(w, v) /\ v.undefined = w.undefined
              /\ Freed(w, x) => Quiet(w, v)
<1> DEFINE dead == [w EXCEPT !.act[x].mStatus = DESTROYED]
           u == Forget(dead, x)
           v == AbnormalExit(w, x)
           p == w.act[x].mApp
<1>1. DESTROYED \in Status /\ DESTROYED > INIT /\ w \in HeapType /\ p \in Proc
  BY AppFacts DEF Status, Low, AppOf
<1>2. /\ SameButAct(w, dead) /\ dead.act[x] = [w.act[x] EXCEPT !.mStatus = DESTROYED]
      /\ \A y \in Activity : y # x => dead.act[y] = w.act[y]
  BY <1>1, StatusSet
<1>3. Low(dead) /\ (Freed(w, x) => Quiet(w, dead))
  BY <1>1, StatusQuiet
<1>4. CASE Freed(w, x)
  <2>1. v = dead
    BY <1>4 DEF AbnormalExit
  <2>2. Quiet(w, dead)
    BY <1>3, <1>4
  <2>3. QED
    BY <2>1, <2>2, <1>4, SteadyIsLoose DEF Quiet, Calm
<1>5. CASE ~Freed(w, x)
  <2>1. v = StopApplication(u, p)
    BY <1>5 DEF AbnormalExit
  <2>2. \A y \in Activity : /\ dead.act[y].name = w.act[y].name
                            /\ dead.act[y].mInTask = w.act[y].mInTask
                            /\ dead.act[y].mApp = w.act[y].mApp
    BY <1>1, <1>2, HeapParts DEF ActivityType
  <2> HIDE DEF dead, p, v
  <2>3. Loose(w, dead, {}) /\ SameTasks(w, dead) /\ dead.undefined = w.undefined
    BY <1>2, <2>2 DEF Loose, SameTasks, SameButAct, Exist
  <2>4. Low(u) /\ Loose(dead, u, {x}) /\ SameTasks(dead, u) /\ u.undefined = dead.undefined
    BY <1>3, <2>2, ForgetLoose DEF AppOf
  <2> HIDE DEF u
  <2>5. Quiet(u, v)
    BY <2>1, <2>4, <1>1, StopApplicationQuiet
  <2>6. Low(v) /\ Loose(u, v, {}) /\ SameTasks(u, v) /\ v.undefined = u.undefined
    BY <2>5, SteadyIsLoose DEF Quiet, Calm
  <2>7. Loose(w, u, {} \union {x})
    BY <2>3, <2>4, LooseTransitive
  <2>8. Loose(w, v, ({} \union {x}) \union {})
    BY <2>6, <2>7, LooseTransitive
  <2>9. ({} \union {x}) \union {} = {x}
    OBVIOUS
  <2>10. QED
    BY <2>3, <2>4, <2>6, <2>8, <2>9, <1>5 DEF SameTasks, v
<1>6. QED
  BY <1>4, <1>5

-----------------------------------------------------------------------------
(* The loops.  If every pass keeps to V, and the k-th leads from T[k - 1] to  *)
(* T[k], the loop leads to V and to the last T.                              *)

\* What leaves its task is destroyed, and counted no more if it was shown.
Leave(w, x, shown) ==
    LET v == LifecycleTransition(w, x, DESTROYED)
    IN IF shown THEN ChangeForeground(v, x, FALSE) ELSE v

\* It leaves its task, and the map of the activities.
Erased(w, x) == [Delete(w, x) EXCEPT !.act[x].mapped = FALSE]

\* setForeground() of a task
Foregrounds(base, s, b) == FoldLeft(LAMBDA v, x : SetForeground(v, x, b), base, s)

\* A step property of the loop of setForeground().
LEMMA ForegroundLoop ==
    ASSUME NEW V, NEW base \in V, NEW S, NEW s \in Seq(S), NEW b,
           \A v \in V, x \in ToSet(s) : SetForeground(v, x, b) \in V,
           NEW T, base \in T[0],
           \A k \in 1..Len(s) : \A v \in V : v \in T[k - 1] => SetForeground(v, s[k], b) \in T[k]
    PROVE  Foregrounds(base, s, b) \in V \intersect T[Len(s)]
<1> DEFINE n == Len(s)
           Is(g) == g = [D \in SUBSET DOMAIN s |-> IF D = {} THEN base
                           ELSE SetForeground(g[D \ {Max(D)}], s[Max(D)], b)]
           step == [k \in 1..n |-> [v \in V |-> SetForeground(v, s[k], b)]]
           f == CHOOSE g : Is(g)
<1>1. n \in Nat /\ DOMAIN s = 1..n /\ \A k \in 1..n : s[k] \in ToSet(s)
  BY ElementsFacts
<1>2. Foregrounds(base, s, b) = f[1..n]
  BY <1>1 DEF FoldLeft, MapThenFoldSet, Foregrounds
<1>3. step \in [1..n -> [V -> V]] /\ \A k \in 1..n, v \in V : step[k][v] = SetForeground(v, s[k], b)
  BY <1>1
<1> HIDE DEF step, f
<1>4. PICK h \in [SUBSET (1..n) -> V] : Within(h, n, base, V, step)
  BY <1>1, <1>3, FoldRuns
<1>5. Is(h)
  BY <1>1, <1>3, <1>4 DEF Within
<1>6. Is(f)
  BY <1>5 DEF f
<1>7. Runs(f, n, base, V, step)
  <2>1. f[{}] = base /\ \A D \in SUBSET (1..n) : D # {}
              => f[D] = SetForeground(f[D \ {Max(D)}], s[Max(D)], b)
    BY <1>1, <1>6
  <2>2. QED
    BY <2>1, <1>3, <1>4 DEF Runs, Within
<1>8. \A k \in 1..n : \A v \in V : v \in T[k - 1] => step[k][v] \in T[k]
  BY <1>1, <1>3
<1> HIDE DEF Is, n
<1>9. f[1..n] \in V \intersect T[n]
  BY <1>1, <1>3, <1>7, <1>8, LoopFollows
<1>10. QED
  BY <1>2, <1>9 DEF n

\* The activities on top of one.
Leaves(base, s, b) == FoldLeft(LAMBDA v, x : Leave(v, x, b), base, s)

\* A step property of the loop that leaves a task.
LEMMA LeaveLoop ==
    ASSUME NEW V, NEW base \in V, NEW S, NEW s \in Seq(S), NEW b,
           \A v \in V, x \in ToSet(s) : Leave(v, x, b) \in V,
           NEW T, base \in T[0],
           \A k \in 1..Len(s) : \A v \in V : v \in T[k - 1] => Leave(v, s[k], b) \in T[k]
    PROVE  Leaves(base, s, b) \in V \intersect T[Len(s)]
<1> DEFINE n == Len(s)
           Is(g) == g = [D \in SUBSET DOMAIN s |-> IF D = {} THEN base
                           ELSE Leave(g[D \ {Max(D)}], s[Max(D)], b)]
           step == [k \in 1..n |-> [v \in V |-> Leave(v, s[k], b)]]
           f == CHOOSE g : Is(g)
<1>1. n \in Nat /\ DOMAIN s = 1..n /\ \A k \in 1..n : s[k] \in ToSet(s)
  BY ElementsFacts
<1>2. Leaves(base, s, b) = f[1..n]
  BY <1>1 DEF FoldLeft, MapThenFoldSet, Leaves
<1>3. step \in [1..n -> [V -> V]] /\ \A k \in 1..n, v \in V : step[k][v] = Leave(v, s[k], b)
  BY <1>1
<1> HIDE DEF step, f
<1>4. PICK h \in [SUBSET (1..n) -> V] : Within(h, n, base, V, step)
  BY <1>1, <1>3, FoldRuns
<1>5. Is(h)
  BY <1>1, <1>3, <1>4 DEF Within
<1>6. Is(f)
  BY <1>5 DEF f
<1>7. Runs(f, n, base, V, step)
  <2>1. f[{}] = base /\ \A D \in SUBSET (1..n) : D # {}
              => f[D] = Leave(f[D \ {Max(D)}], s[Max(D)], b)
    BY <1>1, <1>6
  <2>2. QED
    BY <2>1, <1>3, <1>4 DEF Runs, Within
<1>8. \A k \in 1..n : \A v \in V : v \in T[k - 1] => step[k][v] \in T[k]
  BY <1>1, <1>3
<1> HIDE DEF Is, n
<1>9. f[1..n] \in V \intersect T[n]
  BY <1>1, <1>3, <1>7, <1>8, LoopFollows
<1>10. QED
  BY <1>2, <1>9 DEF n

\* The same of deleteActivity().
LEMMA DestroyLoop ==
    ASSUME NEW V, NEW base \in V, NEW S, NEW s \in Seq(S),
           \A v \in V, x \in ToSet(s) : LifecycleTransition(v, x, DESTROYED) \in V,
           NEW T, base \in T[0],
           \A k \in 1..Len(s) : \A v \in V : v \in T[k - 1]
                         => LifecycleTransition(v, s[k], DESTROYED) \in T[k]
    PROVE  FoldLeft(LAMBDA v, x :
                  LifecycleTransition(v, x, DESTROYED), base, s) \in V \intersect T[Len(s)]
<1> DEFINE n == Len(s)
           Is(g) == g = [D \in SUBSET DOMAIN s |-> IF D = {} THEN base
                           ELSE LifecycleTransition(g[D \ {Max(D)}], s[Max(D)], DESTROYED)]
           step == [k \in 1..n |-> [v \in V |-> LifecycleTransition(v, s[k], DESTROYED)]]
           f == CHOOSE g : Is(g)
<1>1. n \in Nat /\ DOMAIN s = 1..n /\ \A k \in 1..n : s[k] \in ToSet(s)
  BY ElementsFacts
<1>2. FoldLeft(LAMBDA v, x : LifecycleTransition(v, x, DESTROYED), base, s) = f[1..n]
  BY <1>1 DEF FoldLeft, MapThenFoldSet
<1>3. step \in [1..n -> [V -> V]] /\ \A k \in 1..n, v \in V :
              step[k][v] = LifecycleTransition(v, s[k], DESTROYED)
  BY <1>1
<1> HIDE DEF step, f
<1>4. PICK h \in [SUBSET (1..n) -> V] : Within(h, n, base, V, step)
  BY <1>1, <1>3, FoldRuns
<1>5. Is(h)
  BY <1>1, <1>3, <1>4 DEF Within
<1>6. Is(f)
  BY <1>5 DEF f
<1>7. Runs(f, n, base, V, step)
  <2>1. f[{}] = base /\ \A D \in SUBSET (1..n) : D # {}
              => f[D] = LifecycleTransition(f[D \ {Max(D)}], s[Max(D)], DESTROYED)
    BY <1>1, <1>6
  <2>2. QED
    BY <2>1, <1>3, <1>4 DEF Runs, Within
<1>8. \A k \in 1..n : \A v \in V : v \in T[k - 1] => step[k][v] \in T[k]
  BY <1>1, <1>3
<1> HIDE DEF Is, n
<1>9. f[1..n] \in V \intersect T[n]
  BY <1>1, <1>3, <1>7, <1>8, LoopFollows
<1>10. QED
  BY <1>2, <1>9 DEF n

\* The activities of a task of the system UI.
UiChanges(base, s, t) == FoldLeft(LAMBDA v, x : UiChange(v, x, t), base, s)

\* A step property of the loop over a system UI task's activities.
LEMMA UiLoop ==
    ASSUME NEW V, NEW base \in V, NEW S, NEW s \in Seq(S), NEW t,
           \A v \in V, x \in ToSet(s) : UiChange(v, x, t) \in V,
           NEW T, base \in T[0],
           \A k \in 1..Len(s) : \A v \in V : v \in T[k - 1] => UiChange(v, s[k], t) \in T[k]
    PROVE  UiChanges(base, s, t) \in V \intersect T[Len(s)]
<1> DEFINE n == Len(s)
           Is(g) == g = [D \in SUBSET DOMAIN s |-> IF D = {} THEN base
                           ELSE UiChange(g[D \ {Max(D)}], s[Max(D)], t)]
           step == [k \in 1..n |-> [v \in V |-> UiChange(v, s[k], t)]]
           f == CHOOSE g : Is(g)
<1>1. n \in Nat /\ DOMAIN s = 1..n /\ \A k \in 1..n : s[k] \in ToSet(s)
  BY ElementsFacts
<1>2. UiChanges(base, s, t) = f[1..n]
  BY <1>1 DEF FoldLeft, MapThenFoldSet, UiChanges
<1>3. step \in [1..n -> [V -> V]] /\ \A k \in 1..n, v \in V : step[k][v] = UiChange(v, s[k], t)
  BY <1>1
<1> HIDE DEF step, f
<1>4. PICK h \in [SUBSET (1..n) -> V] : Within(h, n, base, V, step)
  BY <1>1, <1>3, FoldRuns
<1>5. Is(h)
  BY <1>1, <1>3, <1>4 DEF Within
<1>6. Is(f)
  BY <1>5 DEF f
<1>7. Runs(f, n, base, V, step)
  <2>1. f[{}] = base /\ \A D \in SUBSET (1..n) : D # {}
              => f[D] = UiChange(f[D \ {Max(D)}], s[Max(D)], t)
    BY <1>1, <1>6
  <2>2. QED
    BY <2>1, <1>3, <1>4 DEF Runs, Within
<1>8. \A k \in 1..n : \A v \in V : v \in T[k - 1] => step[k][v] \in T[k]
  BY <1>1, <1>3
<1> HIDE DEF Is, n
<1>9. f[1..n] \in V \intersect T[n]
  BY <1>1, <1>3, <1>7, <1>8, LoopFollows
<1>10. QED
  BY <1>2, <1>9 DEF n

\* The tasks of the system UI.
UiTaskChanges(base, s, t) == FoldLeft(LAMBDA v, x : UiChangeTask(v, x, t), base, s)

\* A step property of the loop over the system UI tasks.
LEMMA UiTaskLoop ==
    ASSUME NEW V, NEW base \in V, NEW S, NEW s \in Seq(S), NEW t,
           \A v \in V, x \in ToSet(s) : UiChangeTask(v, x, t) \in V,
           NEW T, base \in T[0],
           \A k \in 1..Len(s) : \A v \in V : v \in T[k - 1] => UiChangeTask(v, s[k], t) \in T[k]
    PROVE  UiTaskChanges(base, s, t) \in V \intersect T[Len(s)]
<1> DEFINE n == Len(s)
           Is(g) == g = [D \in SUBSET DOMAIN s |-> IF D = {} THEN base
                           ELSE UiChangeTask(g[D \ {Max(D)}], s[Max(D)], t)]
           step == [k \in 1..n |-> [v \in V |-> UiChangeTask(v, s[k], t)]]
           f == CHOOSE g : Is(g)
<1>1. n \in Nat /\ DOMAIN s = 1..n /\ \A k \in 1..n : s[k] \in ToSet(s)
  BY ElementsFacts
<1>2. UiTaskChanges(base, s, t) = f[1..n]
  BY <1>1 DEF FoldLeft, MapThenFoldSet, UiTaskChanges
<1>3. step \in [1..n -> [V -> V]] /\ \A k \in 1..n, v \in V : step[k][v] = UiChangeTask(v, s[k], t)
  BY <1>1
<1> HIDE DEF step, f
<1>4. PICK h \in [SUBSET (1..n) -> V] : Within(h, n, base, V, step)
  BY <1>1, <1>3, FoldRuns
<1>5. Is(h)
  BY <1>1, <1>3, <1>4 DEF Within
<1>6. Is(f)
  BY <1>5 DEF f
<1>7. Runs(f, n, base, V, step)
  <2>1. f[{}] = base /\ \A D \in SUBSET (1..n) : D # {}
              => f[D] = UiChangeTask(f[D \ {Max(D)}], s[Max(D)], t)
    BY <1>1, <1>6
  <2>2. QED
    BY <2>1, <1>3, <1>4 DEF Runs, Within
<1>8. \A k \in 1..n : \A v \in V : v \in T[k - 1] => step[k][v] \in T[k]
  BY <1>1, <1>3
<1> HIDE DEF Is, n
<1>9. f[1..n] \in V \intersect T[n]
  BY <1>1, <1>3, <1>7, <1>8, LoopFollows
<1>10. QED
  BY <1>2, <1>9 DEF n

\* The activities of a process that has ended.
LEMMA ExitLoop ==
    ASSUME NEW V, NEW base \in V, NEW S, NEW s \in Seq(S),
           \A v \in V, x \in ToSet(s) : AbnormalExit(v, x) \in V,
           NEW T, base \in T[0],
           \A k \in 1..Len(s) : \A v \in V : v \in T[k - 1] => AbnormalExit(v, s[k]) \in T[k]
    PROVE  FoldLeft(AbnormalExit, base, s) \in V \intersect T[Len(s)]
<1> DEFINE n == Len(s)
           Is(g) == g = [D \in SUBSET DOMAIN s |-> IF D = {} THEN base
                           ELSE AbnormalExit(g[D \ {Max(D)}], s[Max(D)])]
           step == [k \in 1..n |-> [v \in V |-> AbnormalExit(v, s[k])]]
           f == CHOOSE g : Is(g)
<1>1. n \in Nat /\ DOMAIN s = 1..n /\ \A k \in 1..n : s[k] \in ToSet(s)
  BY ElementsFacts
<1>2. FoldLeft(AbnormalExit, base, s) = f[1..n]
  BY <1>1 DEF FoldLeft, MapThenFoldSet
<1>3. step \in [1..n -> [V -> V]] /\ \A k \in 1..n, v \in V : step[k][v] = AbnormalExit(v, s[k])
  BY <1>1
<1> HIDE DEF step, f
<1>4. PICK h \in [SUBSET (1..n) -> V] : Within(h, n, base, V, step)
  BY <1>1, <1>3, FoldRuns
<1>5. Is(h)
  BY <1>1, <1>3, <1>4 DEF Within
<1>6. Is(f)
  BY <1>5 DEF f
<1>7. Runs(f, n, base, V, step)
  <2>1. f[{}] = base /\ \A D \in SUBSET (1..n) : D # {}
              => f[D] = AbnormalExit(f[D \ {Max(D)}], s[Max(D)])
    BY <1>1, <1>6
  <2>2. QED
    BY <2>1, <1>3, <1>4 DEF Runs, Within
<1>8. \A k \in 1..n : \A v \in V : v \in T[k - 1] => step[k][v] \in T[k]
  BY <1>1, <1>3
<1> HIDE DEF Is, n
<1>9. f[1..n] \in V \intersect T[n]
  BY <1>1, <1>3, <1>7, <1>8, LoopFollows
<1>10. QED
  BY <1>2, <1>9 DEF n

\* ... and they are erased.
LEMMA EraseLoop ==
    ASSUME NEW V, NEW base \in V, NEW S, NEW s \in Seq(S),
           \A v \in V, x \in ToSet(s) : Erased(v, x) \in V,
           NEW T, base \in T[0],
           \A k \in 1..Len(s) : \A v \in V : v \in T[k - 1] => Erased(v, s[k]) \in T[k]
    PROVE  FoldLeft(Erased, base, s) \in V \intersect T[Len(s)]
<1> DEFINE n == Len(s)
           Is(g) == g = [D \in SUBSET DOMAIN s |-> IF D = {} THEN base
                           ELSE Erased(g[D \ {Max(D)}], s[Max(D)])]
           step == [k \in 1..n |-> [v \in V |-> Erased(v, s[k])]]
           f == CHOOSE g : Is(g)
<1>1. n \in Nat /\ DOMAIN s = 1..n /\ \A k \in 1..n : s[k] \in ToSet(s)
  BY ElementsFacts
<1>2. FoldLeft(Erased, base, s) = f[1..n]
  BY <1>1 DEF FoldLeft, MapThenFoldSet
<1>3. step \in [1..n -> [V -> V]] /\ \A k \in 1..n, v \in V : step[k][v] = Erased(v, s[k])
  BY <1>1
<1> HIDE DEF step, f
<1>4. PICK h \in [SUBSET (1..n) -> V] : Within(h, n, base, V, step)
  BY <1>1, <1>3, FoldRuns
<1>5. Is(h)
  BY <1>1, <1>3, <1>4 DEF Within
<1>6. Is(f)
  BY <1>5 DEF f
<1>7. Runs(f, n, base, V, step)
  <2>1. f[{}] = base /\ \A D \in SUBSET (1..n) : D # {} => f[D] = Erased(f[D \ {Max(D)}], s[Max(D)])
    BY <1>1, <1>6
  <2>2. QED
    BY <2>1, <1>3, <1>4 DEF Runs, Within
<1>8. \A k \in 1..n : \A v \in V : v \in T[k - 1] => step[k][v] \in T[k]
  BY <1>1, <1>3
<1> HIDE DEF Is, n
<1>9. f[1..n] \in V \intersect T[n]
  BY <1>1, <1>3, <1>7, <1>8, LoopFollows
<1>10. QED
  BY <1>2, <1>9 DEF n

\* The callbacks of an activity that is torn down.
Performs(base, s, y) == FoldLeft(LAMBDA v, x : Perform(v, y, x), base, s)

\* A step property of the loop over the callbacks.
LEMMA PerformLoop ==
    ASSUME NEW V, NEW base \in V, NEW S, NEW s \in Seq(S), NEW y,
           \A v \in V, x \in ToSet(s) : Perform(v, y, x) \in V,
           NEW T, base \in T[0],
           \A k \in 1..Len(s) : \A v \in V : v \in T[k - 1] => Perform(v, y, s[k]) \in T[k]
    PROVE  Performs(base, s, y) \in V \intersect T[Len(s)]
<1> DEFINE n == Len(s)
           Is(g) == g = [D \in SUBSET DOMAIN s |-> IF D = {} THEN base
                           ELSE Perform(g[D \ {Max(D)}], y, s[Max(D)])]
           step == [k \in 1..n |-> [v \in V |-> Perform(v, y, s[k])]]
           f == CHOOSE g : Is(g)
<1>1. n \in Nat /\ DOMAIN s = 1..n /\ \A k \in 1..n : s[k] \in ToSet(s)
  BY ElementsFacts
<1>2. Performs(base, s, y) = f[1..n]
  BY <1>1 DEF FoldLeft, MapThenFoldSet, Performs
<1>3. step \in [1..n -> [V -> V]] /\ \A k \in 1..n, v \in V : step[k][v] = Perform(v, y, s[k])
  BY <1>1
<1> HIDE DEF step, f
<1>4. PICK h \in [SUBSET (1..n) -> V] : Within(h, n, base, V, step)
  BY <1>1, <1>3, FoldRuns
<1>5. Is(h)
  BY <1>1, <1>3, <1>4 DEF Within
<1>6. Is(f)
  BY <1>5 DEF f
<1>7. Runs(f, n, base, V, step)
  <2>1. f[{}] = base /\ \A D \in SUBSET (1..n) : D # {}
              => f[D] = Perform(f[D \ {Max(D)}], y, s[Max(D)])
    BY <1>1, <1>6
  <2>2. QED
    BY <2>1, <1>3, <1>4 DEF Runs, Within
<1>8. \A k \in 1..n : \A v \in V : v \in T[k - 1] => step[k][v] \in T[k]
  BY <1>1, <1>3
<1> HIDE DEF Is, n
<1>9. f[1..n] \in V \intersect T[n]
  BY <1>1, <1>3, <1>7, <1>8, LoopFollows
<1>10. QED
  BY <1>2, <1>9 DEF n

-----------------------------------------------------------------------------
(* What the loops do.                                                       *)

\* What list::remove() leaves.
LEMMA WithoutFacts ==
    ASSUME NEW S, NEW s \in Seq(S), NEW y
    PROVE  LET r == Without(s, y)
           IN /\ r \in Seq(S) /\ ToSet(r) = ToSet(s) \ {y}
              /\ IsInjective(s) => IsInjective(r)
<1>1. Without(s, y) = Remaining(<<>>, s, y)
  BY DEF Without, Remaining
<1>2. QED
  BY <1>1, RemainingFacts

\* list::remove() of another leaves the first.
LEMMA WithoutHead ==
    ASSUME NEW S, NEW s \in Seq(S), NEW y, s # <<>>, Head(s) # y
    PROVE  Without(s, y) # <<>> /\ Head(Without(s, y)) = Head(s)
<1>1. Without(s, y) = Remaining(<<>>, s, y)
  BY DEF Without, Remaining
<1>2. QED
  BY <1>1, RemainingHead

\* Removing the pending tasks that wait for an activity.
LEMMA UnwatchedQuiet ==
    ASSUME NEW w, Low(w), NEW y
    PROVE  Quiet(w, Unwatched(w, y)) /\ Unwatched(w, y).act = w.act /\ Unwatched(w, y).proc = w.proc
<1> DEFINE s == w.pend
           V == {q \in Seq(PendType) : ToSet(q) \subseteq ToSet(s)}
           T == [k \in 0..Len(s) |-> V]
           q == RestOf(<<>>, s, y)
<1>1. s \in Seq(PendType) /\ Len(s) \in Nat /\ \A e \in ToSet(s) : e \in PendType
  BY HeapParts, ElementsFacts DEF Low
<1>2. \A r \in V, e \in ToSet(s) :
          (IF e.kind = "WAIT_RESUME" /\ e.of = y THEN r ELSE Append(r, e)) \in V
  BY <1>1, AppendFacts
<1>3. <<>> \in V
  BY DEF ToSet
<1> HIDE DEF V
<1>4. <<>> \in T[0] /\ T[Len(s)] = V /\ \A k \in 1..Len(s) : T[k] = V /\ s[k] \in ToSet(s)
  BY <1>1, <1>3, ElementsFacts
<1> HIDE DEF T, s
<1>5. q \in V
  <2>1. \A k \in 1..Len(s) : \A r \in V : r \in T[k - 1] =>
            (IF s[k].kind = "WAIT_RESUME" /\ s[k].of = y THEN r ELSE Append(r, s[k])) \in T[k]
    BY <1>2, <1>4
  <2>2. q \in V \intersect T[Len(s)]
    BY <1>1, <1>2, <1>3, <1>4, <2>1, RestLoop
  <2>3. QED
    BY <2>2
<1>6. Unwatched(w, y) = [w EXCEPT !.pend = q]
  BY DEF Unwatched, RestOf, s
<1> HIDE DEF q
<1>7. q \in Seq(PendType) /\ ToSet(q) \subseteq ToSet(s)
  BY <1>5 DEF V
<1>8. \A d \in ToSet(q) : AppOf(w, d.of) # 0 /\ (d.kind # "LIFECYCLE" => d.other # 0
              /\ AppOf(w, d.other) # 0)
  BY <1>7 DEF Low, PendOK, s
<1>9. QED
  BY <1>6, <1>7, <1>8, PendChange DEF Quiet

\* The type of a task's stack.
LEMMA OnFacts ==
    ASSUME NEW w \in HeapType, NEW t \in Task
    PROVE  w.stack[t] \in Seq(Activity) /\ On(w, t) \subseteq Activity
BY HeapParts, ElementsFacts DEF On

\* setForeground() of a task
LEMMA ForegroundAll ==
    ASSUME NEW w, Low(w), NEW s \in Seq(Activity), \A x \in ToSet(s) :
                  AppOf(w, x) # 0, NEW b \in BOOLEAN
    PROVE  LET v == Foregrounds(w, s, b)
           IN Calm(w, v) /\ (TRUE => v.undefined = w.undefined)
<1> DEFINE g == TRUE
           V == {v \in HeapType : Calm(w, v) /\ (g => v.undefined = w.undefined)}
           T == [k \in 0..Len(s) |-> V]
<1>1. Len(s) \in Nat /\ ToSet(s) \subseteq Activity /\ \A k \in 1..Len(s) : s[k] \in ToSet(s)
  BY ElementsFacts
<1>2. w \in V
  BY CalmReflexive DEF Low
<1>3. ASSUME NEW v \in V, NEW x \in ToSet(s) PROVE SetForeground(v, x, b) \in V
  <2>1. Low(v) /\ AppOf(v, x) # 0 /\ x \in Activity
    BY <1>1, QuietKeepsApp
  <2>2. Quiet(v, SetForeground(v, x, b))
    BY <2>1, SetForegroundQuiet
  <2>3. QED
    BY <2>2, CalmTransitive DEF Quiet, Calm, Low
<1> HIDE DEF V
<1>4. w \in T[0] /\ T[Len(s)] = V /\ \A k \in 1..Len(s) : T[k] = V
  BY <1>1, <1>2
<1> HIDE DEF T
<1>5. Foregrounds(w, s, b) \in V \intersect T[Len(s)]
  BY <1>1, <1>2, <1>3, <1>4, ForegroundLoop
<1>6. QED
  BY <1>5 DEF V

\* What is on top leaves.
LEMMA LeaveCalm ==
    ASSUME NEW w, Low(w), NEW x \in Activity, AppOf(w, x) # 0, NEW b \in BOOLEAN
    PROVE  LET v == Leave(w, x, b)
           IN Calm(w, v) /\ ((b => ~Freed(w, x)) => v.undefined = w.undefined)
<1> DEFINE u == LifecycleTransition(w, x, DESTROYED)
<1>1. Quiet(w, u)
  BY TransitionQuiet DEF Status
<1>2. Leave(w, x, b) = IF b THEN ChangeForeground(u, x, FALSE) ELSE u
  BY DEF Leave
<1> HIDE DEF u
<1>3. Low(u) /\ AppOf(u, x) # 0 /\ (Freed(u, x) <=> Freed(w, x))
  BY <1>1, QuietKeepsApp, FreedStays DEF Quiet, Calm, Low
<1>4. Calm(u, ChangeForeground(u, x, FALSE))
      /\ (~Freed(u, x) => ChangeForeground(u, x, FALSE).undefined = u.undefined)
  BY <1>3, ChangeForegroundQuiet
<1>5. Calm(w, ChangeForeground(u, x, FALSE))
  BY <1>1, <1>4, CalmTransitive DEF Quiet
<1>6. QED
  BY <1>1, <1>2, <1>3, <1>4, <1>5 DEF Quiet

\* ... and all on top of an activity.
LEMMA LeaveAll ==
    ASSUME NEW w, Low(w), NEW s \in Seq(Activity), \A x \in ToSet(s) :
                  AppOf(w, x) # 0, NEW b \in BOOLEAN
    PROVE  LET v == Leaves(w, s, b)
           IN Calm(w, v) /\ ((b => \A x \in ToSet(s) : ~Freed(w, x)) => v.undefined = w.undefined)
<1> DEFINE g == (b => \A x \in ToSet(s) : ~Freed(w, x))
           V == {v \in HeapType : Calm(w, v) /\ (g => v.undefined = w.undefined)}
           T == [k \in 0..Len(s) |-> V]
<1>1. Len(s) \in Nat /\ ToSet(s) \subseteq Activity /\ \A k \in 1..Len(s) : s[k] \in ToSet(s)
  BY ElementsFacts
<1>2. w \in V
  BY CalmReflexive DEF Low
<1>3. ASSUME NEW v \in V, NEW x \in ToSet(s) PROVE Leave(v, x, b) \in V
  <2>1. Low(v) /\ AppOf(v, x) # 0 /\ x \in Activity /\ (Freed(v, x) <=> Freed(w, x))
    BY <1>1, QuietKeepsApp, FreedStays DEF Calm, Low
  <2>2. Calm(v, Leave(v, x, b)) /\ ((b => ~Freed(v, x)) => Leave(v, x, b).undefined = v.undefined)
    BY <2>1, LeaveCalm
  <2>3. Calm(w, Leave(v, x, b)) /\ Leave(v, x, b) \in HeapType
    BY <2>2, CalmTransitive DEF Calm, Low
  <2>4. QED
    BY <2>1, <2>2, <2>3
<1> HIDE DEF V
<1>4. w \in T[0] /\ T[Len(s)] = V /\ \A k \in 1..Len(s) : T[k] = V
  BY <1>1, <1>2
<1> HIDE DEF T
<1>5. Leaves(w, s, b) \in V \intersect T[Len(s)]
  BY <1>1, <1>2, <1>3, <1>4, LeaveLoop
<1>6. QED
  BY <1>5 DEF V

\* Destroying activities one after the other.
LEMMA DestroyAll ==
    ASSUME NEW w, Low(w), NEW s \in Seq(Activity), \A x \in ToSet(s) : AppOf(w, x) # 0
    PROVE  LET v == FoldLeft(LAMBDA v, x : LifecycleTransition(v, x, DESTROYED), w, s)
           IN Calm(w, v) /\ (TRUE => v.undefined = w.undefined)
<1> DEFINE g == TRUE
           V == {v \in HeapType : Calm(w, v) /\ (g => v.undefined = w.undefined)}
           T == [k \in 0..Len(s) |-> V]
<1>1. Len(s) \in Nat /\ ToSet(s) \subseteq Activity /\ \A k \in 1..Len(s) : s[k] \in ToSet(s)
  BY ElementsFacts
<1>2. w \in V
  BY CalmReflexive DEF Low
<1>3. ASSUME NEW v \in V, NEW x \in ToSet(s) PROVE LifecycleTransition(v, x, DESTROYED) \in V
  <2>1. Low(v) /\ AppOf(v, x) # 0 /\ x \in Activity
    BY <1>1, QuietKeepsApp
  <2>2. Quiet(v, LifecycleTransition(v, x, DESTROYED))
    BY <2>1, TransitionQuiet DEF Status
  <2>3. QED
    BY <2>2, CalmTransitive DEF Quiet, Calm, Low
<1> HIDE DEF V
<1>4. w \in T[0] /\ T[Len(s)] = V /\ \A k \in 1..Len(s) : T[k] = V
  BY <1>1, <1>2
<1> HIDE DEF T
<1>5. FoldLeft(LAMBDA v, x : LifecycleTransition(v, x, DESTROYED), w, s) \in V \intersect T[Len(s)]
  BY <1>1, <1>2, <1>3, <1>4, DestroyLoop
<1>6. QED
  BY <1>5 DEF V

\* The system UI shows and hides its activities alike.
LEMMA UiChangeCalm ==
    ASSUME NEW w, Low(w), NEW x \in Activity, AppOf(w, x) # 0, NEW s \in Status
    PROVE  LET v == UiChange(w, x, s)
           IN /\ Calm(w, v) /\ (~Freed(w, x) => v.undefined = w.undefined)
              /\ s = RESUMED /\ ~Freed(w, x) /\ Ready(w, x) => x \in Exist(v, AppOf(w, x))
<1> DEFINE u == LifecycleTransition(w, x, s)
           v == ChangeForeground(u, x, s = RESUMED)
<1>1. /\ Quiet(w, u)
      /\ s = RESUMED /\ ~Freed(w, x) /\ Ready(w, x) => x \in Exist(u, AppOf(w, x))
  BY TransitionQuiet
<1>2. UiChange(w, x, s) = v
  BY DEF UiChange
<1> HIDE DEF u
<1>3. Low(u) /\ AppOf(u, x) # 0 /\ (Freed(u, x) <=> Freed(w, x)) /\ AppOf(w, x) \in Proc
  BY <1>1, QuietKeepsApp, FreedStays, AppFacts DEF Quiet, Calm, Low
<1>4. Calm(u, v) /\ (~Freed(u, x) => v.undefined = u.undefined)
  <2>1. (s = RESUMED) \in BOOLEAN
    OBVIOUS
  <2>2. QED
    BY <2>1, <1>3, ChangeForegroundQuiet
<1> HIDE DEF v
<1>5. Calm(w, v)
  BY <1>1, <1>4, CalmTransitive DEF Quiet
<1>6. QED
  BY <1>1, <1>2, <1>3, <1>4, <1>5 DEF Quiet, Calm, Steady

\* ... and all activities of a task of the system UI.
LEMMA UiAll ==
    ASSUME NEW w, Low(w), NEW s \in Seq(Activity), \A x \in ToSet(s) :
                  AppOf(w, x) # 0, NEW to \in Status
    PROVE  LET v == UiChanges(w, s, to)
           IN Calm(w, v) /\ ((\A x \in ToSet(s) : ~Freed(w, x)) => v.undefined = w.undefined)
<1> DEFINE g == (\A x \in ToSet(s) : ~Freed(w, x))
           V == {v \in HeapType : Calm(w, v) /\ (g => v.undefined = w.undefined)}
           T == [k \in 0..Len(s) |-> V]
<1>1. Len(s) \in Nat /\ ToSet(s) \subseteq Activity /\ \A k \in 1..Len(s) : s[k] \in ToSet(s)
  BY ElementsFacts
<1>2. w \in V
  BY CalmReflexive DEF Low
<1>3. ASSUME NEW v \in V, NEW x \in ToSet(s) PROVE UiChange(v, x, to) \in V
  <2>1. Low(v) /\ AppOf(v, x) # 0 /\ x \in Activity /\ (Freed(v, x) <=> Freed(w, x))
    BY <1>1, QuietKeepsApp, FreedStays DEF Calm, Low
  <2>2. Calm(v, UiChange(v, x, to)) /\ (~Freed(v, x) => UiChange(v, x, to).undefined = v.undefined)
    BY <2>1, UiChangeCalm
  <2>3. Calm(w, UiChange(v, x, to)) /\ UiChange(v, x, to) \in HeapType
    BY <2>2, CalmTransitive DEF Calm, Low
  <2>4. QED
    BY <2>1, <2>2, <2>3
<1> HIDE DEF V
<1>4. w \in T[0] /\ T[Len(s)] = V /\ \A k \in 1..Len(s) : T[k] = V
  BY <1>1, <1>2
<1> HIDE DEF T
<1>5. UiChanges(w, s, to) \in V \intersect T[Len(s)]
  BY <1>1, <1>2, <1>3, <1>4, UiLoop
<1>6. QED
  BY <1>5 DEF V

\* ... which is what UiChangeTask does.
LEMMA UiChangeTaskCalm ==
    ASSUME NEW w, Low(w), NEW t \in Task, \A x \in On(w, t) : AppOf(w, x) # 0, NEW to \in Status
    PROVE  LET v == UiChangeTask(w, t, to)
           IN Calm(w, v) /\ ((\A x \in On(w, t) : ~Freed(w, x)) => v.undefined = w.undefined)
<1>1. w.stack[t] \in Seq(Activity)
  BY OnFacts DEF Low
<1>2. UiChangeTask(w, t, to) = UiChanges(w, w.stack[t], to)
  BY DEF UiChangeTask, UiChanges
<1>3. QED
  BY <1>1, <1>2, UiAll DEF On

\* ... for all tasks of the system UI.
LEMMA UiTaskAll ==
    ASSUME NEW w, Low(w), NEW s \in Seq(Task), Owned(w), NEW to \in Status
    PROVE  LET v == UiTaskChanges(w, s, to)
           IN Calm(w, v) /\ ((\A t \in ToSet(s) : \A x \in On(w, t) : ~Freed(w, x))
                         => v.undefined = w.undefined)
<1> DEFINE g == (\A t \in ToSet(s) : \A x \in On(w, t) : ~Freed(w, x))
           V == {v \in HeapType : Calm(w, v) /\ (g => v.undefined = w.undefined)}
           T == [k \in 0..Len(s) |-> V]
<1>1. Len(s) \in Nat /\ ToSet(s) \subseteq Task /\ \A k \in 1..Len(s) : s[k] \in ToSet(s)
  BY ElementsFacts
<1>2. w \in V
  BY CalmReflexive DEF Low
<1>3. ASSUME NEW v \in V, NEW x \in ToSet(s) PROVE UiChangeTask(v, x, to) \in V
  <2>1. /\ Low(v) /\ x \in Task /\ On(v, x) = On(w, x) /\ On(w, x) \subseteq Activity
        /\ \A y \in On(v, x) : AppOf(v, y) # 0 /\ (Freed(v, y) <=> Freed(w, y))
    <3>1. x \in Task /\ Low(v) /\ v.stack = w.stack /\ w \in HeapType /\ Steady(w, v)
      BY <1>1 DEF Calm, SameTasks, Low
    <3>2. On(w, x) \subseteq Activity /\ On(v, x) = On(w, x)
      BY <3>1, OnFacts DEF On
    <3>3. QED
      BY <3>1, <3>2, QuietKeepsApp, FreedStays DEF Owned
  <2>2. /\ Calm(v, UiChangeTask(v, x, to))
        /\ (\A y \in On(v, x) : ~Freed(v, y)) => UiChangeTask(v, x, to).undefined = v.undefined
    BY <2>1, UiChangeTaskCalm
  <2>3. Calm(w, UiChangeTask(v, x, to)) /\ UiChangeTask(v, x, to) \in HeapType
    BY <2>2, CalmTransitive DEF Calm, Low
  <2>4. QED
    BY <2>1, <2>2, <2>3
<1> HIDE DEF V
<1>4. w \in T[0] /\ T[Len(s)] = V /\ \A k \in 1..Len(s) : T[k] = V
  BY <1>1, <1>2
<1> HIDE DEF T
<1>5. UiTaskChanges(w, s, to) \in V \intersect T[Len(s)]
  BY <1>1, <1>2, <1>3, <1>4, UiTaskLoop
<1>6. QED
  BY <1>5 DEF V

-----------------------------------------------------------------------------
(* The task manager of the standard mode: what its methods do with the       *)
(* tasks.  The activities, whose they are and what the processes know of     *)
(* them they leave, and they ask only for what the activities can do.        *)

\* Two moves are one.
LEMMA MovesTransitive ==
    ASSUME NEW w, Low(w), NEW u, Moves(w, u), NEW v, Moves(u, v)
    PROVE  Moves(w, v)
BY SteadyTransitive DEF Moves, Low

\* A calm step is a move that leaves the tasks alone.
LEMMA CalmMoves ==
    ASSUME NEW w, NEW v, Calm(w, v)
    PROVE  Moves(w, v) /\ SameLists(w, v) /\ v.stack = w.stack /\ Active(v) = Active(w)
BY DEF Calm, Moves, SameTasks, SameLists, Active

\* Doing nothing is a move.
LEMMA MovesReflexive ==
    ASSUME NEW w, Low(w)
    PROVE  Moves(w, w)
BY SteadyReflexive DEF Moves

\* What a move keeps.
LEMMA MovesKeeps ==
    ASSUME NEW w, Low(w), NEW v, Moves(w, v)
    PROVE  /\ Low(v) /\ v \in HeapType
           /\ \A x \in Activity : /\ AppOf(v, x) = AppOf(w, x) /\ (Freed(v, x) <=> Freed(w, x))
                                  /\ ~Freed(w, x) /\ Ready(w, x) => Ready(v, x)
BY FreedStays DEF Moves, Low, Steady, AppOf

\* Another stack, list or home task.
LEMMA OnlyTasks ==
    ASSUME NEW w, Low(w), NEW v \in HeapType,
           v.act = w.act, v.activities = w.activities, v.tag = w.tag, v.tasks = w.tasks,
           v.proc = w.proc, v.procs = w.procs, v.pend = w.pend, v.launch = w.launch
    PROVE  Moves(w, v)
<1>1. Low(v)
  BY DEF Low, ActsOK, ProcOK, PendOK, AppOf, Exist
<1>2. Steady(w, v)
  BY DEF Steady, Ready, AppOf, Exist
<1>3. QED
  BY <1>1, <1>2 DEF Moves

\* Assigning a stack.
LEMMA StackSet ==
    ASSUME NEW w, Low(w), NEW t \in Task, NEW q \in Seq(Activity)
    PROVE  LET v == [w EXCEPT !.stack[t] = q]
           IN /\ Moves(w, v) /\ SameLists(w, v) /\ v.undefined = w.undefined
              /\ v.stack = [w.stack EXCEPT ![t] = q]
              /\ v.act = w.act /\ v.proc = w.proc
<1> DEFINE v == [w EXCEPT !.stack[t] = q]
<1>1. /\ v \in HeapType /\ v.act = w.act /\ v.activities = w.activities /\ v.tag = w.tag
      /\ v.tasks = w.tasks /\ v.proc = w.proc /\ v.procs = w.procs /\ v.pend = w.pend
      /\ v.launch = w.launch /\ SameLists(w, v) /\ v.undefined = w.undefined
      /\ v.stack = [w.stack EXCEPT ![t] = q]
  BY DEF Low, HeapType, SameLists
<1> HIDE DEF v
<1>2. QED
  BY <1>1, OnlyTasks DEF v

\* Assigning the task list.
LEMMA ListSet ==
    ASSUME NEW w, Low(w), NEW q \in Seq(Task)
    PROVE  LET v == [w EXCEPT !.mAllTasks = q]
           IN /\ Moves(w, v) /\ v.mAllTasks = q /\ v.stack = w.stack /\ v.mHomeTask = w.mHomeTask
              /\ v.mSystemUITasks = w.mSystemUITasks /\ v.undefined = w.undefined
              /\ v.act = w.act /\ v.proc = w.proc
<1> DEFINE v == [w EXCEPT !.mAllTasks = q]
<1>1. /\ v \in HeapType /\ v.act = w.act /\ v.activities = w.activities /\ v.tag = w.tag
      /\ v.tasks = w.tasks /\ v.proc = w.proc /\ v.procs = w.procs /\ v.pend = w.pend
      /\ v.launch = w.launch /\ v.mAllTasks = q /\ v.stack = w.stack /\ v.mHomeTask = w.mHomeTask
      /\ v.mSystemUITasks = w.mSystemUITasks /\ v.undefined = w.undefined
  BY DEF Low, HeapType
<1> HIDE DEF v
<1>2. QED
  BY <1>1, OnlyTasks DEF v

\* Assigning the system UI's task list.
LEMMA UiListSet ==
    ASSUME NEW w, Low(w), NEW q \in Seq(Task)
    PROVE  LET v == [w EXCEPT !.mSystemUITasks = q]
           IN /\ Moves(w, v) /\ v.mSystemUITasks = q /\ v.stack = w.stack
                         /\ v.mHomeTask = w.mHomeTask
              /\ v.mAllTasks = w.mAllTasks /\ v.undefined = w.undefined
              /\ v.act = w.act /\ v.proc = w.proc
<1> DEFINE v == [w EXCEPT !.mSystemUITasks = q]
<1>1. /\ v \in HeapType /\ v.act = w.act /\ v.activities = w.activities /\ v.tag = w.tag
      /\ v.tasks = w.tasks /\ v.proc = w.proc /\ v.procs = w.procs /\ v.pend = w.pend
      /\ v.launch = w.launch /\ v.mSystemUITasks = q /\ v.stack = w.stack
                    /\ v.mHomeTask = w.mHomeTask
      /\ v.mAllTasks = w.mAllTasks /\ v.undefined = w.undefined
  BY DEF Low, HeapType
<1> HIDE DEF v
<1>2. QED
  BY <1>1, OnlyTasks DEF v

\* Assigning the home task.
LEMMA HomeSet ==
    ASSUME NEW w, Low(w), NEW t \in Task \union {0}
    PROVE  LET v == [w EXCEPT !.mHomeTask = t]
           IN /\ Moves(w, v) /\ v.mHomeTask = t /\ v.stack = w.stack /\ v.mAllTasks = w.mAllTasks
              /\ v.mSystemUITasks = w.mSystemUITasks /\ v.undefined = w.undefined
              /\ v.act = w.act /\ v.proc = w.proc
<1> DEFINE v == [w EXCEPT !.mHomeTask = t]
<1>1. /\ v \in HeapType /\ v.act = w.act /\ v.activities = w.activities /\ v.tag = w.tag
      /\ v.tasks = w.tasks /\ v.proc = w.proc /\ v.procs = w.procs /\ v.pend = w.pend
      /\ v.launch = w.launch /\ v.mHomeTask = t /\ v.stack = w.stack /\ v.mAllTasks = w.mAllTasks
      /\ v.mSystemUITasks = w.mSystemUITasks /\ v.undefined = w.undefined
  <2>1. t \in 0..MaxTasks /\ w \in HeapType
    BY BoundsAssumption DEF Low, Task
  <2>2. QED
    BY <2>1 DEF HeapType
<1> HIDE DEF v
<1>2. QED
  BY <1>1, OnlyTasks DEF v

\* The active task is null or listed.
LEMMA ActiveFacts ==
    ASSUME NEW w \in HeapType
    PROVE  /\ Active(w) \in Task \union {0}
           /\ Active(w) = 0 <=> w.mAllTasks = <<>>
           /\ Active(w) # 0 => Active(w) \in Task /\ Active(w) \in Listed(w)
<1>1. w.mAllTasks \in Seq(Task) /\ 0 \notin Task
  BY HeapParts DEF Task
<1>2. Listed(w) \subseteq Task
  BY <1>1, ElementsFacts DEF Listed
<1>3. w.mAllTasks # <<>> => Head(w.mAllTasks) \in Listed(w)
  BY <1>1, ElementsFacts DEF Listed
<1>4. QED
  BY <1>1, <1>2, <1>3 DEF Active

\* The top activity is null or on its task.
LEMMA TopFacts ==
    ASSUME NEW w \in HeapType, NEW t \in Task \union {0}
    PROVE  /\ Top(w, t) \in Activity \union {0}
           /\ Top(w, t) = 0 <=> t = 0 \/ w.stack[t] = <<>>
           /\ Top(w, t) # 0 => t \in Task /\ Top(w, t) \in Activity /\ Top(w, t) \in On(w, t)
<1>1. 0 \notin Activity
  BY DEF Activity
<1>2. CASE t = 0
  BY <1>2 DEF Top
<1>3. CASE t # 0
  <2>1. w.stack[t] \in Seq(Activity) /\ On(w, t) \subseteq Activity
    BY <1>3, OnFacts
  <2>2. w.stack[t] # <<>> => Last(w.stack[t]) \in On(w, t)
    BY <2>1, ElementsFacts DEF On
  <2>3. QED
    BY <1>1, <1>3, <2>1, <2>2 DEF Top
<1>4. QED
  BY <1>2, <1>3

\* Counting the activities of a task.
LEMMA StackForegroundQuiet ==
    ASSUME NEW w, Low(w), NEW t \in Task, \A x \in On(w, t) : AppOf(w, x) # 0, NEW b \in BOOLEAN
    PROVE  Quiet(w, StackForeground(w, t, b))
<1>1. w.stack[t] \in Seq(Activity)
  BY OnFacts DEF Low
<1>2. StackForeground(w, t, b) = Foregrounds(w, w.stack[t], b)
  BY DEF StackForeground, Foregrounds
<1>3. QED
  BY <1>1, <1>2, ForegroundAll DEF On, Quiet

\* Removing a task from the list.
LEMMA DeleteTaskMoves ==
    ASSUME NEW w, Low(w), NEW t
    PROVE  LET v == DeleteTask(w, t)
           IN /\ Moves(w, v) /\ v.stack = w.stack /\ v.mHomeTask = w.mHomeTask
              /\ v.mSystemUITasks = w.mSystemUITasks /\ v.undefined = w.undefined
              /\ Listed(v) = Listed(w) \ {t}
              /\ IsInjective(w.mAllTasks) => IsInjective(v.mAllTasks)
              /\ v.act = w.act /\ v.proc = w.proc
<1> DEFINE q == Without(w.mAllTasks, t)
<1>1. w.mAllTasks \in Seq(Task)
  BY HeapParts DEF Low
<1>2. /\ q \in Seq(Task) /\ ToSet(q) = Listed(w) \ {t}
      /\ IsInjective(w.mAllTasks) => IsInjective(q)
  BY <1>1, WithoutFacts DEF Listed
<1>3. DeleteTask(w, t) = [w EXCEPT !.mAllTasks = q]
  BY DEF DeleteTask
<1> HIDE DEF q
<1>4. QED
  BY <1>2, <1>3, ListSet DEF Listed

\* Making a task the active one.
LEMMA PushTaskToFrontMoves ==
    ASSUME NEW w, Low(w), Owned(w), NEW t \in Task
    PROVE  LET v == PushTaskToFront(w, t)
           IN /\ Moves(w, v) /\ v.stack = w.stack /\ v.mHomeTask = w.mHomeTask
              /\ v.mSystemUITasks = w.mSystemUITasks /\ v.undefined = w.undefined
              /\ Listed(v) = Listed(w) \union {t}
              /\ IsInjective(w.mAllTasks) => IsInjective(v.mAllTasks)
<1> DEFINE active == Active(w)
           left == IF active = 0 THEN w ELSE StackForeground(w, active, FALSE)
           u == DeleteTask(left, t)
           front == [u EXCEPT !.mAllTasks = <<t>> \o u.mAllTasks]
           v == PushTaskToFront(w, t)
<1>1. active \in Task \union {0} /\ (active # 0 => active \in Task /\ active \in Listed(w))
              /\ 0 \notin Task
  BY ActiveFacts DEF Low, Task
<1>2. CASE t = active
  <2>1. v = w
    BY <1>2 DEF PushTaskToFront
  <2>2. Listed(w) = Listed(w) \union {t}
    BY <1>1, <1>2
  <2>3. QED
    BY <2>1, <2>2, MovesReflexive
<1>3. CASE t # active
  <2>1. v = StackForeground(front, t, TRUE)
    BY <1>3 DEF PushTaskToFront
  <2>2. Quiet(w, left)
    <3>1. CASE active = 0
      BY <3>1, QuietReflexive
    <3>2. CASE active # 0
      BY <3>2, <1>1, StackForegroundQuiet DEF Owned
    <3>3. QED
      BY <3>1, <3>2
  <2> HIDE DEF left, v
  <2>3. Moves(w, left) /\ SameLists(w, left) /\ left.stack = w.stack /\ left.undefined = w.undefined
    BY <2>2, CalmMoves DEF Quiet
  <2>4. /\ Moves(left, u) /\ u.stack = left.stack /\ u.mHomeTask = left.mHomeTask
        /\ u.mSystemUITasks = left.mSystemUITasks /\ u.undefined = left.undefined
        /\ Listed(u) = Listed(left) \ {t}
        /\ IsInjective(left.mAllTasks) => IsInjective(u.mAllTasks)
    BY <2>3, DeleteTaskMoves DEF Moves
  <2> HIDE DEF u
  <2>5. u.mAllTasks \in Seq(Task) /\ Low(u)
    BY <2>4, HeapParts DEF Moves, Low
  <2>6. /\ <<t>> \o u.mAllTasks \in Seq(Task)
        /\ ToSet(<<t>> \o u.mAllTasks) = Listed(u) \union {t}
        /\ IsInjective(u.mAllTasks) /\ t \notin Listed(u) => IsInjective(<<t>> \o u.mAllTasks)
    BY <2>5, ConsFacts DEF Listed
  <2>7. /\ Moves(u, front) /\ front.mAllTasks = <<t>> \o u.mAllTasks /\ front.stack = u.stack
        /\ front.mHomeTask = u.mHomeTask /\ front.mSystemUITasks = u.mSystemUITasks
        /\ front.undefined = u.undefined
    BY <2>5, <2>6, ListSet
  <2> HIDE DEF front
  <2>8. Moves(w, u)
    BY <2>3, <2>4, MovesTransitive
  <2>9. Moves(w, front)
    BY <2>7, <2>8, MovesTransitive
  <2>10. Low(front) /\ \A x \in On(front, t) : AppOf(front, x) # 0
    <3>1. On(front, t) = On(w, t) /\ On(w, t) \subseteq Activity
      BY <2>3, <2>4, <2>7, OnFacts DEF On, Low
    <3>2. QED
      BY <3>1, <2>9, MovesKeeps DEF Owned
  <2>11. Quiet(front, v)
    BY <2>1, <2>10, StackForegroundQuiet
  <2>12. Moves(front, v) /\ SameLists(front, v) /\ v.stack = front.stack
                /\ v.undefined = front.undefined
    BY <2>11, CalmMoves DEF Quiet
  <2>13. Moves(w, v)
    BY <2>9, <2>12, MovesTransitive
  <2>14. Listed(v) = Listed(w) \union {t}
    BY <2>3, <2>4, <2>6, <2>7, <2>12 DEF Listed, SameLists
  <2>15. IsInjective(w.mAllTasks) => IsInjective(v.mAllTasks)
    BY <2>3, <2>4, <2>6, <2>7, <2>12 DEF SameLists
  <2>16. QED
    BY <2>3, <2>4, <2>7, <2>12, <2>13, <2>14, <2>15 DEF SameLists, v
<1>4. QED
  BY <1>2, <1>3

\* What a stack keeps below an activity.
LEMMA CutFacts ==
    ASSUME NEW S, NEW s \in Seq(S), NEW i \in 0..Len(s)
    PROVE  /\ SubSeq(s, 1, i) \in Seq(S) /\ ToSet(SubSeq(s, 1, i)) \subseteq ToSet(s)
           /\ SubSeq(s, 1, i) = <<>> <=> i = 0
           /\ IsInjective(s) => IsInjective(SubSeq(s, 1, i))
<1>1. Len(s) \in Nat /\ 1 \in 1..(Len(s) + 1)
  OBVIOUS
<1>2. i < 1 <=> i = 0
  OBVIOUS
<1>3. QED
  BY <1>1, <1>2, PartFacts

\* What is on top of x leaves the task, all of it if x is not there.
LEMMA PopAboveMoves ==
    ASSUME NEW w, Low(w), NEW t \in Task, \A y \in On(w, t) : AppOf(w, y) # 0, NEW x
    PROVE  LET v == PopAbove(w, t, x)
           IN /\ Moves(w, v) /\ SameLists(w, v)
              /\ v.stack = [w.stack EXCEPT ![t] = SubSeq(w.stack[t], 1, Place(w.stack[t], x))]
              /\ (t = Active(w) => \A y \in On(w, t) : ~Freed(w, y)) => v.undefined = w.undefined
<1> DEFINE s == w.stack[t]
           n == Len(s)
           place == Place(s, x)
           above == Reverse(SubSeq(s, place + 1, n))
           b == t = Active(w)
           u == Leaves(w, above, b)
           q == SubSeq(s, 1, place)
           v == PopAbove(w, t, x)
<1>1. s \in Seq(Activity) /\ n \in Nat /\ place \in 0..n /\ ToSet(s) = On(w, t)
  BY OnFacts, PlaceFacts DEF Low, On
<1>2. above \in Seq(Activity) /\ ToSet(above) \subseteq On(w, t)
  <2>1. place + 1 \in 1..(n + 1) /\ n \in 0..n
    BY <1>1
  <2>2. /\ SubSeq(s, place + 1, n) \in Seq(Activity)
        /\ ToSet(SubSeq(s, place + 1, n)) \subseteq ToSet(s)
    BY <2>1, <1>1, PartFacts
  <2>3. QED
    BY <2>2, <1>1, ReverseFacts
<1>3. q \in Seq(Activity)
  BY <1>1, CutFacts
<1>4. v = [u EXCEPT !.stack[t] = SubSeq(u.stack[t], 1, place)]
  BY DEF PopAbove, Leaves, Leave
<1> HIDE DEF above, place, v, u
<1>5. Calm(w, u) /\ ((b => \A y \in ToSet(above) : ~Freed(w, y)) => u.undefined = w.undefined)
  <2>1. b \in BOOLEAN
    OBVIOUS
  <2> HIDE DEF b
  <2>2. QED
    BY <2>1, <1>2, LeaveAll DEF u
<1>6. Moves(w, u) /\ SameLists(w, u) /\ u.stack = w.stack /\ Low(u)
  BY <1>5, CalmMoves DEF Moves
<1>7. v = [u EXCEPT !.stack[t] = q]
  BY <1>4, <1>6
<1> HIDE DEF q
<1>8. /\ Moves(u, v) /\ SameLists(u, v) /\ v.undefined = u.undefined
      /\ v.stack = [u.stack EXCEPT ![t] = q]
  BY <1>3, <1>6, <1>7, StackSet
<1>9. Moves(w, v)
  BY <1>6, <1>8, MovesTransitive
<1>10. SameLists(w, v) /\ v.stack = [w.stack EXCEPT ![t] = q]
  BY <1>6, <1>8 DEF SameLists
<1>11. (b => \A y \in On(w, t) : ~Freed(w, y)) => v.undefined = w.undefined
  BY <1>2, <1>5, <1>8
<1>12. QED
  BY <1>9, <1>10, <1>11 DEF v, q, place

\* x leaves the task, with what is on top of it.
LEMMA PopThroughMoves ==
    ASSUME NEW w, Low(w), NEW t \in Task, \A y \in On(w, t) : AppOf(w, y) # 0, NEW x,
           IsInjective(w.stack[t])
    PROVE  LET v == PopThrough(w, t, x)
           IN /\ Moves(w, v) /\ SameLists(w, v) /\ v.undefined = w.undefined
              /\ \A r \in Task : r # t => v.stack[r] = w.stack[r]
              /\ On(v, t) \subseteq On(w, t) \ {x} /\ IsInjective(v.stack[t])
<1> DEFINE s == w.stack[t]
           n == Len(s)
           place == Place(s, x)
           gone == Reverse(SubSeq(s, place, n))
           u == FoldLeft(LAMBDA v, y : LifecycleTransition(v, y, DESTROYED), w, gone)
           q == SubSeq(s, 1, place - 1)
           v == PopThrough(w, t, x)
<1>1. s \in Seq(Activity) /\ n \in Nat /\ place \in 0..n /\ ToSet(s) = On(w, t)
  BY OnFacts, PlaceFacts DEF Low, On
<1>2. CASE ~Contains(s, x)
  <2>1. v = w /\ x \notin On(w, t)
    BY <1>1, <1>2, ElementsFacts DEF PopThrough
  <2>2. QED
    BY <2>1, MovesReflexive DEF SameLists
<1>3. CASE Contains(s, x)
  <2>1. place \in 1..n /\ s[place] = x
    BY <1>1, <1>3, ElementsFacts, PlaceFacts
  <2>2. gone \in Seq(Activity) /\ ToSet(gone) \subseteq On(w, t)
    <3>1. place \in 1..(n + 1) /\ n \in 0..n
      BY <1>1, <2>1
    <3>2. /\ SubSeq(s, place, n) \in Seq(Activity)
          /\ ToSet(SubSeq(s, place, n)) \subseteq ToSet(s)
      BY <3>1, <1>1, PartFacts
    <3>3. QED
      BY <3>2, <1>1, ReverseFacts
  <2>3. q \in Seq(Activity) /\ ToSet(q) \subseteq On(w, t) \ {x} /\ IsInjective(q)
    <3>1. place - 1 \in 0..n /\ 1 \in 1..(n + 1)
      BY <1>1, <2>1
    <3>2. /\ q \in Seq(Activity) /\ ToSet(q) = {s[k] : k \in 1..(place - 1)}
          /\ ToSet(q) \subseteq ToSet(s) /\ IsInjective(q)
      BY <3>1, <1>1, PartFacts
    <3>3. \A k \in 1..(place - 1) : s[k] # x
      <4>1. \A k \in 1..(place - 1) : k \in 1..n /\ k # place
        BY <1>1, <2>1
      <4>2. DOMAIN s = 1..n
        BY <1>1
      <4>3. QED
        BY <4>1, <4>2, <2>1 DEF IsInjective
    <3>4. QED
      BY <3>2, <3>3, <1>1
  <2>4. v = [u EXCEPT !.stack[t] = SubSeq(u.stack[t], 1, place - 1)]
    BY <1>3 DEF PopThrough
  <2> HIDE DEF gone, place, v, u
  <2>5. Calm(w, u) /\ u.undefined = w.undefined
    BY <2>2, DestroyAll DEF u
  <2>6. Moves(w, u) /\ SameLists(w, u) /\ u.stack = w.stack /\ Low(u)
    BY <2>5, CalmMoves DEF Moves
  <2>7. v = [u EXCEPT !.stack[t] = q]
    BY <2>4, <2>6
  <2> HIDE DEF q
  <2>8. /\ Moves(u, v) /\ SameLists(u, v) /\ v.undefined = u.undefined
        /\ v.stack = [u.stack EXCEPT ![t] = q]
    BY <2>3, <2>6, <2>7, StackSet, SMTT(20)
  <2>9. Moves(w, v)
    BY <2>6, <2>8, MovesTransitive
  <2>10. v.stack[t] = q /\ \A r \in Task : r # t => v.stack[r] = w.stack[r]
    BY <2>6, <2>8, HeapParts DEF Low
  <2>11. QED
    BY <2>3, <2>5, <2>6, <2>8, <2>9, <2>10 DEF SameLists, On, v
<1>4. QED
  BY <1>2, <1>3

\* Resuming an activity, with one that waits for it; a new one comes to be known.
LEMMA ResumeForQuiet ==
    ASSUME NEW w, Low(w), NEW x \in Activity, AppOf(w, x) # 0,
           NEW y \in Activity \union {0}, y # 0 => AppOf(w, y) # 0
    PROVE  LET v == ResumeFor(w, x, y)
           IN /\ Quiet(w, v)
              /\ ~Freed(w, x) /\ Ready(w, x) => x \in Exist(v, AppOf(w, x))
<1> DEFINE u == LifecycleTransition(w, x, RESUMED)
           v == ResumeFor(w, x, y)
<1>1. /\ Quiet(w, u)
      /\ ~Freed(w, x) /\ Ready(w, x) => x \in Exist(u, AppOf(w, x))
  BY TransitionQuiet DEF Status
<1>2. v = IF y = 0 THEN u ELSE Commit(u, "WAIT_RESUME", x, y)
  BY DEF ResumeFor
<1> HIDE DEF u, v
<1>3. Quiet(u, v) /\ v.proc = u.proc
  <2>1. Low(u) /\ AppOf(u, x) # 0 /\ (y # 0 => AppOf(u, y) # 0)
    BY <1>1, QuietKeepsApp DEF Quiet
  <2>2. CASE y = 0
    BY <2>1, <2>2, <1>2, QuietReflexive
  <2>3. CASE y # 0
    <3>1. y \in Activity /\ y \in 0..MaxActivities
      BY <2>3 DEF Activity
    <3>2. QED
      BY <3>1, <2>1, <2>3, <1>2, CommitQuiet
  <2>4. QED
    BY <2>2, <2>3
<1>4. Quiet(w, v)
  BY <1>1, <1>3, QuietTransitive
<1>5. QED
  BY <1>1, <1>3, <1>4 DEF Exist, v

-----------------------------------------------------------------------------
(* What keeps the invariant.                                                *)

\* What Base says of references.
LEMMA BaseFacts ==
    ASSUME NEW w, Base(w)
    PROVE  /\ Low(w) /\ w \in HeapType /\ Owned(w)
           /\ Made(w) \subseteq Activity /\ w.activities \in Nat /\ w.tasks \in Nat
                         /\ 1..w.tasks \subseteq Task
           /\ Listed(w) \subseteq Task /\ UiListed(w) \subseteq Task
           /\ w.mHomeTask \in Task \union {0} /\ 0 \notin Task
           /\ IsInjective(w.mAllTasks)
           /\ \A t \in Task : /\ On(w, t) \subseteq Made(w) /\ IsInjective(w.stack[t])
                              /\ \A x \in On(w, t) : AppOf(w, x) # 0 /\ w.act[x].mInTask = t
<1>1. Low(w) /\ w \in HeapType /\ Owned(w) /\ IsInjective(w.mAllTasks)
  BY DEF Base, Low, Placed, Owned
<1>2. /\ w.activities \in 0..MaxActivities /\ w.tasks \in 0..MaxTasks /\ w.mHomeTask \in 0..MaxTasks
      /\ MaxActivities \in Nat /\ MaxTasks \in Nat
  BY <1>1, HeapParts, BoundsAssumption
<1>3. /\ Made(w) \subseteq Activity /\ w.activities \in Nat /\ w.tasks \in Nat
              /\ 1..w.tasks \subseteq Task
      /\ w.mHomeTask \in Task \union {0} /\ 0 \notin Task
  BY <1>2 DEF Made, Activity, Task
<1>4. Listed(w) \subseteq 1..w.tasks /\ UiListed(w) \subseteq 1..w.tasks
  BY DEF Base, Numbered
<1>5. ASSUME NEW t \in Task
      PROVE  /\ On(w, t) \subseteq Made(w) /\ IsInjective(w.stack[t])
             /\ \A x \in On(w, t) : AppOf(w, x) # 0 /\ w.act[x].mInTask = t
  <2>1. On(w, t) \subseteq Activity
    BY <1>1, OnFacts
  <2>2. IsInjective(w.stack[t]) /\ \A x \in On(w, t) : AppOf(w, x) # 0 /\ w.act[x].mInTask = t
    BY DEF Base, Placed
  <2>3. \A x \in On(w, t) : x <= w.activities /\ x \in Nat /\ x >= 1
    BY <2>1, <2>2 DEF Base, Numbered, Activity
  <2>4. On(w, t) \subseteq Made(w)
    BY <2>3, <1>3 DEF Made
  <2>5. QED
    BY <2>2, <2>4
<1>6. QED
  BY <1>1, <1>3, <1>4, <1>5

\* A loose step keeps Base when its tasks are placed and of one kind.
LEMMA BaseKept ==
    ASSUME NEW w, Base(w), NEW v, Low(v), NEW X, Loose(w, v, X),
           Listed(v) \union UiListed(v) \subseteq 1..w.tasks, v.mHomeTask <= w.tasks,
           IsInjective(v.mAllTasks), Listed(v) \intersect UiListed(v) = {},
           \A t \in Task : /\ IsInjective(v.stack[t])
                           /\ \A x \in On(v, t) : AppOf(w, x) # 0 /\ w.act[x].mInTask = t,
           \A x \in Made(w) : /\ w.act[x].mInTask \in Listed(v) => ~IsSystemUI(w, x)
                              /\ w.act[x].mInTask \in UiListed(v) => IsSystemUI(w, x)
    PROVE  Base(v)
<1>1. /\ v.activities = w.activities /\ v.tasks = w.tasks /\ v.procs = w.procs
              /\ v.launch = w.launch
      /\ Made(v) = Made(w) /\ Made(w) \subseteq Activity
      /\ \A x \in Activity : /\ v.act[x].name = w.act[x].name /\ v.act[x].mInTask = w.act[x].mInTask
                             /\ AppOf(v, x) = AppOf(w, x) /\ IsSystemUI(v, x) = IsSystemUI(w, x)
      /\ \A p \in Proc : w.proc[p].mStatus = "NONE" => v.proc[p].mStatus = "NONE"
  BY BaseFacts DEF Loose, Made, AppOf, IsSystemUI
<1>2. Numbered(v)
  BY <1>1 DEF Base, Numbered
<1>3. Placed(v)
  <2>1. \A t \in Task : On(v, t) \subseteq Activity
    BY OnFacts DEF Low
  <2>2. QED
    BY <1>1, <2>1 DEF Placed
<1>4. Launches(v)
  <2>1. \A l \in ToSet(w.launch) : l.activity \in Activity
    <3>1. w.launch \in Seq(LaunchType)
      BY BaseFacts, HeapParts
    <3>2. ToSet(w.launch) \subseteq LaunchType
      BY <3>1, ElementsFacts
    <3>3. \A l \in LaunchType : l.activity \in Activity
      BY DEF LaunchType
    <3>4. QED
      BY <3>2, <3>3
  <2>2. QED
    BY <1>1, <2>1 DEF Base, Launches
<1>5. Kinds(v)
  BY <1>1 DEF Base, Kinds
<1>6. QED
  BY <1>2, <1>3, <1>4, <1>5 DEF Base

\* A loose step that only removes from tasks and lists keeps Base.
LEMMA ShrunkKept ==
    ASSUME NEW w, Base(w), NEW v, Low(v), NEW X, Loose(w, v, X), Shrinks(w, v),
           NEW Y, CountedBut(w, Y)
    PROVE  Base(v) /\ CountedBut(v, X \union Y)
<1>1. /\ Listed(v) \subseteq Listed(w) /\ UiListed(v) \subseteq UiListed(w)
      /\ v.mHomeTask \in {0, w.mHomeTask} \union Listed(w)
      /\ IsInjective(v.mAllTasks)
      /\ \A t \in Task : On(v, t) \subseteq On(w, t) /\ IsInjective(v.stack[t])
  BY BaseFacts DEF Shrinks
<1>2. Base(v)
  <2>1. v.mHomeTask <= w.tasks
    <3>1. w.mHomeTask <= w.tasks /\ w.tasks \in Nat /\ Listed(w) \subseteq 1..w.tasks
      BY BaseFacts DEF Base, Numbered
    <3>2. QED
      BY <3>1, <1>1
  <2>2. Listed(v) \union UiListed(v) \subseteq 1..w.tasks /\ Listed(v) \intersect UiListed(v) = {}
    BY <1>1 DEF Base, Numbered, Kinds
  <2>3. \A x \in Made(w) : /\ w.act[x].mInTask \in Listed(v) => ~IsSystemUI(w, x)
                           /\ w.act[x].mInTask \in UiListed(v) => IsSystemUI(w, x)
    BY <1>1 DEF Base, Kinds
  <2>4. \A t \in Task : \A x \in On(v, t) : AppOf(w, x) # 0 /\ w.act[x].mInTask = t
    BY <1>1, BaseFacts
  <2>5. QED
    BY <1>1, <2>1, <2>2, <2>3, <2>4, BaseKept
<1>3. CountedBut(v, X \union Y)
  <2> SUFFICES ASSUME NEW t \in Task, Kept(v, t), NEW x \in On(v, t), x \notin X, x \notin Y
               PROVE  x \in Exist(v, AppOf(v, x))
    BY DEF CountedBut
  <2>1. Kept(w, t)
    <3>1. v.launch = w.launch /\ t # 0
      BY BaseFacts DEF Loose
    <3>2. QED
      BY <3>1, <1>1 DEF Kept
  <2>2. x \in On(w, t) /\ x \in Activity /\ AppOf(w, x) # 0
    BY <1>1, BaseFacts
  <2>3. AppOf(w, x) \in Proc /\ AppOf(v, x) = AppOf(w, x)
    BY <2>2, AppFacts, BaseFacts DEF Loose, AppOf
  <2>4. x \in Exist(w, AppOf(w, x))
    BY <2>1, <2>2 DEF CountedBut
  <2>5. QED
    BY <2>3, <2>4 DEF Loose
<1>4. QED
  BY <1>2, <1>3

\* What is on a kept task belongs to a process that has not ended.
LEMMA KeptFacts ==
    ASSUME NEW w, Base(w), CountedBut(w, {}), NEW t \in Task, Kept(w, t), NEW x \in On(w, t)
    PROVE  x \in Activity /\ AppOf(w, x) # 0 /\ x \in Exist(w, AppOf(w, x)) /\ ~Freed(w, x)
<1>1. x \in Activity /\ AppOf(w, x) # 0
  BY BaseFacts
<1>2. x \in Exist(w, AppOf(w, x))
  BY DEF CountedBut
<1>3. QED
  BY <1>1, <1>2, AppFacts, BaseFacts

\* Leaving the tasks alone removes nothing and keeps them tidy.
LEMMA SameShrinks ==
    ASSUME NEW w, NEW v, SameTasks(w, v)
    PROVE  Shrinks(w, v) /\ (Tidy(w) => Tidy(v))
<1>1. /\ Listed(v) = Listed(w) /\ UiListed(v) = UiListed(w) /\ v.mAllTasks = w.mAllTasks
      /\ v.mHomeTask = w.mHomeTask /\ v.stack = w.stack /\ \A t : On(v, t) = On(w, t)
  BY DEF SameTasks, Listed, UiListed, On
<1>2. QED
  BY <1>1 DEF Shrinks, Tidy, NonEmpty, HomeListed, AllListed

\* A loose step that leaves the tasks alone.
LEMMA LooseFine ==
    ASSUME NEW w, NEW X, Fine(w, X), NEW v, Low(v), NEW Y, Loose(w, v, Y), SameTasks(w, v),
           Careful(v)
    PROVE  Fine(v, Y \union X)
BY ShrunkKept, SameShrinks DEF Fine

\* A calm step keeps the invariant, if it is careful.
LEMMA CalmFine ==
    ASSUME NEW w, NEW X, Fine(w, X), NEW v, Calm(w, v), Careful(v)
    PROVE  Fine(v, X) /\ Loose(w, v, {})
<1>1. Low(v) /\ Loose(w, v, {}) /\ SameTasks(w, v)
  BY SteadyIsLoose DEF Calm
<1>2. {} \union X = X
  OBVIOUS
<1>3. QED
  BY <1>1, <1>2, LooseFine

\* A quiet step keeps the invariant.
LEMMA QuietFine ==
    ASSUME NEW w, NEW X, Fine(w, X), NEW v, Quiet(w, v)
    PROVE  Fine(v, X) /\ Loose(w, v, {})
<1>1. Careful(v)
  BY DEF Quiet, Careful, Fine
<1>2. QED
  BY <1>1, CalmFine DEF Quiet

\* Lists and stacks change, and the invariant is what is left of it.
LEMMA MovesFine ==
    ASSUME NEW w, NEW X, Fine(w, X), NEW v, Moves(w, v), Shrinks(w, v), Tidy(v), Careful(v)
    PROVE  Fine(v, X) /\ Loose(w, v, {})
<1>1. Low(v) /\ Loose(w, v, {})
  BY SteadyIsLoose DEF Moves
<1>2. Base(v) /\ CountedBut(v, {} \union X)
  BY <1>1, ShrunkKept DEF Fine
<1>3. {} \union X = X
  OBVIOUS
<1>4. QED
  BY <1>1, <1>2, <1>3 DEF Fine

-----------------------------------------------------------------------------
(* The task manager of the standard mode keeps the invariant.               *)

\* The active task is null when nothing is listed.
LEMMA ListedFacts ==
    ASSUME NEW w \in HeapType
    PROVE  /\ w.mAllTasks \in Seq(Task) /\ Listed(w) \subseteq Task
           /\ w.mAllTasks = <<>> <=> Listed(w) = {}
           /\ Active(w) = 0 <=> Listed(w) = {}
           /\ Active(w) # 0 => Active(w) \in Listed(w)
<1>1. w.mAllTasks \in Seq(Task)
  BY HeapParts
<1>2. QED
  BY <1>1, ElementsFacts, ActiveFacts DEF Listed

\* The same tasks in another order.
LEMMA SameSetsFine ==
    ASSUME NEW w, NEW X, Fine(w, X), NEW v, Moves(w, v), v.stack = w.stack, v.mHomeTask = w.mHomeTask,
           v.mSystemUITasks = w.mSystemUITasks, Listed(v) \subseteq Listed(w),
           NonEmpty(w) /\ HomeListed(w) => Listed(v) = Listed(w),
           IsInjective(v.mAllTasks), Careful(v)
    PROVE  Fine(v, X) /\ Loose(w, v, {})
<1>1. Shrinks(w, v)
  BY DEF Shrinks, UiListed, On
<1>2. Tidy(v)
  <2>1. w \in HeapType /\ v \in HeapType
    BY BaseFacts DEF Fine, Moves, Low
  <2>2. NonEmpty(w) => NonEmpty(v)
    BY DEF NonEmpty
  <2>3. NonEmpty(w) /\ HomeListed(w) => HomeListed(v)
    BY <2>1, ListedFacts DEF HomeListed
  <2>4. NonEmpty(w) /\ HomeListed(w) /\ AllListed(w) => AllListed(v)
    BY DEF AllListed
  <2>5. QED
    BY <2>2, <2>3, <2>4 DEF Tidy, Fine
<1>3. QED
  BY <1>1, <1>2, MovesFine

\* A top activity is on its task and has a process; the active task has one.
LEMMA TopIsOwned ==
    ASSUME NEW w, Base(w), NEW t \in Task \union {0}
    PROVE  /\ Top(w, t) \in Activity \union {0} /\ 0 \notin Activity
           /\ Top(w, t) # 0 => /\ t \in Task /\ Top(w, t) \in Activity /\ Top(w, t) \in On(w, t)
                               /\ AppOf(w, Top(w, t)) # 0
           /\ t \in Listed(w) /\ NonEmpty(w) => Top(w, t) # 0
           /\ Active(w) \in Task \union {0}
<1>1. w \in HeapType /\ 0 \notin Activity /\ Listed(w) \subseteq Task /\ 0 \notin Task
  BY BaseFacts DEF Activity
<1>2. QED
  BY <1>1, TopFacts, BaseFacts, ActiveFacts DEF NonEmpty

\* SwitchTaskToActive() keeps the invariant.
LEMMA SwitchFine ==
    ASSUME NEW w, NEW X, Fine(w, X), NEW t \in Listed(w)
    PROVE  Fine(SwitchTaskToActive(w, t), X) /\ Loose(w, SwitchTaskToActive(w, t), {})
<1> DEFINE current == Top(w, Active(w))
           next == Top(w, t)
           u == LifecycleTransition(w, current, PAUSED)
           r == ResumeFor(u, next, current)
           v == SwitchTaskToActive(w, t)
<1>1. /\ Base(w) /\ Low(w) /\ w \in HeapType /\ t \in Task /\ Owned(w) /\ Active(w) # 0
              /\ Active(w) \in Listed(w)
      /\ Active(w) \in Task /\ IsInjective(w.mAllTasks)
  BY BaseFacts, ListedFacts DEF Fine
<1>2. CASE t = Active(w)
  BY <1>1, <1>2, QuietFine, QuietReflexive DEF SwitchTaskToActive
<1>3. CASE t # Active(w)
  <2>1. /\ current \in Activity \union {0} /\ (current # 0 => AppOf(w, current) # 0)
        /\ next \in Activity \union {0} /\ (next # 0 => next \in Activity /\ AppOf(w, next) # 0)
        /\ NonEmpty(w) => current # 0 /\ next # 0
    BY <1>1, TopIsOwned
  <2>2. Calm(w, u)
    BY <1>1, <2>1, TransitionCalm DEF Status
  <2>3. Moves(w, u) /\ SameLists(w, u) /\ u.stack = w.stack /\ Low(u) /\ Active(u) = Active(w)
        /\ Top(u, t) = next
    BY <2>2, CalmMoves DEF Moves, Top
  <2>4. current # 0 => u.undefined = w.undefined
    BY <1>1, <2>1, TransitionQuiet DEF Status, Quiet
  <2>5. v = IF next = 0 THEN DeleteTask(u, t) ELSE PushTaskToFront(r, t)
    BY <1>3 DEF SwitchTaskToActive
  <2> HIDE DEF u, current, next, v
  <2>6. Careful(w) /\ (FinishOnce => NonEmpty(w))
    BY DEF Fine, Tidy
  <2>7. CASE next = 0
    <3>1. /\ Moves(u, v) /\ v.stack = u.stack /\ v.mHomeTask = u.mHomeTask
          /\ v.mSystemUITasks = u.mSystemUITasks /\ v.undefined = u.undefined
          /\ Listed(v) = Listed(u) \ {t}
          /\ IsInjective(u.mAllTasks) => IsInjective(v.mAllTasks)
      BY <2>3, <2>5, <2>7, DeleteTaskMoves
    <3>2. Moves(w, v)
      BY <3>1, <2>3, <1>1, MovesTransitive
    <3>3. Listed(v) \subseteq Listed(w) /\ IsInjective(v.mAllTasks)
      BY <3>1, <2>3, <1>1 DEF SameLists, Listed
    <3>4. ~NonEmpty(w) /\ Careful(v)
      BY <2>1, <2>6, <2>7 DEF Careful
    <3>5. QED
      BY <3>1, <3>2, <3>3, <3>4, <2>3, SameSetsFine DEF v, SameLists
  <2>8. CASE next # 0
    <3>1. next \in Activity /\ AppOf(u, next) # 0 /\ (current # 0 => AppOf(u, current) # 0)
      BY <2>1, <2>3, <2>8, <1>1, MovesKeeps
    <3>2. Quiet(u, r)
      BY <3>1, <2>1, <2>3, ResumeForQuiet
    <3> HIDE DEF r
    <3>3. Moves(u, r) /\ SameLists(u, r) /\ r.stack = u.stack /\ r.undefined = u.undefined
      BY <3>2, CalmMoves DEF Quiet
    <3>4. Moves(w, r) /\ Low(r)
      BY <3>3, <2>3, <1>1, MovesTransitive DEF Moves
    <3>5. Owned(r)
      <4>1. \A y \in Task : On(r, y) = On(w, y) /\ On(w, y) \subseteq Activity
        BY <2>3, <3>3, <1>1, OnFacts DEF On
      <4>2. QED
        BY <4>1, <3>4, <1>1, MovesKeeps DEF Owned
    <3>6. /\ Moves(r, v) /\ v.stack = r.stack /\ v.mHomeTask = r.mHomeTask
          /\ v.mSystemUITasks = r.mSystemUITasks /\ v.undefined = r.undefined
          /\ Listed(v) = Listed(r) \union {t}
          /\ IsInjective(r.mAllTasks) => IsInjective(v.mAllTasks)
      BY <3>4, <3>5, <2>5, <2>8, <1>1, PushTaskToFrontMoves
    <3>7. Moves(w, v)
      BY <3>4, <3>6, <1>1, MovesTransitive
    <3>8. Listed(v) = Listed(w) /\ IsInjective(v.mAllTasks)
      BY <3>6, <3>3, <2>3, <1>1 DEF SameLists, Listed
    <3>9. Careful(v)
      BY <3>3, <3>6, <2>1, <2>4, <2>6 DEF Careful
    <3>10. QED
      BY <3>3, <3>6, <3>7, <3>8, <3>9, <2>3, SameSetsFine DEF v, SameLists
  <2>9. QED
    BY <2>7, <2>8
<1>4. QED
  BY <1>2, <1>3

\* Putting a task behind the home task.
LEMMA BehindHomeFacts ==
    ASSUME NEW list \in Seq(Task), IsInjective(list), NEW home, NEW t \in Task, NEW b \in BOOLEAN
    PROVE  LET r == BehindHome(list, home, t, b)
           IN /\ r \in Seq(Task) /\ IsInjective(r)
              /\ ToSet(r) \subseteq ToSet(list) \union {t}
              /\ ~b => ToSet(r) \subseteq ToSet(list)
              /\ home \in ToSet(list) => ToSet(list) \subseteq ToSet(r) /\ (b => t \in ToSet(r))
<1> DEFINE rest == Without(list, t)
           i == Place(rest, home) + 1
           in == InsertAt(rest, i, t)
           r == BehindHome(list, home, t, b)
           infront == b \/ Place(list, t) \in 1..Place(list, home)
<1>1. rest \in Seq(Task) /\ ToSet(rest) = ToSet(list) \ {t} /\ IsInjective(rest)
  BY WithoutFacts
<1>2. i \in 1..(Len(rest) + 1)
  <2>1. Place(rest, home) \in 0..Len(rest) /\ Len(rest) \in Nat
    BY <1>1, PlaceFacts
  <2>2. QED
    BY <2>1
<1>3. r = IF home \notin ToSet(list) THEN rest ELSE IF infront THEN in ELSE list
  <2>1. Contains(list, home) <=> home \in ToSet(list)
    BY ElementsFacts
  <2>2. QED
    BY <2>1 DEF BehindHome
<1>4. infront => b \/ t \in ToSet(list)
  <2>1. Place(list, t) # 0 => t \in ToSet(list)
    BY PlaceFacts
  <2>2. Place(list, t) \in 1..Place(list, home) => Place(list, t) # 0
    BY PlaceFacts
  <2>3. QED
    BY <2>1, <2>2
<1>5. b => infront
  OBVIOUS
<1> HIDE DEF rest, i, r, infront
<1>6. in \in Seq(Task) /\ ToSet(in) = (ToSet(list) \ {t}) \union {t} /\ IsInjective(in)
  BY <1>1, <1>2, InsertedFacts
<1> HIDE DEF in
<1>7. QED
  BY <1>1, <1>3, <1>4, <1>5, <1>6 DEF r

\* The next task is shown.
LEMMA LeaveActiveMoves ==
    ASSUME NEW w, Base(w), Active(w) # 0
    PROVE  LET v == LeaveActive(w)
           IN /\ Moves(w, v) /\ v.stack = w.stack /\ v.mHomeTask = w.mHomeTask
              /\ v.mSystemUITasks = w.mSystemUITasks /\ v.mAllTasks = Tail(w.mAllTasks)
              /\ Top(w, Active(w)) # 0 => v.undefined = w.undefined
<1> DEFINE t == Active(w)
           top == Top(w, t)
           p == LifecycleTransition(w, top, PAUSED)
           f == StackForeground(p, t, FALSE)
           u == [f EXCEPT !.mAllTasks = Tail(f.mAllTasks)]
           n == Active(u)
           next == Top(u, n)
           r == IF next = 0 THEN u ELSE ResumeFor(u, next, top)
           v == LeaveActive(w)
<1>1. /\ Low(w) /\ w \in HeapType /\ Owned(w) /\ t \in Task
      /\ w.mAllTasks \in Seq(Task) /\ w.mAllTasks # <<>>
  BY BaseFacts, ActiveFacts, ListedFacts
<1>2. top \in Activity \union {0} /\ (top # 0 => top \in Activity /\ AppOf(w, top) # 0)
  BY <1>1, TopIsOwned
<1>3. v = IF n = 0 THEN u ELSE StackForeground(r, n, TRUE)
  BY DEF LeaveActive
<1>4. Calm(w, p) /\ (top # 0 => p.undefined = w.undefined)
  BY <1>1, <1>2, TransitionCalm, TransitionQuiet DEF Status, Quiet
<1> HIDE DEF t, top, p
<1>5. Moves(w, p) /\ SameLists(w, p) /\ p.stack = w.stack /\ Low(p) /\ Owned(p)
  <2>1. Moves(w, p) /\ SameLists(w, p) /\ p.stack = w.stack /\ Low(p)
    BY <1>4, CalmMoves DEF Moves
  <2>2. \A y \in Task : On(p, y) = On(w, y) /\ On(w, y) \subseteq Activity
    BY <2>1, <1>1, OnFacts DEF On
  <2>3. QED
    BY <2>1, <2>2, <1>1, MovesKeeps DEF Owned
<1>6. Quiet(p, f)
  BY <1>1, <1>5, StackForegroundQuiet DEF Owned
<1> HIDE DEF f
<1>7. Moves(p, f) /\ SameLists(p, f) /\ f.stack = p.stack /\ f.undefined = p.undefined /\ Low(f)
  BY <1>6, CalmMoves DEF Quiet, Moves
<1>8. Tail(f.mAllTasks) = Tail(w.mAllTasks) /\ Tail(f.mAllTasks) \in Seq(Task)
  BY <1>1, <1>5, <1>7, TailFacts DEF SameLists
<1>9. /\ Moves(f, u) /\ u.mAllTasks = Tail(w.mAllTasks) /\ u.stack = f.stack
      /\ u.mHomeTask = f.mHomeTask /\ u.mSystemUITasks = f.mSystemUITasks
      /\ u.undefined = f.undefined
  BY <1>7, <1>8, ListSet
<1> HIDE DEF u
<1>10. Moves(w, u) /\ Low(u) /\ u \in HeapType
  <2>1. Moves(w, f)
    BY <1>1, <1>5, <1>7, MovesTransitive
  <2>2. QED
    BY <2>1, <1>1, <1>9, MovesTransitive DEF Moves, Low
<1>11. /\ u.stack = w.stack /\ u.mHomeTask = w.mHomeTask /\ u.mSystemUITasks = w.mSystemUITasks
       /\ top # 0 => u.undefined = w.undefined
  BY <1>4, <1>5, <1>7, <1>9 DEF SameLists
<1>12. n \in Task \union {0}
  BY <1>10, ActiveFacts
<1>13. CASE n = 0
  BY <1>3, <1>9, <1>10, <1>11, <1>13 DEF t, top
<1>14. CASE n # 0
  <2>1. Owned(u) /\ n \in Task
    <3>1. \A y \in Task : On(u, y) = On(w, y) /\ On(w, y) \subseteq Activity
      BY <1>11, <1>1, OnFacts DEF On
    <3>2. QED
      BY <3>1, <1>1, <1>10, <1>12, <1>14, MovesKeeps DEF Owned
  <2>2. next # 0 => next \in Activity /\ AppOf(u, next) # 0
    BY <2>1, <1>10, TopFacts DEF Owned
  <2>3. top # 0 => AppOf(u, top) # 0
    BY <1>1, <1>2, <1>10, MovesKeeps
  <2> HIDE DEF n, next, v
  <2>4. Quiet(u, r)
    <3>1. CASE next = 0
      BY <3>1, <1>10, QuietReflexive
    <3>2. CASE next # 0
      BY <3>2, <1>2, <1>10, <2>2, <2>3, ResumeForQuiet
    <3>3. QED
      BY <3>1, <3>2
  <2> HIDE DEF r
  <2>5. Low(r) /\ r.stack = u.stack /\ \A y \in Activity : AppOf(r, y) = AppOf(u, y)
    BY <2>4, QuietKeepsApp, CalmMoves DEF Quiet
  <2>6. \A x \in On(r, n) : AppOf(r, x) # 0
    <3>1. On(r, n) = On(u, n) /\ On(u, n) \subseteq Activity
      BY <2>1, <2>5, <1>10, OnFacts DEF On
    <3>2. QED
      BY <3>1, <2>1, <2>5 DEF Owned
  <2>7. Quiet(r, v)
    BY <2>1, <2>5, <2>6, <1>3, <1>14, StackForegroundQuiet
  <2>8. Quiet(u, v)
    BY <1>10, <2>4, <2>7, QuietTransitive
  <2>9. Moves(u, v) /\ SameLists(u, v) /\ v.stack = u.stack /\ v.undefined = u.undefined
    BY <2>8, CalmMoves DEF Quiet
  <2>10. Moves(w, v)
    BY <2>9, <1>1, <1>10, MovesTransitive
  <2>11. QED
    BY <2>9, <2>10, <1>9, <1>11 DEF SameLists, v, t, top
<1>15. QED
  BY <1>13, <1>14

\* MoveTaskToBackground() keeps the invariant.
LEMMA MoveTaskFine ==
    ASSUME NEW w, NEW X, Fine(w, X), NEW t \in Task
    PROVE  Fine(MoveTaskToBackground(w, t), X) /\ Loose(w, MoveTaskToBackground(w, t), {})
<1> DEFINE b == t = Active(w)
           home == w.mHomeTask
           left == IF b THEN LeaveActive(w) ELSE w
           q == BehindHome(left.mAllTasks, home, t, b)
           v == MoveTaskToBackground(w, t)
<1>1. /\ Base(w) /\ Low(w) /\ w \in HeapType /\ 0 \notin Task /\ IsInjective(w.mAllTasks)
      /\ w.mAllTasks \in Seq(Task)
  BY BaseFacts, ListedFacts DEF Fine
<1>2. CASE t = home
  BY <1>1, <1>2, QuietFine, QuietReflexive DEF MoveTaskToBackground
<1>3. CASE t # home
  <2>1. v = [left EXCEPT !.mAllTasks = q]
    BY <1>3 DEF MoveTaskToBackground
  <2>2. b => Active(w) # 0 /\ t \in Listed(w) /\ w.mAllTasks # <<>> /\ Head(w.mAllTasks) = t
             /\ (NonEmpty(w) => Top(w, Active(w)) # 0)
    BY <1>1, ListedFacts, TopIsOwned, ActiveFacts DEF Active
  <2>3. /\ Moves(w, left) /\ left.stack = w.stack /\ left.mHomeTask = w.mHomeTask
        /\ left.mSystemUITasks = w.mSystemUITasks
        /\ left.mAllTasks = IF b THEN Tail(w.mAllTasks) ELSE w.mAllTasks
        /\ NonEmpty(w) => left.undefined = w.undefined
    BY <1>1, <2>2, LeaveActiveMoves, MovesReflexive
  <2>4. b \in BOOLEAN
    OBVIOUS
  <2> HIDE DEF left, b, v
  <2>5. /\ left.mAllTasks \in Seq(Task) /\ IsInjective(left.mAllTasks)
        /\ Listed(left) = IF b THEN Listed(w) \ {t} ELSE Listed(w)
    <3>1. CASE b
      <4>1. left.mAllTasks = Tail(w.mAllTasks) /\ w.mAllTasks # <<>> /\ Head(w.mAllTasks) = t
        BY <3>1, <2>2, <2>3
      <4>2. /\ Tail(w.mAllTasks) \in Seq(Task) /\ IsInjective(Tail(w.mAllTasks))
            /\ Listed(w) = ToSet(Tail(w.mAllTasks)) \union {t} /\ t \notin ToSet(Tail(w.mAllTasks))
        BY <4>1, <1>1, TailFacts DEF Listed
      <4>3. Listed(left) = ToSet(Tail(w.mAllTasks))
        BY <4>1 DEF Listed
      <4>4. QED
        BY <3>1, <4>1, <4>2, <4>3
    <3>2. CASE ~b
      BY <3>2, <1>1, <2>3 DEF Listed
    <3>3. QED
      BY <3>1, <3>2
  <2>6. /\ q \in Seq(Task) /\ IsInjective(q)
        /\ ToSet(q) \subseteq Listed(left) \union {t}
        /\ ~b => ToSet(q) \subseteq Listed(left)
        /\ home \in Listed(left) => Listed(left) \subseteq ToSet(q) /\ (b => t \in ToSet(q))
    <3> DEFINE list == left.mAllTasks
    <3>1. list \in Seq(Task) /\ IsInjective(list) /\ ToSet(list) = Listed(left)
      BY <2>5 DEF Listed
    <3>2. q = BehindHome(list, home, t, b)
      OBVIOUS
    <3> HIDE DEF list, q, home
    <3>3. /\ q \in Seq(Task) /\ IsInjective(q)
          /\ ToSet(q) \subseteq ToSet(list) \union {t}
          /\ ~b => ToSet(q) \subseteq ToSet(list)
          /\ home \in ToSet(list) => ToSet(list) \subseteq ToSet(q) /\ (b => t \in ToSet(q))
      BY <2>4, <3>1, <3>2, BehindHomeFacts
    <3>4. QED
      BY <3>1, <3>3
  <2> HIDE DEF q
  <2>7. /\ Moves(left, v) /\ v.mAllTasks = q /\ v.stack = left.stack /\ v.mHomeTask = left.mHomeTask
        /\ v.mSystemUITasks = left.mSystemUITasks /\ v.undefined = left.undefined
    BY <2>1, <2>3, <2>6, ListSet DEF Moves
  <2>8. Moves(w, v)
    BY <2>3, <2>7, <1>1, MovesTransitive
  <2>9. Listed(v) \subseteq Listed(w)
    BY <2>2, <2>5, <2>6, <2>7 DEF Listed
  <2>10. ASSUME NonEmpty(w), HomeListed(w) PROVE Listed(v) = Listed(w)
    <3>1. CASE home # 0
      <4>1. home \in Listed(w)
        BY <3>1, <2>10 DEF HomeListed
      <4>2. home \in Listed(left)
        BY <4>1, <1>3, <2>5
      <4>3. QED
        BY <4>2, <2>2, <2>5, <2>6, <2>7, <2>9 DEF Listed
    <3>2. CASE home = 0
      <4>1. Listed(w) = {}
        BY <3>2, <2>10, <1>1, ListedFacts DEF HomeListed
      <4>2. QED
        BY <4>1, <2>9
    <3>3. QED
      BY <3>1, <3>2
  <2>11. Careful(v)
    BY <2>3, <2>7 DEF Fine, Tidy, Careful
  <2>12. QED
    BY <2>3, <2>6, <2>7, <2>8, <2>9, <2>10, <2>11, SameSetsFine DEF v
<1>4. QED
  BY <1>2, <1>3

\* On the way to the front the task leaves no other one.
LEMMA PushNewMoves ==
    ASSUME NEW w, Base(w), NEW t \in Task, NEW x \in Activity, AppOf(w, x) # 0, ~Freed(w, x),
           w.act[x].mStatus = INIT, x \notin On(w, t), NEW clear \in BOOLEAN,
           \A y \in On(w, t) : ~Freed(w, y)
    PROVE  LET v == PushNewActivity(w, t, x, clear)
           IN /\ Moves(w, v) /\ v.mSystemUITasks = w.mSystemUITasks
              /\ v.mHomeTask = IF Active(w) = 0 THEN t ELSE w.mHomeTask
              /\ Listed(v) = Listed(w) \union {t} /\ IsInjective(v.mAllTasks)
              /\ \A r \in Task : r # t => v.stack[r] = w.stack[r]
              /\ v.stack[t] # <<>> /\ IsInjective(v.stack[t])
                            /\ On(v, t) \subseteq On(w, t) \union {x}
              /\ x \in Exist(v, AppOf(w, x))
              /\ NonEmpty(w) => v.undefined = w.undefined
<1> DEFINE active == Active(w)
           top == Top(w, active)
           a == IF active = 0 THEN [w EXCEPT !.mHomeTask = t]
                         ELSE LifecycleTransition(w, top, PAUSED)
           b == IF clear THEN PopAbove(a, t, 0) ELSE a
           c == [b EXCEPT !.stack[t] = Append(b.stack[t], x)]
           d == IF t = active THEN SetForeground(c, x, TRUE) ELSE c
           e == ResumeFor(d, x, top)
           v == PushNewActivity(w, t, x, clear)
           home == IF active = 0 THEN t ELSE w.mHomeTask
<1>1. /\ Low(w) /\ w \in HeapType /\ Owned(w) /\ 0 \notin Task /\ IsInjective(w.mAllTasks)
      /\ active \in Task \union {0} /\ (active # 0 => active \in Listed(w))
  BY BaseFacts, ActiveFacts
<1>2. /\ top \in Activity \union {0} /\ 0 \notin Activity /\ (top # 0 => AppOf(w, top) # 0)
      /\ NonEmpty(w) /\ active # 0 => top # 0
      /\ active = 0 => top = 0
  BY <1>1, TopIsOwned DEF Top
<1>3. v = PushTaskToFront(e, t)
  BY <1>1 DEF PushNewActivity
<1> HIDE DEF v, top, active
<1>4. /\ Moves(w, a) /\ a.stack = w.stack /\ a.mAllTasks = w.mAllTasks /\ a.mHomeTask = home
      /\ a.mSystemUITasks = w.mSystemUITasks /\ Low(a)
      /\ NonEmpty(w) => a.undefined = w.undefined
  <2>1. CASE active = 0
    BY <2>1, <1>1, HomeSet DEF Moves
  <2>2. CASE active # 0
    <3>1. Calm(w, a) /\ (top # 0 => a.undefined = w.undefined)
      BY <2>2, <1>1, <1>2, TransitionCalm, TransitionQuiet DEF Status, Quiet
    <3>2. QED
      BY <3>1, <2>2, <1>2, CalmMoves DEF Moves, SameLists
  <2>3. QED
    BY <2>1, <2>2
<1> HIDE DEF a
<1>5. /\ \A y \in On(a, t) : AppOf(a, y) # 0 /\ ~Freed(a, y)
      /\ On(a, t) = On(w, t) /\ On(w, t) \subseteq Activity
  <2>1. On(a, t) = On(w, t) /\ On(w, t) \subseteq Activity
    BY <1>1, <1>4, OnFacts DEF On
  <2>2. QED
    BY <2>1, <1>1, <1>4, MovesKeeps DEF Owned
<1>6. /\ Moves(a, b) /\ SameLists(a, b) /\ b.undefined = a.undefined /\ Low(b)
      /\ b.stack[t] \in Seq(Activity) /\ ToSet(b.stack[t]) \subseteq On(w, t)
                    /\ IsInjective(b.stack[t])
      /\ \A r \in Task : r # t => b.stack[r] = w.stack[r]
  <2>1. a.stack[t] \in Seq(Activity) /\ IsInjective(a.stack[t]) /\ ToSet(a.stack[t]) = On(w, t)
    BY <1>1, <1>4, BaseFacts, OnFacts DEF On
  <2>2. CASE ~clear
    BY <2>1, <2>2, <1>4, MovesReflexive DEF SameLists
  <2>3. CASE clear
    <3> DEFINE cut == SubSeq(a.stack[t], 1, Place(a.stack[t], 0))
    <3>1. /\ Moves(a, b) /\ SameLists(a, b) /\ b.undefined = a.undefined
          /\ b.stack = [a.stack EXCEPT ![t] = cut]
      BY <2>3, <1>4, <1>5, PopAboveMoves
    <3>2. Place(a.stack[t], 0) \in 0..Len(a.stack[t])
      BY <2>1, PlaceFacts
    <3>3. cut \in Seq(Activity) /\ ToSet(cut) \subseteq ToSet(a.stack[t]) /\ IsInjective(cut)
      BY <2>1, <3>2, CutFacts
    <3> HIDE DEF cut
    <3>4. b.stack[t] = cut /\ \A r \in Task : r # t => b.stack[r] = w.stack[r]
      BY <3>1, <1>1, <1>4, HeapParts
    <3> HIDE DEF b
    <3>5. QED
      BY <3>1, <3>3, <3>4, <2>1 DEF Moves
  <2>4. QED
    BY <2>2, <2>3
<1> HIDE DEF b
<1> DEFINE s == Append(b.stack[t], x)
<1>7. s \in Seq(Activity) /\ s # <<>> /\ ToSet(s) \subseteq On(w, t) \union {x} /\ IsInjective(s)
  BY <1>6, AppendFacts
<1> HIDE DEF s
<1>8. /\ Moves(b, c) /\ SameLists(b, c) /\ c.undefined = b.undefined /\ Low(c)
      /\ c.stack[t] = s /\ \A r \in Task : r # t => c.stack[r] = w.stack[r]
  <2>1. c = [b EXCEPT !.stack[t] = s]
    BY DEF s
  <2> HIDE DEF c
  <2>2. Moves(b, c) /\ SameLists(b, c) /\ c.undefined = b.undefined /\ c.stack =
                [b.stack EXCEPT ![t] = s]
    BY <2>1, <1>6, <1>7, StackSet
  <2>3. b.stack \in [Task -> Seq(Activity)]
    BY <1>6, HeapParts DEF Low
  <2>4. QED
    BY <2>2, <2>3, <1>6 DEF Moves
<1> HIDE DEF c
<1>9. Moves(w, b) /\ Moves(w, c)
  BY <1>1, <1>4, <1>6, <1>8, MovesTransitive
<1>10. AppOf(c, x) # 0
  BY <1>1, <1>9, MovesKeeps
<1>11. Quiet(c, d)
  BY <1>8, <1>10, SetForegroundQuiet, QuietReflexive
<1> HIDE DEF d
<1>12. Moves(c, d) /\ SameLists(c, d) /\ d.stack = c.stack /\ d.undefined = c.undefined /\ Low(d)
  BY <1>11, CalmMoves DEF Quiet, Moves
<1>13. Moves(w, d)
  BY <1>1, <1>9, <1>12, MovesTransitive
<1>14. AppOf(d, x) = AppOf(w, x) /\ ~Freed(d, x) /\ Ready(d, x) /\ (top # 0 => AppOf(d, top) # 0)
  BY <1>1, <1>2, <1>13, MovesKeeps DEF Ready
<1>15. Quiet(d, e) /\ x \in Exist(e, AppOf(w, x))
  BY <1>2, <1>12, <1>14, ResumeForQuiet
<1> HIDE DEF e
<1>16. Moves(d, e) /\ SameLists(d, e) /\ e.stack = d.stack /\ e.undefined = d.undefined /\ Low(e)
  BY <1>15, CalmMoves DEF Quiet, Moves
<1>17. Moves(w, e)
  BY <1>1, <1>13, <1>16, MovesTransitive
<1>18. Owned(e)
  <2>1. \A r \in Task : On(w, r) \subseteq Activity /\ \A y \in On(w, r) : AppOf(w, y) # 0
    BY <1>1, OnFacts DEF Owned
  <2>2. On(e, t) = ToSet(s) /\ \A r \in Task : r # t => On(e, r) = On(w, r)
    BY <1>8, <1>12, <1>16 DEF On
  <2>3. \A y \in Activity : AppOf(e, y) = AppOf(w, y)
    BY <1>1, <1>17, MovesKeeps
  <2>4. QED
    BY <2>1, <2>2, <2>3, <1>7 DEF Owned
<1>19. /\ Moves(e, v) /\ v.stack = e.stack /\ v.mHomeTask = e.mHomeTask
       /\ v.mSystemUITasks = e.mSystemUITasks /\ v.undefined = e.undefined
       /\ Listed(v) = Listed(e) \union {t}
       /\ IsInjective(e.mAllTasks) => IsInjective(v.mAllTasks)
  BY <1>3, <1>16, <1>18, PushTaskToFrontMoves
<1>20. Moves(w, v)
  BY <1>1, <1>17, <1>19, MovesTransitive
<1>21. e.mAllTasks = w.mAllTasks /\ e.mHomeTask = home /\ e.mSystemUITasks = w.mSystemUITasks
  BY <1>4, <1>6, <1>8, <1>12, <1>16 DEF SameLists
<1>22. Listed(v) = Listed(w) \union {t} /\ IsInjective(v.mAllTasks)
  BY <1>1, <1>19, <1>21 DEF Listed
<1>23. /\ v.stack[t] # <<>> /\ IsInjective(v.stack[t]) /\ On(v, t) \subseteq On(w, t) \union {x}
       /\ \A r \in Task : r # t => v.stack[r] = w.stack[r]
  <2>1. v.stack[t] = s /\ \A r \in Task : r # t => v.stack[r] = w.stack[r]
    BY <1>8, <1>12, <1>16, <1>19
  <2>2. QED
    BY <2>1, <1>7 DEF On
<1>24. x \in Exist(v, AppOf(w, x))
  <2>1. AppOf(w, x) \in Proc
    BY <1>1, AppFacts
  <2>2. QED
    BY <2>1, <1>15, <1>19 DEF Moves, Steady
<1>25. NonEmpty(w) => v.undefined = w.undefined
  BY <1>4, <1>6, <1>8, <1>12, <1>16, <1>19
<1>26. QED
  BY <1>19, <1>20, <1>21, <1>22, <1>23, <1>24, <1>25 DEF v, active

\* A task that has got an activity, and may now be listed, keeps Base.
LEMMA JoinedKept ==
    ASSUME NEW w, Base(w), CountedBut(w, {}), NEW t, NEW x, Pushable(w, t, x), NEW v, Joins(w, v, t, x),
           Listed(v) \subseteq Listed(w) \union {t}, UiListed(v) \subseteq UiListed(w) \union {t},
           v.mHomeTask \in {w.mHomeTask, t}, IsInjective(v.mAllTasks),
           t \in Listed(v) => ~IsSystemUI(w, x), t \in UiListed(v) => IsSystemUI(w, x)
    PROVE  Base(v) /\ CountedBut(v, {}) /\ Loose(w, v, {})
<1>1. Low(v) /\ Loose(w, v, {}) /\ Moves(w, v)
  BY SteadyIsLoose DEF Joins, Moves
<1>2. /\ Low(w) /\ x \in Made(w) /\ x \in Activity /\ t \in Task /\ w.act[x].mInTask = t
              /\ AppOf(w, x) # 0
      /\ t \in 1..w.tasks
      /\ \A r \in Task : \A y \in On(w, r) : AppOf(w, y) # 0 /\ w.act[y].mInTask = r
  BY BaseFacts DEF Pushable, Base, Numbered
<1>3. \A r \in Task : /\ On(v, r) \subseteq On(w, r) \union {x} /\ IsInjective(v.stack[r])
                      /\ r # t => On(v, r) = On(w, r)
  BY <1>2, BaseFacts DEF Joins, On
<1>4. Base(v)
  <2>1. \A r \in Task : \A y \in On(v, r) : AppOf(w, y) # 0 /\ w.act[y].mInTask = r
    BY <1>2, <1>3
  <2>2. Listed(v) \union UiListed(v) \subseteq 1..w.tasks /\ v.mHomeTask <= w.tasks
    <3>1. Listed(w) \union UiListed(w) \subseteq 1..w.tasks /\ w.mHomeTask <= w.tasks
                  /\ w.tasks \in Nat
      BY BaseFacts DEF Base, Numbered
    <3>2. QED
      BY <3>1, <1>2
  <2>3. \A y \in Made(w) : w.act[y].mInTask = t => IsSystemUI(w, y) = IsSystemUI(w, x)
    BY <1>2 DEF Base, Kinds
  <2>4. \A y \in Made(w) : /\ w.act[y].mInTask \in Listed(v) => ~IsSystemUI(w, y)
                           /\ w.act[y].mInTask \in UiListed(v) => IsSystemUI(w, y)
    BY <2>3 DEF Base, Kinds
  <2>5. Listed(v) \intersect UiListed(v) = {}
    <3>1. /\ Listed(w) \intersect UiListed(w) = {}
          /\ t \in Listed(w) => ~IsSystemUI(w, x)
          /\ t \in UiListed(w) => IsSystemUI(w, x)
      BY <1>2 DEF Base, Kinds
    <3>2. QED
      BY <3>1
  <2>6. QED
    BY <1>1, <1>3, <2>1, <2>2, <2>4, <2>5, BaseKept
<1>5. CountedBut(v, {})
  <2> SUFFICES ASSUME NEW r \in Task, Kept(v, r), NEW y \in On(v, r)
               PROVE  y \in Exist(v, AppOf(v, y))
    BY DEF CountedBut
  <2>1. AppOf(v, x) = AppOf(w, x) /\ x \in Exist(v, AppOf(v, x))
    BY <1>1, <1>2, MovesKeeps DEF Joins
  <2>2. CASE y = x
    BY <2>1, <2>2
  <2>3. CASE y # x
    <3>1. y \in On(w, r) /\ y \in Activity /\ AppOf(w, y) # 0 /\ AppOf(v, y) = AppOf(w, y)
      BY <1>1, <1>2, <1>3, <2>3, BaseFacts, MovesKeeps
    <3>2. y \in Exist(w, AppOf(w, y))
      <4>1. CASE r = t
        BY <4>1, <3>1 DEF Pushable
      <4>2. CASE r # t
        <5>1. Kept(w, r)
          BY <4>2, <1>1 DEF Kept, Loose
        <5>2. QED
          BY <5>1, <3>1 DEF CountedBut
      <4>3. QED
        BY <4>1, <4>2
    <3>3. AppOf(w, y) \in Proc
      BY <3>1, <1>2, AppFacts
    <3>4. QED
      BY <3>1, <3>2, <3>3, <1>1 DEF Loose
  <2>4. QED
    BY <2>2, <2>3
<1>6. QED
  BY <1>1, <1>4, <1>5

\* PushNewActivity() keeps the invariant.
LEMMA PushNewFine ==
    ASSUME NEW w, Fine(w, {}), NEW t, NEW x, Pushable(w, t, x), ~IsSystemUI(w, x), NEW clear \in BOOLEAN
    PROVE  /\ Fine(PushNewActivity(w, t, x, clear), {})
           /\ Loose(w, PushNewActivity(w, t, x, clear), {})
<1> DEFINE v == PushNewActivity(w, t, x, clear)
<1>1. /\ Base(w) /\ Low(w) /\ CountedBut(w, {}) /\ w \in HeapType /\ t \in Task /\ x \in Activity
      /\ AppOf(w, x) # 0 /\ ~Freed(w, x) /\ w.act[x].mStatus = INIT /\ x \notin On(w, t)
  BY BaseFacts DEF Fine, Pushable
<1>2. \A y \in On(w, t) : ~Freed(w, y)
  BY <1>1, BaseFacts, AppFacts DEF Pushable
<1>3. /\ Moves(w, v) /\ v.mSystemUITasks = w.mSystemUITasks
      /\ v.mHomeTask = IF Active(w) = 0 THEN t ELSE w.mHomeTask
      /\ Listed(v) = Listed(w) \union {t} /\ IsInjective(v.mAllTasks)
      /\ \A r \in Task : r # t => v.stack[r] = w.stack[r]
      /\ v.stack[t] # <<>> /\ IsInjective(v.stack[t]) /\ On(v, t) \subseteq On(w, t) \union {x}
      /\ x \in Exist(v, AppOf(w, x))
      /\ NonEmpty(w) => v.undefined = w.undefined
  BY <1>1, <1>2, PushNewMoves
<1> HIDE DEF v
<1>4. Joins(w, v, t, x)
  BY <1>3 DEF Joins
<1>5. t \notin UiListed(w)
  BY <1>1 DEF Pushable, Base, Kinds
<1>6. Base(v) /\ CountedBut(v, {}) /\ Loose(w, v, {})
  <2>1. v.mHomeTask \in {w.mHomeTask, t} /\ UiListed(v) = UiListed(w)
    BY <1>3 DEF UiListed
  <2>2. QED
    BY <2>1, <1>1, <1>3, <1>4, <1>5, JoinedKept
<1>7. Tidy(v)
  <2>1. v \in HeapType
    BY <1>3 DEF Moves, Low
  <2>2. NonEmpty(w) => NonEmpty(v)
    BY <1>1, <1>3, ListedFacts DEF NonEmpty
  <2>3. HomeListed(w) => HomeListed(v)
    <3>1. Active(w) = 0 <=> Listed(w) = {}
      BY <1>1, ListedFacts
    <3>2. v.mAllTasks # <<>> /\ (w.mAllTasks = <<>> <=> Listed(w) = {})
      BY <1>1, <1>3, <2>1, ListedFacts
    <3>3. t # 0
      BY <1>1, BaseFacts
    <3>4. QED
      BY <3>1, <3>2, <3>3, <1>3 DEF HomeListed
  <2>4. AllListed(w) => AllListed(v)
    BY <1>3 DEF AllListed
  <2>5. QED
    BY <2>2, <2>3, <2>4 DEF Tidy, Fine
<1>8. Careful(v)
  BY <1>3 DEF Careful, Fine, Tidy
<1>9. QED
  BY <1>6, <1>7, <1>8 DEF Fine, v

\* An activity's task is null or kept.
LEMMA TaskOfFacts ==
    ASSUME NEW w \in HeapType, NEW x \in Activity
    PROVE  LET t == TaskOf(w, x)
           IN /\ t \in Task \union {0}
              /\ t # 0 => t \in Task /\ t = w.act[x].mInTask /\ Kept(w, t)
              /\ w.act[x].mInTask # 0 /\ Kept(w, w.act[x].mInTask) => t = w.act[x].mInTask
<1> DEFINE t == w.act[x].mInTask
           lists == w.mAllTasks \o w.mSystemUITasks
           kept == Contains(lists, t) \/ w.mHomeTask = t \/ \E i \in DOMAIN w.launch :
                         w.launch[i].task = t
<1>1. t # 0 => t \in Task
  BY HeapParts, ActParts
<1>2. Contains(lists, t) <=> t \in Listed(w) \union UiListed(w)
  <2>1. w.mAllTasks \in Seq(Task) /\ w.mSystemUITasks \in Seq(Task) /\ lists \in Seq(Task)
    BY HeapParts
  <2>2. ToSet(lists) = Listed(w) \union UiListed(w)
    BY <2>1, ConcatFacts DEF Listed, UiListed
  <2> HIDE DEF lists, t
  <2>3. QED
    BY <2>1, <2>2, ElementsFacts
<1>3. kept <=> Kept(w, t)
  <2>1. (\E i \in DOMAIN w.launch : w.launch[i].task = t) <=> \E l \in ToSet(w.launch) : l.task = t
    BY DEF ToSet
  <2> HIDE DEF lists, t
  <2>2. QED
    BY <2>1, <1>2 DEF Kept
<1>4. TaskOf(w, x) = IF kept THEN t ELSE 0
  BY DEF TaskOf
<1> HIDE DEF kept
<1>5. QED
  BY <1>1, <1>3, <1>4

\* TurnToActivity() keeps the invariant.
LEMMA TurnFine ==
    ASSUME NEW w, Fine(w, {}), NEW t \in Listed(w), NEW x \in On(w, t), NEW clearTop \in BOOLEAN
    PROVE  /\ Fine(TurnToActivity(w, t, x, clearTop), {})
           /\ Loose(w, TurnToActivity(w, t, x, clearTop), {})
<1> DEFINE active == Active(w)
           last == Top(w, active)
           a == IF last = 0 THEN w ELSE LifecycleTransition(w, last, PAUSED)
           b == IF clearTop THEN PopAbove(a, t, x) ELSE a
           y == IF t = active THEN 0 ELSE last
           e == ResumeFor(b, x, y)
           v == TurnToActivity(w, t, x, clearTop)
<1>1. /\ Base(w) /\ CountedBut(w, {}) /\ Low(w) /\ w \in HeapType /\ t \in Task /\ Owned(w)
              /\ Kept(w, t)
      /\ IsInjective(w.mAllTasks) /\ active \in Task \union {0}
  BY BaseFacts, ActiveFacts DEF Fine, Kept
<1>2. /\ x \in Activity /\ AppOf(w, x) # 0 /\ x \in Exist(w, AppOf(w, x))
      /\ \A z \in On(w, t) : AppOf(w, z) # 0 /\ ~Freed(w, z)
  BY <1>1, KeptFacts
<1>3. last \in Activity \union {0} /\ 0 \notin Activity /\ (last # 0 => AppOf(w, last) # 0)
  BY <1>1, TopIsOwned
<1>4. CASE last = x
  <2> DEFINE p == [w EXCEPT !.act[x].mStatus = PAUSED]
  <2>1. Quiet(w, p)
    <3>1. PAUSED \in Status /\ PAUSED > INIT
      BY DEF Status
    <3>2. QED
      BY <3>1, <1>1, <1>2, StatusQuiet
  <2>2. v = LifecycleTransition(p, x, RESUMED)
    BY <1>4 DEF TurnToActivity
  <2> HIDE DEF p, v
  <2>3. Low(p) /\ AppOf(p, x) # 0
    BY <2>1, <1>2, QuietKeepsApp DEF Quiet
  <2>4. Quiet(p, v)
    BY <2>2, <2>3, <1>2, TransitionQuiet DEF Status
  <2>5. Quiet(w, v)
    BY <2>1, <2>4, <1>1, QuietTransitive
  <2>6. QED
    BY <2>5, QuietFine DEF v
<1>5. CASE last # x
  <2>1. v = PushTaskToFront(e, t)
    BY <1>5 DEF TurnToActivity
  <2>2. Quiet(w, a)
    BY <1>1, <1>3, QuietReflexive, TransitionQuiet DEF Status
  <2> HIDE DEF a, v, last, active
  <2>3. Moves(w, a) /\ SameLists(w, a) /\ a.stack = w.stack /\ a.undefined = w.undefined /\ Low(a)
    BY <2>2, CalmMoves DEF Quiet, Moves
  <2>4. On(a, t) = On(w, t) /\ \A z \in On(a, t) : z \in Activity /\ AppOf(a, z) # 0 /\ ~Freed(a, z)
    <3>1. On(a, t) = On(w, t) /\ On(w, t) \subseteq Activity
      BY <1>1, <2>3, OnFacts DEF On
    <3>2. QED
      BY <3>1, <1>1, <1>2, <2>3, MovesKeeps
  <2>5. /\ Moves(a, b) /\ SameLists(a, b) /\ b.undefined = a.undefined /\ Low(b)
        /\ b.stack[t] \in Seq(Activity) /\ b.stack[t] # <<>> /\ On(b, t) \subseteq On(w, t)
        /\ IsInjective(b.stack[t]) /\ \A r \in Task : r # t => b.stack[r] = w.stack[r]
    <3>1. a.stack[t] \in Seq(Activity) /\ IsInjective(a.stack[t]) /\ ToSet(a.stack[t]) = On(w, t)
          /\ a.stack[t] # <<>>
      <4>1. a.stack[t] \in Seq(Activity) /\ IsInjective(a.stack[t]) /\ ToSet(a.stack[t]) = On(w, t)
        BY <1>1, <2>3, BaseFacts, OnFacts DEF On
      <4>2. QED
        BY <4>1, ElementsFacts
    <3>2. CASE ~clearTop
      BY <3>1, <3>2, <2>3, MovesReflexive DEF SameLists, On
    <3>3. CASE clearTop
      <4> DEFINE cut == SubSeq(a.stack[t], 1, Place(a.stack[t], x))
      <4>1. /\ Moves(a, b) /\ SameLists(a, b) /\ b.undefined = a.undefined
            /\ b.stack = [a.stack EXCEPT ![t] = cut]
        BY <3>3, <2>3, <2>4, <1>1, PopAboveMoves
      <4>2. Place(a.stack[t], x) \in 0..Len(a.stack[t]) /\ Place(a.stack[t], x) # 0
        BY <3>1, PlaceFacts
      <4>3. cut \in Seq(Activity) /\ ToSet(cut) \subseteq ToSet(a.stack[t])
                    /\ IsInjective(cut) /\ cut # <<>>
        BY <3>1, <4>2, CutFacts
      <4> HIDE DEF cut
      <4>4. b.stack[t] = cut /\ \A r \in Task : r # t => b.stack[r] = w.stack[r]
        BY <4>1, <1>1, <2>3, HeapParts
      <4> HIDE DEF b
      <4>5. QED
        BY <3>1, <4>1, <4>3, <4>4 DEF Moves, On
    <3>4. QED
      BY <3>2, <3>3
  <2> HIDE DEF b
  <2>6. Moves(w, b)
    BY <1>1, <2>3, <2>5, MovesTransitive
  <2>7. /\ y \in Activity \union {0} /\ (y # 0 => AppOf(b, y) # 0) /\ AppOf(b, x) # 0
    BY <1>1, <1>2, <1>3, <2>6, MovesKeeps
  <2> HIDE DEF y
  <2>8. Quiet(b, e)
    BY <1>2, <2>5, <2>7, ResumeForQuiet
  <2> HIDE DEF e
  <2>9. Moves(b, e) /\ SameLists(b, e) /\ e.stack = b.stack /\ e.undefined = b.undefined /\ Low(e)
    BY <2>8, CalmMoves DEF Quiet, Moves
  <2>10. Moves(w, e)
    BY <1>1, <2>6, <2>9, MovesTransitive
  <2>11. \A r \in Task : On(e, r) \subseteq On(w, r) /\ On(w, r) \subseteq Activity
    BY <1>1, <2>5, <2>9, OnFacts DEF On
  <2>12. Owned(e)
    BY <1>1, <2>10, <2>11, MovesKeeps DEF Owned
  <2>13. /\ Moves(e, v) /\ v.stack = e.stack /\ v.mHomeTask = e.mHomeTask
         /\ v.mSystemUITasks = e.mSystemUITasks /\ v.undefined = e.undefined
         /\ Listed(v) = Listed(e) \union {t}
         /\ IsInjective(e.mAllTasks) => IsInjective(v.mAllTasks)
    BY <1>1, <2>1, <2>9, <2>12, PushTaskToFrontMoves
  <2>14. Moves(w, v)
    BY <1>1, <2>10, <2>13, MovesTransitive
  <2>15. e.mAllTasks = w.mAllTasks /\ e.mHomeTask = w.mHomeTask
                /\ e.mSystemUITasks = w.mSystemUITasks
    BY <2>3, <2>5, <2>9 DEF SameLists
  <2>16. Listed(v) = Listed(w) /\ IsInjective(v.mAllTasks) /\ v.undefined = w.undefined
    BY <1>1, <2>3, <2>5, <2>9, <2>13, <2>15 DEF Listed
  <2>17. Shrinks(w, v)
    <3>1. \A r \in Task : IsInjective(v.stack[r])
      BY <1>1, <2>5, <2>9, <2>13, BaseFacts
    <3>2. QED
      BY <3>1, <2>11, <2>13, <2>15, <2>16 DEF Shrinks, UiListed, On
  <2>18. Tidy(v)
    <3>1. \A r \in Task : v.stack[r] # <<>> /\ r # t => w.stack[r] # <<>>
      BY <2>5, <2>9, <2>13
    <3>2. NonEmpty(w) => NonEmpty(v)
      <4>1. Listed(w) \subseteq Task
        BY <1>1, BaseFacts
      <4>2. QED
        BY <4>1, <2>5, <2>9, <2>13, <2>16 DEF NonEmpty
    <3>3. HomeListed(w) => HomeListed(v)
      <4>1. v \in HeapType
        BY <2>14 DEF Moves, Low
      <4>2. QED
        BY <4>1, <1>1, <2>13, <2>15, <2>16, ListedFacts DEF HomeListed
    <3>4. AllListed(w) => AllListed(v)
      BY <3>1, <2>16 DEF AllListed
    <3>5. QED
      BY <3>2, <3>3, <3>4 DEF Tidy, Fine
  <2>19. Careful(v)
    BY <2>16 DEF Careful, Fine
  <2>20. QED
    BY <2>14, <2>17, <2>18, <2>19, MovesFine DEF v
<1>6. QED
  BY <1>4, <1>5

\* The active task was its last activity's.
LEMMA LeaveEmptyMoves ==
    ASSUME NEW w, Low(w), Owned(w), Active(w) # 0
    PROVE  LET v == LeaveEmptyTask(w, Active(w))
           IN /\ Moves(w, v) /\ v.stack = w.stack /\ v.mSystemUITasks = w.mSystemUITasks
              /\ v.mAllTasks = Tail(w.mAllTasks)
              /\ v.mHomeTask = IF w.mHomeTask = Active(w) THEN Active(v) ELSE w.mHomeTask
              /\ v.undefined = w.undefined
<1> DEFINE t == Active(w)
           a == [w EXCEPT !.mAllTasks = Tail(w.mAllTasks)]
           b == IF t = w.mHomeTask THEN [a EXCEPT !.mHomeTask = Active(a)] ELSE a
           v == LeaveEmptyTask(w, t)
<1>1. w \in HeapType /\ t \in Task /\ Tail(w.mAllTasks) \in Seq(Task)
  BY ActiveFacts, ListedFacts, TailFacts DEF Low
<1>2. v = IF Active(b) = 0 THEN b ELSE StackForeground(b, Active(b), TRUE)
  BY DEF LeaveEmptyTask
<1> HIDE DEF t
<1>3. /\ Moves(w, a) /\ a.mAllTasks = Tail(w.mAllTasks) /\ a.stack = w.stack
              /\ a.mHomeTask = w.mHomeTask
      /\ a.mSystemUITasks = w.mSystemUITasks /\ a.undefined = w.undefined /\ Low(a)
  BY <1>1, ListSet DEF Moves
<1> HIDE DEF a
<1>4. Active(a) \in Task \union {0}
  BY <1>3, ActiveFacts DEF Low
<1>5. /\ Moves(a, b) /\ b.mAllTasks = a.mAllTasks /\ b.stack = a.stack /\ b.undefined = a.undefined
      /\ b.mSystemUITasks = a.mSystemUITasks /\ Low(b)
      /\ b.mHomeTask = IF w.mHomeTask = t THEN Active(a) ELSE w.mHomeTask
  <2>1. CASE t = w.mHomeTask
    BY <2>1, <1>3, <1>4, HomeSet DEF Moves
  <2>2. CASE t # w.mHomeTask
    BY <2>2, <1>3, MovesReflexive
  <2>3. QED
    BY <2>1, <2>2
<1> HIDE DEF b
<1>6. Active(b) = Active(a) /\ Active(b) \in Task \union {0}
  BY <1>4, <1>5 DEF Active
<1>7. Moves(w, b)
  BY <1>3, <1>5, MovesTransitive
<1>8. Owned(b)
  <2>1. \A r \in Task : On(b, r) = On(w, r) /\ On(w, r) \subseteq Activity
    BY <1>1, <1>3, <1>5, OnFacts DEF On
  <2>2. QED
    BY <2>1, <1>7, MovesKeeps DEF Owned
<1>9. Quiet(b, v)
  <2>1. CASE Active(b) = 0
    BY <2>1, <1>2, <1>5, QuietReflexive
  <2>2. CASE Active(b) # 0
    BY <2>2, <1>2, <1>5, <1>6, <1>8, StackForegroundQuiet DEF Owned
  <2>3. QED
    BY <2>1, <2>2
<1> HIDE DEF v
<1>10. Moves(b, v) /\ SameLists(b, v) /\ v.stack = b.stack /\ v.undefined = b.undefined
              /\ Active(v) = Active(b)
  BY <1>9, CalmMoves DEF Quiet
<1>11. Moves(w, v)
  BY <1>7, <1>10, MovesTransitive
<1>12. QED
  BY <1>3, <1>5, <1>6, <1>10, <1>11 DEF SameLists, v, t

\* Resuming the next activity in place of a finished one.
LEMMA ReplacedQuiet ==
    ASSUME NEW w, Low(w), Owned(w), NEW x \in Activity, AppOf(w, x) # 0
    PROVE  Quiet(w, Replaced(w, x))
<1> DEFINE next == Top(w, Active(w))
           a == LifecycleTransition(w, x, PAUSED)
           b == LifecycleTransition(a, next, RESUMED)
           v == Commit(b, "DELAY_DESTROY", next, x)
<1>1. next # 0 => next \in Activity /\ AppOf(w, next) # 0
  BY TopFacts, ActiveFacts DEF Low, Owned
<1>2. Replaced(w, x) = IF next = 0 THEN LifecycleTransition(w, x, DESTROYED) ELSE v
  BY DEF Replaced
<1>3. CASE next = 0
  BY <1>2, <1>3, TransitionQuiet DEF Status
<1>4. CASE next # 0
  <2> HIDE DEF next
  <2>1. Quiet(w, a)
    BY TransitionQuiet DEF Status
  <2> HIDE DEF a
  <2>2. Low(a) /\ AppOf(a, x) # 0 /\ AppOf(a, next) # 0
    BY <1>1, <1>4, <2>1, QuietKeepsApp DEF Quiet
  <2>3. Quiet(a, b)
    BY <1>1, <1>4, <2>2, TransitionQuiet DEF Status
  <2> HIDE DEF b
  <2>4. Low(b) /\ AppOf(b, x) # 0 /\ AppOf(b, next) # 0
    BY <1>1, <1>4, <2>2, <2>3, QuietKeepsApp DEF Quiet
  <2>5. Quiet(b, v)
    <3>1. x \in 0..MaxActivities /\ x # 0
      BY BoundsAssumption DEF Activity
    <3>2. QED
      BY <3>1, <1>1, <1>4, <2>4, CommitQuiet
  <2> HIDE DEF v
  <2>6. Quiet(a, v)
    BY <2>2, <2>3, <2>5, QuietTransitive
  <2>7. Quiet(w, v)
    BY <2>1, <2>6, QuietTransitive
  <2>8. QED
    BY <2>7, <1>2, <1>4
<1>5. QED
  BY <1>3, <1>4

\* A task without activities is not listed.
LEMMA CutFine ==
    ASSUME NEW w, NEW X, Fine(w, X), NEW v, Moves(w, v), NEW t \in Task,
           v.mSystemUITasks = w.mSystemUITasks,
           \A r \in Task : r # t => v.stack[r] = w.stack[r],
           On(v, t) \subseteq On(w, t), IsInjective(v.stack[t]), IsInjective(v.mAllTasks),
           Listed(v) = IF v.stack[t] = <<>> THEN Listed(w) \ {t} ELSE Listed(w),
           v.mHomeTask \in {0, w.mHomeTask} \union Listed(w),
           HomeListed(w) /\ NonEmpty(w) /\ FinishOnce /\ HomeStays => HomeListed(v), Careful(v)
    PROVE  Fine(v, X) /\ Loose(w, v, {})
<1>1. Base(w) /\ w \in HeapType /\ v \in HeapType
  BY BaseFacts DEF Fine, Moves, Low
<1>2. Shrinks(w, v)
  <2>1. \A r \in Task : IsInjective(v.stack[r]) /\ On(v, r) \subseteq On(w, r)
    BY <1>1, BaseFacts DEF On
  <2>2. QED
    BY <2>1 DEF Shrinks, UiListed
<1>3. Tidy(v)
  <2>1. NonEmpty(w) => NonEmpty(v)
    <3>1. Listed(w) \subseteq Task
      BY <1>1, BaseFacts
    <3>2. QED
      BY <3>1 DEF NonEmpty
  <2>2. AllListed(w) => AllListed(v)
    <3>1. v.stack[t] # <<>> => w.stack[t] # <<>>
      BY <1>1, OnFacts, ElementsFacts DEF On
    <3>2. QED
      BY <3>1 DEF AllListed
  <2>3. QED
    BY <2>1, <2>2 DEF Tidy, Fine
<1>4. QED
  BY <1>2, <1>3, MovesFine

\* FinishActivity() keeps the invariant.
LEMMA FinishFine ==
    ASSUME NEW w, Fine(w, {}), NEW x \in Activity, AppOf(w, x) # 0,
           FinishOnce => \E t \in Task : x \in On(w, t),
           HomeStays => ~(/\ TaskOf(w, x) = w.mHomeTask
                          /\ Active(w) # w.mHomeTask
                          /\ Place(w.stack[w.mHomeTask], x) = 1)
    PROVE  Fine(FinishActivity(w, x), {}) /\ Loose(w, FinishActivity(w, x), {})
<1> DEFINE t == TaskOf(w, x)
           active == Active(w)
           p == PopAbove(w, t, x)
           place == Place(w.stack[t], x)
           q == [p EXCEPT !.stack[t] = Front(p.stack[t])]
           v == FinishActivity(w, x)
<1>1. /\ Base(w) /\ CountedBut(w, {}) /\ Low(w) /\ w \in HeapType /\ Owned(w)
              /\ IsInjective(w.mAllTasks)
      /\ w.mAllTasks \in Seq(Task) /\ Listed(w) \subseteq Task /\ 0 \notin Task
  BY BaseFacts, ListedFacts DEF Fine
<1>2. t \in Task \union {0} /\ (t # 0 => t \in Task /\ t = w.act[x].mInTask /\ Kept(w, t))
  BY <1>1, TaskOfFacts
<1>3. CASE t = 0
  BY <1>1, <1>3, QuietFine, QuietReflexive DEF FinishActivity
<1>4. CASE t # 0
  <2>0. t \in Task /\ t = w.act[x].mInTask /\ Kept(w, t)
    BY <1>2, <1>4
  <2>1. \A y \in On(w, t) : y \in Activity /\ AppOf(w, y) # 0 /\ ~Freed(w, y)
    BY <1>1, <2>0, KeptFacts
  <2>2. /\ w.stack[t] \in Seq(Activity) /\ IsInjective(w.stack[t]) /\ ToSet(w.stack[t]) = On(w, t)
        /\ place \in 0..Len(w.stack[t]) /\ (place # 0 <=> x \in On(w, t)) /\ Len(w.stack[t]) \in Nat
    BY <1>1, <2>0, BaseFacts, OnFacts, PlaceFacts DEF On
  <2> DEFINE cut == SubSeq(w.stack[t], 1, place)
             rest == Front(cut)
  <2>3. /\ cut \in Seq(Activity) /\ ToSet(cut) \subseteq On(w, t) /\ IsInjective(cut)
        /\ cut = <<>> <=> place = 0
    BY <2>2, CutFacts
  <2>4. Moves(w, p) /\ SameLists(w, p) /\ p.undefined = w.undefined /\ p.stack =
                [w.stack EXCEPT ![t] = cut]
    BY <1>1, <2>0, <2>1, PopAboveMoves
  <2>5. /\ p.stack[t] = cut /\ (\A r \in Task : r # t => p.stack[r] = w.stack[r]) /\ Low(p)
        /\ Active(p) = active
    BY <2>4, <2>0, <1>1, HeapParts DEF Moves, SameLists, Active
  <2>6. CASE place = 0
    <3>1. ~FinishOnce
      <4>1. \A r \in Task : x \in On(w, r) => r = t
        BY <1>1, <2>0, BaseFacts
      <4>2. QED
        BY <4>1, <2>2, <2>6
    <3>2. v = Undefined(p)
      BY <1>4, <2>3, <2>5, <2>6 DEF FinishActivity
    <3> HIDE DEF p, v, cut
    <3>3. Moves(p, v) /\ SameLists(p, v) /\ v.stack = p.stack
      BY <2>5, <3>2, SetUndefined, CalmMoves
    <3>4. Moves(w, v) /\ SameLists(w, v)
      BY <3>3, <1>1, <2>4, MovesTransitive DEF SameLists
    <3>5. Tidy(v) /\ Careful(v)
      BY <3>1 DEF Tidy, Careful
    <3>6. Shrinks(w, v)
      <4>1. \A r \in Task : IsInjective(v.stack[r]) /\ On(v, r) \subseteq On(w, r)
        BY <1>1, <2>3, <2>5, <3>3, BaseFacts DEF On
      <4>2. QED
        BY <4>1, <3>4, <1>1 DEF Shrinks, SameLists, Listed, UiListed
    <3>7. QED
      BY <3>4, <3>5, <3>6, MovesFine DEF v
  <2>7. CASE place # 0
    <3>1. x \in On(w, t) /\ ~Freed(w, x) /\ cut # <<>>
      BY <2>1, <2>2, <2>3, <2>7
    <3>2. rest \in Seq(Activity) /\ ToSet(rest) \subseteq On(w, t) /\ IsInjective(rest)
      <4> HIDE DEF cut
      <4>1. QED
        BY <2>3, <3>1, FrontFacts
    <3>3. rest = <<>> => place = 1
      <4>1. Len(cut) = place
        BY <2>2, <2>7
      <4>2. rest = SubSeq(cut, 1, Len(cut) - 1)
        BY DEF Front
      <4>3. SubSeq(cut, 1, place - 1) = <<>> <=> place - 1 = 0
        <5>1. place - 1 \in 0..Len(cut)
          BY <4>1, <2>2, <2>7
        <5> HIDE DEF cut, place
        <5>2. QED
          BY <5>1, <2>3, CutFacts
      <4>4. QED
        BY <4>1, <4>2, <4>3, <2>2
    <3>4. q = [p EXCEPT !.stack[t] = rest]
      BY <2>5
    <3> HIDE DEF q
    <3>5. /\ Moves(p, q) /\ SameLists(p, q) /\ q.undefined = p.undefined
          /\ q.stack = [p.stack EXCEPT ![t] = rest]
      <4> HIDE DEF rest, cut, p, t
      <4>1. QED
        BY <3>2, <3>4, <2>0, <2>5, StackSet
    <3>6. /\ Moves(w, q) /\ q.mAllTasks = w.mAllTasks /\ q.mHomeTask = w.mHomeTask /\ Low(q)
          /\ q.mSystemUITasks = w.mSystemUITasks /\ q.undefined = w.undefined /\ Active(q) = active
          /\ q.stack[t] = rest /\ \A r \in Task : r # t => q.stack[r] = w.stack[r]
      <4>1. Moves(w, q) /\ SameLists(w, q)
        BY <3>5, <1>1, <2>4, MovesTransitive DEF SameLists
      <4>2. p.stack \in [Task -> Seq(Activity)]
        BY <2>5, HeapParts DEF Low
      <4> HIDE DEF rest, cut, p
      <4>3. QED
        BY <4>1, <4>2, <3>5, <2>0, <2>4, <2>5 DEF SameLists, Moves, Active
    <3>7. /\ \A r \in Task : On(q, r) \subseteq On(w, r) /\ On(w, r) \subseteq Activity
          /\ Owned(q) /\ AppOf(q, x) # 0 /\ ~Freed(q, x)
      <4>1. \A r \in Task : On(q, r) \subseteq On(w, r) /\ On(w, r) \subseteq Activity
        BY <1>1, <3>2, <3>6, OnFacts DEF On
      <4>2. QED
        BY <4>1, <1>1, <3>1, <3>6, MovesKeeps DEF Owned
    <3> HIDE DEF cut, rest, p
    <3>8. CASE t = active
      <4> DEFINE c == ChangeForeground(q, x, FALSE)
                 l == IF c.stack[t] = <<>> THEN LeaveEmptyTask(c, t) ELSE c
      <4>1. v = Replaced(l, x)
        BY <1>4, <2>5, <3>1, <3>8 DEF FinishActivity, Replaced, q, p, cut
      <4>2. Calm(q, c) /\ c.undefined = q.undefined
        BY <3>6, <3>7, ChangeForegroundQuiet
      <4> HIDE DEF c
      <4>3. /\ Moves(w, c) /\ Low(c) /\ SameLists(q, c) /\ c.stack = q.stack /\ Active(c) = t
            /\ c.undefined = w.undefined
        BY <4>2, <3>6, <3>8, <1>1, CalmMoves, MovesTransitive DEF Moves
      <4>4. Owned(c)
        BY <4>2, <4>3, <3>7, QuietKeepsApp DEF Owned, On
      <4>5. /\ Moves(c, l) /\ Low(l) /\ l.stack = c.stack /\ l.undefined = c.undefined
            /\ l.mSystemUITasks = c.mSystemUITasks
            /\ l.mAllTasks = IF c.stack[t] = <<>> THEN Tail(c.mAllTasks) ELSE c.mAllTasks
            /\ l.mHomeTask = IF c.stack[t] = <<>> /\ c.mHomeTask = t THEN Active(l) ELSE c.mHomeTask
        <5>1. CASE c.stack[t] = <<>>
          BY <5>1, <4>3, <4>4, <1>4, LeaveEmptyMoves DEF Moves
        <5>2. CASE c.stack[t] # <<>>
          BY <5>2, <4>3, MovesReflexive
        <5>3. QED
          BY <5>1, <5>2
      <4> HIDE DEF l
      <4>6. Moves(w, l)
        BY <4>3, <4>5, <1>1, MovesTransitive
      <4>7. Owned(l) /\ AppOf(l, x) # 0
        <5>1. \A r \in Task : On(l, r) = On(q, r)
          BY <4>3, <4>5 DEF On
        <5>2. QED
          BY <5>1, <1>1, <3>7, <4>6, MovesKeeps DEF Owned
      <4>8. Quiet(l, v)
        BY <4>1, <4>5, <4>7, ReplacedQuiet
      <4> HIDE DEF v
      <4>9. Moves(l, v) /\ SameLists(l, v) /\ v.stack = l.stack /\ v.undefined = l.undefined
                    /\ Active(v) = Active(l)
        BY <4>8, CalmMoves DEF Quiet
      <4>10. Moves(w, v) /\ v.undefined = w.undefined
        BY <4>3, <4>5, <4>6, <4>9, <1>1, MovesTransitive
      <4>11. /\ v.mAllTasks = IF v.stack[t] = <<>> THEN Tail(w.mAllTasks) ELSE w.mAllTasks
             /\ v.mHomeTask = IF v.stack[t] = <<>> /\ w.mHomeTask = t THEN Active(v)
                           ELSE w.mHomeTask
             /\ v.mSystemUITasks = w.mSystemUITasks
        BY <3>6, <4>3, <4>5, <4>9 DEF SameLists
      <4>12. /\ Listed(v) = IF v.stack[t] = <<>> THEN Listed(w) \ {t} ELSE Listed(w)
             /\ IsInjective(v.mAllTasks)
        <5>1. w.mAllTasks # <<>> /\ Head(w.mAllTasks) = t
          BY <1>4, <3>8 DEF Active
        <5>2. /\ Listed(w) = ToSet(Tail(w.mAllTasks)) \union {t}
              /\ IsInjective(Tail(w.mAllTasks)) /\ t \notin ToSet(Tail(w.mAllTasks))
          BY <5>1, <1>1, TailFacts DEF Listed
        <5>3. QED
          BY <5>2, <4>11, <1>1 DEF Listed
      <4>13. /\ \A r \in Task : r # t => v.stack[r] = w.stack[r]
             /\ On(v, t) \subseteq On(w, t) /\ IsInjective(v.stack[t])
        BY <2>0, <3>2, <3>6, <3>7, <4>3, <4>5, <4>9 DEF On
      <4>14. v \in HeapType /\ Active(v) \in Listed(v) \union {0}
        BY <4>10, ActiveFacts DEF Moves, Low
      <4>15. v.mHomeTask \in {0, w.mHomeTask} \union Listed(w)
        BY <4>11, <4>12, <4>14
      <4>16. HomeListed(w) => HomeListed(v)
        BY <1>1, <4>11, <4>12, <4>14, ListedFacts DEF HomeListed
      <4>17. Careful(v)
        BY <4>10 DEF Careful, Fine
      <4>18. QED
        BY <2>0, <4>10, <4>11, <4>12, <4>13, <4>15, <4>16, <4>17, CutFine DEF v
    <3>9. CASE t # active
      <4> DEFINE d == LifecycleTransition(q, x, DESTROYED)
      <4>1. v = IF d.stack[t] = <<>> THEN DeleteTask(d, t) ELSE d
        BY <1>4, <2>5, <3>1, <3>9 DEF FinishActivity, q, p, cut
      <4>2. Quiet(q, d)
        BY <3>6, <3>7, TransitionQuiet DEF Status
      <4> HIDE DEF d, v
      <4>3. /\ Moves(w, d) /\ Low(d) /\ SameLists(q, d) /\ d.stack = q.stack
                    /\ d.undefined = w.undefined
        BY <4>2, <3>6, <1>1, CalmMoves, MovesTransitive DEF Moves, Quiet
      <4>4. /\ Moves(d, v) /\ v.stack = d.stack /\ v.mHomeTask = d.mHomeTask
            /\ v.mSystemUITasks = d.mSystemUITasks /\ v.undefined = d.undefined
            /\ Listed(v) = IF d.stack[t] = <<>> THEN Listed(d) \ {t} ELSE Listed(d)
            /\ IsInjective(d.mAllTasks) => IsInjective(v.mAllTasks)
        <5>1. CASE d.stack[t] = <<>>
          BY <5>1, <4>1, <4>3, DeleteTaskMoves
        <5>2. CASE d.stack[t] # <<>>
          BY <5>2, <4>1, <4>3, MovesReflexive
        <5>3. QED
          BY <5>1, <5>2
      <4>5. Moves(w, v) /\ v.undefined = w.undefined
        BY <4>3, <4>4, <1>1, MovesTransitive
      <4>6. /\ Listed(v) = IF v.stack[t] = <<>> THEN Listed(w) \ {t} ELSE Listed(w)
            /\ IsInjective(v.mAllTasks) /\ v.mHomeTask = w.mHomeTask
            /\ v.mSystemUITasks = w.mSystemUITasks
        BY <1>1, <3>6, <4>3, <4>4 DEF SameLists, Listed
      <4>7. /\ \A r \in Task : r # t => v.stack[r] = w.stack[r]
            /\ On(v, t) \subseteq On(w, t) /\ IsInjective(v.stack[t]) /\ v.stack[t] = rest
        BY <2>0, <3>2, <3>6, <3>7, <4>3, <4>4 DEF On
      <4>8. ASSUME HomeListed(w), HomeStays PROVE HomeListed(v)
        <5>1. t = w.mHomeTask => rest # <<>>
          BY <4>8, <3>3, <3>9
        <5>2. v \in HeapType
          BY <4>5 DEF Moves, Low
        <5>3. QED
          BY <5>1, <5>2, <4>6, <4>7, <4>8, <1>1, ListedFacts DEF HomeListed
      <4>9. Careful(v)
        BY <4>5 DEF Careful, Fine
      <4>10. QED
        BY <2>0, <4>5, <4>6, <4>7, <4>8, <4>9, CutFine DEF v
    <3>10. QED
      BY <3>8, <3>9
  <2>8. QED
    BY <2>6, <2>7
<1>5. QED
  BY <1>3, <1>4

\* x is gone from its task, if the task is kept.
LEMMA GoneFine ==
    ASSUME NEW w, NEW X, Fine(w, X), NEW x \in Activity, TaskOf(w, x) # 0
                  => x \notin On(w, TaskOf(w, x))
    PROVE  Fine(w, X \ {x})
<1>1. Base(w) /\ w \in HeapType
  BY BaseFacts DEF Fine
<1>2. CountedBut(w, X \ {x})
  <2> SUFFICES ASSUME NEW t \in Task, Kept(w, t), NEW y \in On(w, t), y \notin X \/ y = x
               PROVE  y \in Exist(w, AppOf(w, y))
    BY DEF CountedBut
  <2>1. y # x
    <3>1. w.act[y].mInTask = t /\ t # 0
      BY <1>1, BaseFacts
    <3>2. QED
      BY <3>1, <1>1, TaskOfFacts
  <2>2. QED
    BY <2>1 DEF Fine, CountedBut
<1>3. QED
  BY <1>2 DEF Fine

\* DeleteActivity() keeps the invariant, and the activity leaves its task.
LEMMA DeleteActivityFine ==
    ASSUME NEW w, NEW X, Fine(w, X), NEW x \in Activity
    PROVE  /\ Fine(DeleteActivity(w, x), X \ {x})
           /\ Loose(w, DeleteActivity(w, x), {})
           /\ Gone(DeleteActivity(w, x), x)
<1> DEFINE t == TaskOf(w, x)
           p == PopThrough(w, t, x)
           l == IF p.stack[t] = <<>> THEN DeleteTask(p, t) ELSE p
           next == Top(l, Active(l))
           r == IF t = Active(w) /\ next # 0 THEN LifecycleTransition(l, next, RESUMED) ELSE l
           v == DeleteActivity(w, x)
<1>1. /\ Base(w) /\ Low(w) /\ w \in HeapType /\ Owned(w) /\ IsInjective(w.mAllTasks)
      /\ w.mAllTasks \in Seq(Task) /\ Listed(w) \subseteq Task /\ 0 \notin Task
  BY BaseFacts, ListedFacts DEF Fine
<1>2. t \in Task \union {0} /\ (t # 0 => t \in Task /\ t = w.act[x].mInTask /\ Kept(w, t))
  BY <1>1, TaskOfFacts
<1>3. CASE t = 0
  <2>1. v = w
    BY <1>3 DEF DeleteActivity
  <2>2. Fine(w, X \ {x})
    BY <1>3, GoneFine
  <2>3. QED
    BY <2>1, <2>2, <1>1, <1>3, QuietFine, QuietReflexive DEF Gone
<1>4. CASE t # 0
  <2>0. t \in Task /\ t = w.act[x].mInTask
    BY <1>2, <1>4
  <2>1. /\ Moves(w, p) /\ SameLists(w, p) /\ p.undefined = w.undefined
        /\ \A s \in Task : s # t => p.stack[s] = w.stack[s]
        /\ On(p, t) \subseteq On(w, t) \ {x} /\ IsInjective(p.stack[t])
    BY <1>1, <2>0, BaseFacts, PopThroughMoves
  <2>2. v = IF t = w.mHomeTask /\ r.stack[t] = <<>> THEN [r EXCEPT !.mHomeTask = Active(r)] ELSE r
    BY <1>4 DEF DeleteActivity
  <2> HIDE DEF p, t
  <2>3. /\ Moves(p, l) /\ l.stack = p.stack /\ l.mHomeTask = p.mHomeTask
        /\ l.mSystemUITasks = p.mSystemUITasks /\ l.undefined = p.undefined
        /\ Listed(l) = IF p.stack[t] = <<>> THEN Listed(p) \ {t} ELSE Listed(p)
        /\ IsInjective(p.mAllTasks) => IsInjective(l.mAllTasks)
    <3>1. Low(p)
      BY <2>1 DEF Moves
    <3>2. CASE p.stack[t] = <<>>
      BY <3>1, <3>2, DeleteTaskMoves
    <3>3. CASE p.stack[t] # <<>>
      BY <3>1, <3>3, MovesReflexive
    <3>4. QED
      BY <3>2, <3>3
  <2> HIDE DEF l
  <2>4. Moves(w, l) /\ Low(l) /\ l \in HeapType
    BY <1>1, <2>1, <2>3, MovesTransitive DEF Moves, Low
  <2>5. next # 0 => next \in Activity /\ AppOf(l, next) # 0
    <3>1. \A s \in Task : On(l, s) \subseteq On(w, s) /\ On(w, s) \subseteq Activity
      BY <1>1, <2>1, <2>3, OnFacts DEF On
    <3>2. Owned(l)
      BY <3>1, <1>1, <2>4, MovesKeeps DEF Owned
    <3>3. QED
      BY <3>2, <2>4, TopFacts, ActiveFacts DEF Owned
  <2> HIDE DEF next
  <2>6. Quiet(l, r)
    <3>1. CASE t = Active(w) /\ next # 0
      BY <3>1, <2>4, <2>5, TransitionQuiet DEF Status
    <3>2. CASE ~(t = Active(w) /\ next # 0)
      BY <3>2, <2>4, QuietReflexive
    <3>3. QED
      BY <3>1, <3>2
  <2> HIDE DEF r
  <2>7. Moves(l, r) /\ SameLists(l, r) /\ r.stack = l.stack /\ r.undefined = l.undefined /\ Low(r)
    BY <2>6, CalmMoves DEF Quiet, Moves
  <2>8. Moves(w, r) /\ Active(r) \in Task \union {0}
    BY <1>1, <2>4, <2>7, MovesTransitive, ActiveFacts DEF Low
  <2>9. /\ Moves(r, v) /\ v.mAllTasks = r.mAllTasks /\ v.stack = r.stack
                /\ v.undefined = r.undefined
        /\ v.mSystemUITasks = r.mSystemUITasks
        /\ v.mHomeTask = IF t = w.mHomeTask /\ r.stack[t] = <<>> THEN Active(r) ELSE r.mHomeTask
    <3>1. CASE t = w.mHomeTask /\ r.stack[t] = <<>>
      BY <3>1, <2>2, <2>7, <2>8, HomeSet
    <3>2. CASE ~(t = w.mHomeTask /\ r.stack[t] = <<>>)
      BY <3>2, <2>2, <2>7, MovesReflexive
    <3>3. QED
      BY <3>1, <3>2
  <2> HIDE DEF v
  <2>10. Moves(w, v) /\ v.undefined = w.undefined
    BY <1>1, <2>1, <2>3, <2>7, <2>8, <2>9, MovesTransitive
  <2>11. /\ Listed(v) = IF v.stack[t] = <<>> THEN Listed(w) \ {t} ELSE Listed(w)
         /\ IsInjective(v.mAllTasks) /\ v.mSystemUITasks = w.mSystemUITasks
         /\ v.mHomeTask = IF t = w.mHomeTask /\ v.stack[t] = <<>> THEN Active(v) ELSE w.mHomeTask
    <3>1. Active(v) = Active(r)
      BY <2>9 DEF Active
    <3>2. QED
      BY <3>1, <1>1, <2>1, <2>3, <2>7, <2>9 DEF SameLists, Listed
  <2>12. /\ \A s \in Task : s # t => v.stack[s] = w.stack[s]
         /\ On(v, t) \subseteq On(w, t) \ {x} /\ IsInjective(v.stack[t])
    BY <2>1, <2>3, <2>7, <2>9 DEF On
  <2>13. v \in HeapType /\ Active(v) \in Listed(v) \union {0}
    BY <2>10, ActiveFacts DEF Moves, Low
  <2>14. v.mHomeTask \in {0, w.mHomeTask} \union Listed(w)
    BY <2>11, <2>13
  <2>15. HomeListed(w) => HomeListed(v)
    <3>1. HomeListed(w) => Listed(v) \subseteq Listed(w) /\ (w.mHomeTask = 0 <=> Listed(w) = {})
      BY <1>1, <2>11, ListedFacts DEF HomeListed
    <3>2. HomeListed(v) <=> /\ v.mHomeTask = 0 <=> Listed(v) = {}
                            /\ v.mHomeTask # 0 => v.mHomeTask \in Listed(v)
      BY <2>13, ListedFacts DEF HomeListed
    <3>3. Active(v) = 0 <=> Listed(v) = {}
      BY <2>13, ListedFacts
    <3>4. QED
      BY <3>1, <3>2, <3>3, <2>11, <2>13 DEF HomeListed
  <2>16. Careful(v)
    BY <2>10 DEF Careful, Fine
  <2>17. Fine(v, X) /\ Loose(w, v, {})
    BY <2>0, <2>10, <2>11, <2>12, <2>14, <2>15, <2>16, CutFine
  <2>18. TaskOf(v, x) # 0 => x \notin On(v, TaskOf(v, x))
    <3>1. TaskOf(v, x) # 0 => TaskOf(v, x) = t
      BY <2>0, <2>13, <2>17, TaskOfFacts DEF Loose
    <3>2. QED
      BY <3>1, <2>12
  <2>19. QED
    BY <2>17, <2>18, GoneFine DEF v, Gone
<1>5. QED
  BY <1>3, <1>4

-----------------------------------------------------------------------------
(* The task manager of the system UI keeps the invariant.                   *)

\* Turning an activity of the system UI.
LEMMA UiChangeFine ==
    ASSUME NEW w, NEW X, Fine(w, X), NEW x \in Activity, AppOf(w, x) # 0, ~Freed(w, x), NEW s \in Status
    PROVE  Fine(UiChange(w, x, s), X) /\ Loose(w, UiChange(w, x, s), {})
<1>1. Low(w)
  BY BaseFacts DEF Fine
<1>2. Quiet(w, UiChange(w, x, s))
  BY <1>1, UiChangeCalm DEF Quiet
<1>3. QED
  BY <1>2, QuietFine

\* Turning the activities of a task of the system UI.
LEMMA UiChangeTaskFine ==
    ASSUME NEW w, Fine(w, {}), NEW t \in Task, Kept(w, t), NEW s \in Status
    PROVE  Fine(UiChangeTask(w, t, s), {}) /\ Loose(w, UiChangeTask(w, t, s), {})
<1>1. Base(w) /\ CountedBut(w, {}) /\ Low(w)
  BY BaseFacts DEF Fine
<1>2. \A x \in On(w, t) : AppOf(w, x) # 0 /\ ~Freed(w, x)
  BY <1>1, KeptFacts
<1>3. Quiet(w, UiChangeTask(w, t, s))
  BY <1>1, <1>2, UiChangeTaskCalm DEF Quiet
<1>4. QED
  BY <1>3, QuietFine

\* The start of an application keeps the invariant.
LEMMA UiOnStartFine ==
    ASSUME NEW w, Fine(w, {})
    PROVE  Fine(UiOnStartActivity(w), {}) /\ Loose(w, UiOnStartActivity(w), {})
<1>1. Base(w) /\ CountedBut(w, {}) /\ Low(w) /\ Owned(w) /\ UiListed(w) \subseteq Task
  BY BaseFacts DEF Fine
<1>2. \A t \in UiListed(w) : \A x \in On(w, t) : ~Freed(w, x)
  BY <1>1, KeptFacts DEF Kept
<1>3. w.mSystemUITasks \in Seq(Task)
  BY <1>1, HeapParts DEF Low
<1>4. UiOnStartActivity(w) = UiTaskChanges(w, w.mSystemUITasks, STOPPED)
  BY DEF UiOnStartActivity, UiTaskChanges
<1>5. Quiet(w, UiOnStartActivity(w))
  <2>1. STOPPED \in Status
    BY DEF Status
  <2>2. Quiet(w, UiTaskChanges(w, w.mSystemUITasks, STOPPED))
    BY <1>1, <1>2, <1>3, <2>1, UiTaskAll DEF Quiet, UiListed
  <2>3. QED
    BY <2>2, <1>4
<1>6. QED
  BY <1>5, QuietFine

\* The tasks of the standard mode stay as they are.
LEMMA UiTidy ==
    ASSUME NEW w, Tidy(w), NEW v, NEW t \in Task, t \notin Listed(w), Listed(w) \subseteq Task, SystemUI # {},
           v.mAllTasks = w.mAllTasks, v.mHomeTask = w.mHomeTask,
           \A r \in Task : r # t => v.stack[r] = w.stack[r]
    PROVE  Tidy(v)
<1>1. Listed(v) = Listed(w)
  BY DEF Listed
<1>2. NonEmpty(w) => NonEmpty(v)
  BY <1>1 DEF NonEmpty
<1>3. HomeListed(w) => HomeListed(v)
  BY <1>1 DEF HomeListed
<1>4. QED
  BY <1>2, <1>3 DEF Tidy

\* The system UI's pushNewActivity() keeps the invariant.
LEMMA UiPushFine ==
    ASSUME NEW w, Fine(w, {}), NEW t, NEW x, Pushable(w, t, x), IsSystemUI(w, x)
    PROVE  Fine(UiPushNewActivity(w, t, x), {}) /\ Loose(w, UiPushNewActivity(w, t, x), {})
<1> DEFINE a == UiChange(w, x, RESUMED)
           s == Append(a.stack[t], x)
           p == [a EXCEPT !.stack[t] = s]
           listed == UiFindTask(p, w.tag[t]) # 0
           v == UiPushNewActivity(w, t, x)
<1>1. /\ Base(w) /\ Low(w) /\ CountedBut(w, {}) /\ w \in HeapType /\ t \in Task /\ x \in Activity
      /\ AppOf(w, x) # 0 /\ ~Freed(w, x) /\ w.act[x].mStatus = INIT /\ x \notin On(w, t)
      /\ IsInjective(w.mAllTasks) /\ Listed(w) \subseteq Task /\ 0 \notin Task /\ Ready(w, x)
  BY BaseFacts DEF Fine, Pushable, Ready
<1>2. v = IF listed THEN p ELSE [p EXCEPT !.mSystemUITasks = <<t>> \o p.mSystemUITasks]
  BY <1>1 DEF UiPushNewActivity
<1>3. Calm(w, a) /\ a.undefined = w.undefined /\ x \in Exist(a, AppOf(w, x))
  <2>1. RESUMED \in Status
    BY DEF Status
  <2>2. QED
    BY <1>1, <2>1, UiChangeCalm
<1> HIDE DEF a
<1>4. Moves(w, a) /\ SameLists(w, a) /\ a.stack = w.stack /\ Low(a)
  BY <1>3, CalmMoves DEF Moves
<1>5. /\ s \in Seq(Activity) /\ s # <<>> /\ ToSet(s) = On(w, t) \union {x} /\ IsInjective(s)
  <2>1. w.stack[t] \in Seq(Activity) /\ IsInjective(w.stack[t])
    BY <1>1, BaseFacts, OnFacts
  <2>2. QED
    BY <2>1, <1>1, <1>4, AppendFacts DEF On
<1> HIDE DEF s
<1>6. Moves(a, p) /\ SameLists(a, p) /\ p.undefined = a.undefined /\ p.stack =
              [a.stack EXCEPT ![t] = s]
      /\ p.act = a.act /\ p.proc = a.proc
  BY <1>1, <1>4, <1>5, StackSet
<1> HIDE DEF p, listed
<1>7. /\ p.stack[t] = s /\ (\A r \in Task : r # t => p.stack[r] = w.stack[r]) /\ Moves(w, p)
              /\ Low(p)
      /\ SameLists(w, p) /\ x \in Exist(p, AppOf(w, x)) /\ p.undefined = w.undefined
  <2>1. a.stack \in [Task -> Seq(Activity)]
    BY <1>4, HeapParts DEF Low
  <2>2. Moves(w, p)
    BY <1>1, <1>4, <1>6, MovesTransitive
  <2>3. QED
    BY <2>1, <2>2, <1>1, <1>3, <1>4, <1>6 DEF SameLists, Exist, Moves
<1>8. /\ Moves(p, v) /\ v.stack = p.stack /\ v.mAllTasks = w.mAllTasks /\ v.mHomeTask = w.mHomeTask
      /\ UiListed(v) \subseteq UiListed(w) \union {t} /\ v.proc = p.proc
                    /\ v.undefined = w.undefined
  <2>1. CASE listed
    BY <2>1, <1>2, <1>7, MovesReflexive DEF SameLists, UiListed
  <2>2. CASE ~listed
    <3> DEFINE q == <<t>> \o p.mSystemUITasks
    <3>1. p.mSystemUITasks \in Seq(Task)
      BY <1>7, HeapParts DEF Low
    <3>2. q \in Seq(Task) /\ ToSet(q) = ToSet(p.mSystemUITasks) \union {t}
      BY <3>1, <1>1, ConsFacts
    <3>3. v = [p EXCEPT !.mSystemUITasks = q]
      BY <1>2, <2>2
    <3> HIDE DEF q, v
    <3>4. /\ Moves(p, v) /\ v.mSystemUITasks = q /\ v.stack = p.stack /\ v.mHomeTask = p.mHomeTask
          /\ v.mAllTasks = p.mAllTasks /\ v.undefined = p.undefined /\ v.proc = p.proc
      BY <3>2, <3>3, <1>7, UiListSet
    <3>5. QED
      BY <3>2, <3>4, <1>7 DEF SameLists, UiListed
  <2>3. QED
    BY <2>1, <2>2
<1> HIDE DEF v
<1>9. Moves(w, v)
  BY <1>1, <1>7, <1>8, MovesTransitive
<1>10. Joins(w, v, t, x)
  BY <1>5, <1>7, <1>8, <1>9 DEF Joins, On, Exist
<1>11. t \notin Listed(w)
  BY DEF Pushable, Fine, Base, Kinds
<1>12. Base(v) /\ CountedBut(v, {}) /\ Loose(w, v, {})
  <2>1. Listed(v) = Listed(w) /\ v.mHomeTask \in {w.mHomeTask, t} /\ IsInjective(v.mAllTasks)
    BY <1>1, <1>8 DEF Listed
  <2>2. QED
    BY <2>1, <1>1, <1>8, <1>10, <1>11, JoinedKept
<1>13. Tidy(v)
  <2>1. SystemUI # {}
    BY DEF IsSystemUI
  <2>2. QED
    BY <2>1, <1>1, <1>7, <1>8, <1>11, UiTidy DEF Fine
<1>14. Careful(v)
  BY <1>8 DEF Careful, Fine
<1>15. QED
  BY <1>12, <1>13, <1>14 DEF Fine, v

\* The system UI's deleteActivity() keeps the invariant.
LEMMA UiDeleteFine ==
    ASSUME NEW w, NEW X, Fine(w, X), NEW x \in Activity, AppOf(w, x) # 0, IsSystemUI(w, x)
    PROVE  /\ Fine(UiDeleteActivity(w, x), X \ {x})
           /\ Loose(w, UiDeleteActivity(w, x), {})
           /\ Gone(UiDeleteActivity(w, x), x)
<1> DEFINE t == TaskOf(w, x)
           s == SwappedOut(w.stack[t], x)
           p == [w EXCEPT !.stack[t] = s]
           v == UiDeleteActivity(w, x)
<1>1. /\ Base(w) /\ Low(w) /\ w \in HeapType /\ IsInjective(w.mAllTasks)
      /\ Listed(w) \subseteq Task /\ 0 \notin Task
  BY BaseFacts DEF Fine
<1>2. t \in Task \union {0} /\ (t # 0 => t \in Task /\ t = w.act[x].mInTask /\ Kept(w, t))
  BY <1>1, TaskOfFacts
<1>3. CASE t = 0
  <2>1. v = w
    BY <1>3 DEF UiDeleteActivity
  <2>2. Fine(w, X \ {x})
    BY <1>3, GoneFine
  <2>3. QED
    BY <2>1, <2>2, <1>1, <1>3, QuietFine, QuietReflexive DEF Gone
<1>4. CASE t # 0
  <2>0. t \in Task /\ t = w.act[x].mInTask
    BY <1>2, <1>4
  <2>1. s \in Seq(Activity) /\ ToSet(s) \subseteq On(w, t) \ {x} /\ IsInjective(s)
    <3>1. w.stack[t] \in Seq(Activity) /\ IsInjective(w.stack[t])
      BY <1>1, <2>0, BaseFacts, OnFacts
    <3>2. QED
      BY <3>1, SwappedFacts DEF On
  <2>2. v = IF p.stack[t] # <<>> THEN p
                ELSE [p EXCEPT !.mSystemUITasks = Without(p.mSystemUITasks, t)]
    BY <1>4 DEF UiDeleteActivity
  <2> HIDE DEF s, t
  <2>3. /\ Moves(w, p) /\ SameLists(w, p) /\ p.undefined = w.undefined /\ p.stack =
                [w.stack EXCEPT ![t] = s]
    BY <2>0, <2>1, <1>1, StackSet
  <2> HIDE DEF p
  <2>4. p.stack[t] = s /\ (\A r \in Task : r # t => p.stack[r] = w.stack[r]) /\ Low(p)
    BY <2>0, <2>3, <1>1, HeapParts DEF Moves
  <2>5. /\ Moves(p, v) /\ v.stack = p.stack /\ v.mHomeTask = w.mHomeTask
                /\ v.mAllTasks = w.mAllTasks
        /\ v.undefined = w.undefined /\ UiListed(v) \subseteq UiListed(w)
    <3>1. CASE p.stack[t] # <<>>
      BY <3>1, <2>2, <2>3, <2>4, MovesReflexive DEF SameLists, UiListed
    <3>2. CASE p.stack[t] = <<>>
      <4> DEFINE q == Without(p.mSystemUITasks, t)
      <4>1. p.mSystemUITasks \in Seq(Task)
        BY <2>4, HeapParts DEF Low
      <4>2. q \in Seq(Task) /\ ToSet(q) \subseteq ToSet(p.mSystemUITasks)
        BY <4>1, WithoutFacts
      <4>3. v = [p EXCEPT !.mSystemUITasks = q]
        BY <2>2, <3>2
      <4> HIDE DEF q, v
      <4>4. /\ Moves(p, v) /\ v.mSystemUITasks = q /\ v.stack = p.stack /\ v.mHomeTask = p.mHomeTask
            /\ v.mAllTasks = p.mAllTasks /\ v.undefined = p.undefined
        BY <4>2, <4>3, <2>4, UiListSet
      <4>5. QED
        BY <4>2, <4>4, <2>3 DEF SameLists, UiListed
    <3>3. QED
      BY <3>1, <3>2
  <2> HIDE DEF v
  <2>6. Moves(w, v)
    BY <1>1, <2>3, <2>5, MovesTransitive
  <2>7. t \notin Listed(w)
    <3>1. x \in Made(w)
      BY <1>1, BaseFacts DEF Base, Numbered, Made, Activity
    <3>2. QED
      BY <3>1, <2>0, <1>1 DEF Base, Kinds
  <2>8. Tidy(v)
    <3>1. SystemUI # {}
      BY DEF IsSystemUI
    <3>2. QED
      BY <3>1, <1>1, <2>0, <2>4, <2>5, <2>7, UiTidy DEF Fine
  <2>9. Shrinks(w, v)
    <3>1. \A r \in Task : IsInjective(v.stack[r]) /\ On(v, r) \subseteq On(w, r)
      BY <1>1, <2>1, <2>4, <2>5, BaseFacts DEF On
    <3>2. QED
      BY <3>1, <2>5 DEF Shrinks, Listed
  <2>10. Careful(v)
    BY <2>5 DEF Careful, Fine
  <2>11. Fine(v, X) /\ Loose(w, v, {})
    BY <2>6, <2>8, <2>9, <2>10, MovesFine
  <2>12. TaskOf(v, x) # 0 => x \notin On(v, TaskOf(v, x))
    <3>1. v \in HeapType
      BY <2>6 DEF Moves, Low
    <3>2. TaskOf(v, x) # 0 => TaskOf(v, x) = t
      BY <3>1, <2>0, <2>11, TaskOfFacts DEF Loose
    <3>3. QED
      BY <3>2, <2>1, <2>4, <2>5 DEF On
  <2>13. QED
    BY <2>11, <2>12, GoneFine DEF v, Gone
<1>5. QED
  BY <1>3, <1>4

-----------------------------------------------------------------------------
(* The reports and the timeouts keep the invariant.                         *)

\* More activities may be about to leave.
LEMMA FineMore ==
    ASSUME NEW w, NEW X, Fine(w, X), NEW Y, X \subseteq Y
    PROVE  Fine(w, Y)
BY DEF Fine, CountedBut

\* A loose step keeps the activities' processes.
LEMMA LooseKeepsApp ==
    ASSUME NEW w, NEW v, NEW X, Loose(w, v, X)
    PROVE  \A x \in Activity : AppOf(v, x) = AppOf(w, x)
BY DEF Loose, AppOf

\* A field of an activity that the tasks do not depend on.
LEMMA FieldFine ==
    ASSUME NEW w, NEW X, Fine(w, X), NEW x \in Activity, AppOf(w, x) # 0, NEW a \in ActivityType,
           a.name = w.act[x].name, a.mInTask = w.act[x].mInTask, a.mApp = w.act[x].mApp,
           a.mStatus = w.act[x].mStatus
    PROVE  Fine([w EXCEPT !.act[x] = a], X) /\ Loose(w, [w EXCEPT !.act[x] = a], {})
<1> DEFINE v == [w EXCEPT !.act[x] = a]
<1>1. Low(w) /\ w \in HeapType
  BY BaseFacts DEF Fine
<1>2. /\ v \in HeapType /\ SameButAct(w, v) /\ v.act[x] = a
      /\ \A y \in Activity : y # x => v.act[y] = w.act[y]
  BY <1>1, ActSet
<1> HIDE DEF v
<1>3. Calm(w, v)
  BY <1>1, <1>2, ActChange
<1>4. Quiet(w, v)
  BY <1>2, <1>3 DEF Quiet, SameButAct
<1>5. QED
  BY <1>4, QuietFine DEF v

\* Removing an activity from the map of tokens.
LEMMA UnmappedFine ==
    ASSUME NEW w, NEW X, Fine(w, X), NEW x \in Activity, AppOf(w, x) # 0
    PROVE  /\ Fine([w EXCEPT !.act[x].mapped = FALSE], X)
           /\ Loose(w, [w EXCEPT !.act[x].mapped = FALSE], {})
<1> DEFINE a == [w.act[x] EXCEPT !.mapped = FALSE]
<1>1. w.act[x] \in ActivityType
  BY BaseFacts, HeapParts DEF Fine
<1>2. /\ a \in ActivityType /\ a.name = w.act[x].name /\ a.mInTask = w.act[x].mInTask
      /\ a.mApp = w.act[x].mApp /\ a.mStatus = w.act[x].mStatus
  BY <1>1 DEF ActivityType
<1>3. [w EXCEPT !.act[x].mapped = FALSE] = [w EXCEPT !.act[x] = a]
  OBVIOUS
<1> HIDE DEF a
<1>4. QED
  BY <1>2, <1>3, FieldFine

\* The client reaches a status.
LEMMA ClientFine ==
    ASSUME NEW w, NEW X, Fine(w, X), NEW x \in Activity, AppOf(w, x) # 0, NEW status \in Reports
    PROVE  /\ Fine([w EXCEPT !.act[x].client = status], X)
           /\ Loose(w, [w EXCEPT !.act[x].client = status], {})
<1> DEFINE a == [w.act[x] EXCEPT !.client = status]
<1>1. w.act[x] \in ActivityType
  BY BaseFacts, HeapParts DEF Fine
<1>2. /\ a \in ActivityType /\ a.name = w.act[x].name /\ a.mInTask = w.act[x].mInTask
      /\ a.mApp = w.act[x].mApp /\ a.mStatus = w.act[x].mStatus
  BY <1>1 DEF ActivityType
<1>3. [w EXCEPT !.act[x].client = status] = [w EXCEPT !.act[x] = a]
  OBVIOUS
<1> HIDE DEF a
<1>4. QED
  BY <1>2, <1>3, FieldFine

\* What a report or an end makes of the status.
LEMMA StatusFine ==
    ASSUME NEW w, NEW X, Fine(w, X), NEW x \in Activity, AppOf(w, x) # 0, NEW s \in Status, s > INIT
    PROVE  /\ Fine([w EXCEPT !.act[x].mStatus = s], X)
           /\ Loose(w, [w EXCEPT !.act[x].mStatus = s], {})
<1> DEFINE v == [w EXCEPT !.act[x].mStatus = s]
<1>1. Low(w) /\ w \in HeapType
  BY BaseFacts DEF Fine
<1>2. /\ SameButAct(w, v) /\ v.act[x] = [w.act[x] EXCEPT !.mStatus = s]
      /\ \A y \in Activity : y # x => v.act[y] = w.act[y]
  BY <1>1, StatusSet
<1>3. Low(v)
  BY <1>1, StatusQuiet
<1>4. \A y \in Activity : /\ v.act[y].name = w.act[y].name
                          /\ v.act[y].mInTask = w.act[y].mInTask
                          /\ v.act[y].mApp = w.act[y].mApp
  BY <1>1, <1>2, HeapParts DEF ActivityType
<1> HIDE DEF v
<1>5. Loose(w, v, {}) /\ SameTasks(w, v) /\ v.undefined = w.undefined
  BY <1>2, <1>4 DEF Loose, SameTasks, SameButAct, Exist
<1>6. Careful(v)
  BY <1>5 DEF Careful, Fine
<1>7. Fine(v, {} \union X)
  BY <1>3, <1>5, <1>6, LooseFine
<1>8. {} \union X = X
  OBVIOUS
<1>9. QED
  BY <1>5, <1>7, <1>8 DEF v

\* An answered activity goes back when it fails.
LEMMA ErrorFine ==
    ASSUME NEW w, NEW X, Fine(w, X), NEW x \in Activity, AppOf(w, x) # 0, Answered(w, x)
    PROVE  LET v == [w EXCEPT !.act[x].mIsError = TRUE, !.act[x].mStatus = @ - 1]
           IN Fine(v, X) /\ Loose(w, v, {})
<1> DEFINE s == w.act[x].mStatus - 1
           a == [w.act[x] EXCEPT !.mIsError = TRUE, !.mStatus = s]
           v == [w EXCEPT !.act[x] = a]
<1>1. Low(w) /\ w \in HeapType /\ w.act[x] \in ActivityType
  BY BaseFacts, HeapParts DEF Fine
<1>2. /\ a \in ActivityType /\ a.name = w.act[x].name /\ a.mInTask = w.act[x].mInTask
      /\ a.mApp = w.act[x].mApp /\ a.mStatus >= INIT
  <2>1. w.act[x].mStatus > INIT
    BY DEF Answered
  <2>2. s \in -1..DESTROYED /\ s >= INIT
    BY <1>1, <2>1, ActParts
  <2> HIDE DEF s
  <2>3. QED
    BY <1>1, <2>2 DEF ActivityType
<1>3. [w EXCEPT !.act[x].mIsError = TRUE, !.act[x].mStatus = @ - 1] = v
  BY <1>1, HeapParts
<1> HIDE DEF a
<1>4. /\ v \in HeapType /\ SameButAct(w, v) /\ v.act[x] = a
      /\ \A y \in Activity : y # x => v.act[y] = w.act[y]
  BY <1>1, <1>2, ActSet
<1> HIDE DEF v
<1>5. /\ v.proc = w.proc /\ v.pend = w.pend /\ \A p \in Proc : Exist(v, p) = Exist(w, p)
      /\ \A y \in Activity : AppOf(v, y) = AppOf(w, y)
  BY <1>2, <1>4 DEF SameButAct, AppOf, Exist
<1>6. Low(v)
  <2>1. ActsOK(v)
    BY <1>1, <1>2, <1>4, <1>5 DEF Low, ActsOK
  <2>2. ASSUME NEW p \in Proc PROVE ProcOK(v, p)
    <3>1. ProcOK(w, p)
      BY <1>1 DEF Low
    <3>2. Exist(w, p) \subseteq Activity /\ \A c \in ToSet(w.proc[p].sent) : c \in Calls
      BY <1>1, HeapParts, ProcParts, ElementsFacts DEF Exist
    <3>3. \A c \in Calls : c[1] \in Steps => c[2] \in Activity
      BY DEF Calls, Steps
    <3>4. \A c \in ToSet(w.proc[p].sent) : c[1] = "CREATE" => c[2] # x
      <4>1. \A c \in Calls : c[1] = "CREATE" => c = <<"CREATE", c[2]>>
        BY DEF Calls
      <4>2. QED
        BY <4>1, <3>2 DEF Answered
    <3>5. \A c \in ToSet(w.proc[p].sent) : c[1] \in Steps => /\ AppOf(v, c[2]) = p
                                                             /\ c[1] = "CREATE"
                                                                           => v.act[c[2]].mStatus > INIT
      BY <3>1, <3>2, <3>3, <3>4, <1>4, <1>5 DEF ProcOK
    <3>6. QED
      BY <3>1, <3>2, <3>5, <1>5 DEF ProcOK
  <2>3. PendOK(v)
    <3>1. \A e \in ToSet(w.pend) : e.of \in Activity /\ (e.other # 0 => e.other \in Activity)
      BY <1>1, PendParts
    <3>2. QED
      BY <3>1, <1>1, <1>5 DEF Low, PendOK
  <2>4. QED
    BY <2>1, <2>2, <2>3, <1>4 DEF Low
<1>7. Loose(w, v, {}) /\ SameTasks(w, v) /\ v.undefined = w.undefined
  BY <1>2, <1>4, <1>5 DEF Loose, SameTasks, SameButAct, Exist
<1>8. Careful(v)
  BY <1>7 DEF Careful, Fine
<1>9. Fine(v, {} \union X)
  BY <1>6, <1>7, <1>8, LooseFine
<1>10. {} \union X = X
  OBVIOUS
<1>11. QED
  BY <1>3, <1>7, <1>9, <1>10

\* onActivityDestroyed() of the one or the other task manager.
LEMMA DeleteFine ==
    ASSUME NEW w, NEW X, Fine(w, X), NEW x \in Activity, AppOf(w, x) # 0
    PROVE  /\ Fine(Delete(w, x), X \ {x})
           /\ Loose(w, Delete(w, x), {})
           /\ Gone(Delete(w, x), x)
<1>1. CASE IsSystemUI(w, x)
  BY <1>1, UiDeleteFine DEF Delete
<1>2. CASE ~IsSystemUI(w, x)
  BY <1>2, DeleteActivityFine DEF Delete
<1>3. QED
  BY <1>1, <1>2

\* The execution of a pending transition keeps the invariant.
LEMMA ExecuteFine ==
    ASSUME NEW w, Fine(w, {}), NEW x \in Activity, AppOf(w, x) # 0, NEW status \in Reports \union {ERROR},
           status = ERROR => Answered(w, x)
    PROVE  Fine(ExecuteTask(w, x, status), {}) /\ Loose(w, ExecuteTask(w, x, status), {})
<1>1. CASE status = ERROR
  <2> DEFINE u == [w EXCEPT !.act[x].mIsError = TRUE, !.act[x].mStatus = @ - 1]
  <2>1. Fine(u, {}) /\ Loose(w, u, {})
    BY <1>1, ErrorFine
  <2>2. ExecuteTask(w, x, status) = Delete(u, x)
    BY <1>1 DEF ExecuteTask
  <2> HIDE DEF u
  <2>3. AppOf(u, x) # 0
    BY <2>1, LooseKeepsApp
  <2>4. Fine(Delete(u, x), {} \ {x}) /\ Loose(u, Delete(u, x), {})
    BY <2>1, <2>3, DeleteFine
  <2>5. {} \ {x} = {} /\ {} \union {} = {}
    OBVIOUS
  <2>6. QED
    BY <2>1, <2>2, <2>4, <2>5, LooseTransitive
<1>2. CASE status # ERROR
  <2> DEFINE u == [w EXCEPT !.act[x].mStatus = status]
             v == LifecycleTransition(u, x, w.act[x].mTargetStatus)
  <2>1. status \in Status /\ status > INIT
    BY <1>2 DEF Reports, Status
  <2>2. Fine(u, {}) /\ Loose(w, u, {})
    BY <2>1, StatusFine
  <2>3. ExecuteTask(w, x, status) = v
    BY <1>2 DEF ExecuteTask
  <2>4. w.act[x].mTargetStatus \in Status
    BY BaseFacts, HeapParts, ActParts DEF Fine
  <2> HIDE DEF u
  <2>5. AppOf(u, x) # 0 /\ Low(u)
    BY <2>2, LooseKeepsApp, BaseFacts DEF Fine
  <2>6. Quiet(u, v)
    BY <2>4, <2>5, TransitionQuiet
  <2> HIDE DEF v
  <2>7. Fine(v, {}) /\ Loose(u, v, {})
    BY <2>2, <2>6, QuietFine
  <2>8. {} \union {} = {}
    OBVIOUS
  <2>9. QED
    BY <2>2, <2>3, <2>7, <2>8, LooseTransitive
<1>3. QED
  BY <1>1, <1>2

\* A report that a transition waits for keeps the invariant.
LEMMA TriggerReportFine ==
    ASSUME NEW w, Fine(w, {}), NEW x \in Activity, AppOf(w, x) # 0, NEW status \in Reports \union {ERROR},
           status = ERROR => Answered(w, x)
    PROVE  Fine(TriggerReport(w, x, status), {}) /\ Loose(w, TriggerReport(w, x, status), {})
<1> DEFINE i == Waiting(w, "LIFECYCLE", x)
           u == Taken(w, i)
<1>1. Low(w) /\ w \in HeapType
  BY BaseFacts DEF Fine
<1>2. CASE i = 0
  BY <1>1, <1>2, QuietFine, QuietReflexive DEF TriggerReport
<1>3. CASE i # 0
  <2>1. i \in 1..Len(w.pend)
    BY <1>1, <1>3, WaitingFacts
  <2>2. TriggerReport(w, x, status) = ExecuteTask(u, x, status)
    BY <1>3 DEF TriggerReport
  <2> HIDE DEF i
  <2>3. Quiet(w, u) /\ u.act = w.act /\ u.proc = w.proc
    BY <1>1, <2>1, TakenQuiet
  <2> HIDE DEF u
  <2>4. Fine(u, {}) /\ Loose(w, u, {})
    BY <2>3, QuietFine
  <2>5. AppOf(u, x) # 0 /\ (status = ERROR => Answered(u, x))
    BY <2>3 DEF AppOf, Answered
  <2>6. Fine(ExecuteTask(u, x, status), {}) /\ Loose(u, ExecuteTask(u, x, status), {})
    BY <2>4, <2>5, ExecuteFine
  <2>7. {} \union {} = {}
    OBVIOUS
  <2>8. QED
    BY <2>2, <2>4, <2>6, <2>7, LooseTransitive
<1>4. QED
  BY <1>2, <1>3

\* The report of an activity's end.
LEMMA ReportDestroyedFine ==
    ASSUME NEW w, Fine(w, {}), NEW x \in Activity, AppOf(w, x) # 0
    PROVE  Fine(ReportDestroyed(w, x), {}) /\ AppOf(ReportDestroyed(w, x), x) # 0
<1> DEFINE p == w.act[x].mApp
           dead == [w EXCEPT !.act[x].mStatus = DESTROYED]
           u == IF IsSystemUI(w, x) THEN dead ELSE Unwatched(dead, x)
           d == Delete(u, x)
           f == Forget(d, x)
           s == IF f.proc[p].mExistActivity = <<>> THEN StopApplication(f, p) ELSE f
           e == IF Freed(w, x) THEN dead ELSE s
<1>1. p \in Proc /\ DESTROYED \in Status /\ DESTROYED > INIT /\ p = AppOf(w, x) /\ p # 0
  BY AppFacts, BaseFacts DEF Fine, AppOf, Status
<1>2. ReportDestroyed(w, x) = [e EXCEPT !.act[x].mapped = FALSE]
  BY DEF ReportDestroyed
<1> HIDE DEF p
<1>3. Fine(dead, {}) /\ Loose(w, dead, {})
  BY <1>1, StatusFine
<1> HIDE DEF dead
<1>4. Fine(u, {}) /\ AppOf(u, x) = p /\ AppOf(dead, x) = p
  <2>1. Low(dead) /\ AppOf(dead, x) = p
    BY <1>1, <1>3, BaseFacts, LooseKeepsApp DEF Fine
  <2>2. CASE IsSystemUI(w, x)
    BY <2>1, <2>2, <1>3
  <2>3. CASE ~IsSystemUI(w, x)
    <3>1. Quiet(dead, Unwatched(dead, x))
      BY <2>1, UnwatchedQuiet
    <3>2. Fine(Unwatched(dead, x), {}) /\ Loose(dead, Unwatched(dead, x), {})
      BY <3>1, <1>3, QuietFine
    <3>3. QED
      BY <3>2, <2>1, <2>3, LooseKeepsApp
  <2>4. QED
    BY <2>2, <2>3
<1> HIDE DEF u
<1>5. Fine(d, {}) /\ AppOf(d, x) = p /\ Gone(d, x)
  <2>1. Fine(d, {} \ {x}) /\ Loose(u, d, {}) /\ Gone(d, x)
    BY <1>1, <1>4, DeleteFine
  <2>2. {} \ {x} = {}
    OBVIOUS
  <2>3. QED
    BY <2>1, <2>2, <1>4, LooseKeepsApp
<1> HIDE DEF d
<1>6. Fine(f, {}) /\ AppOf(f, x) = p
  <2>1. Low(f) /\ Loose(d, f, {x}) /\ SameTasks(d, f) /\ f.undefined = d.undefined
    BY <1>1, <1>5, BaseFacts, ForgetLoose DEF Fine
  <2>2. Careful(f)
    BY <2>1, <1>5 DEF Careful, Fine
  <2>3. Fine(f, {x} \union {})
    BY <2>1, <2>2, <1>5, LooseFine
  <2>4. Gone(f, x)
    <3>1. TaskOf(f, x) = TaskOf(d, x)
      BY <2>1 DEF TaskOf, Loose, SameTasks
    <3>2. f.stack = d.stack
      BY <2>1 DEF SameTasks
    <3>3. QED
      BY <3>1, <3>2, <1>5 DEF Gone, On
  <2>5. Fine(f, ({x} \union {}) \ {x})
    BY <2>3, <2>4, GoneFine DEF Gone
  <2>6. ({x} \union {}) \ {x} = {}
    OBVIOUS
  <2>7. QED
    BY <2>1, <2>5, <2>6, <1>5, LooseKeepsApp
<1> HIDE DEF f
<1>7. Fine(s, {}) /\ AppOf(s, x) = p
  <2>1. Quiet(f, s)
    <3>1. Low(f)
      BY <1>6, BaseFacts DEF Fine
    <3>2. Quiet(f, StopApplication(f, p))
      BY <3>1, <1>1, StopApplicationQuiet
    <3>3. Quiet(f, f)
      BY <3>1, QuietReflexive
    <3>4. QED
      BY <3>2, <3>3
  <2> HIDE DEF s
  <2>2. Fine(s, {}) /\ Loose(f, s, {})
    BY <2>1, <1>6, QuietFine
  <2>3. QED
    BY <2>2, <1>6, LooseKeepsApp
<1> HIDE DEF s
<1>8. Fine(e, {}) /\ AppOf(e, x) # 0
  BY <1>1, <1>3, <1>4, <1>7
<1> HIDE DEF e
<1>9. Fine([e EXCEPT !.act[x].mapped = FALSE], {})
              /\ Loose(e, [e EXCEPT !.act[x].mapped = FALSE], {})
  BY <1>8, UnmappedFine
<1>10. AppOf([e EXCEPT !.act[x].mapped = FALSE], x) # 0
  BY <1>8, <1>9, LooseKeepsApp
<1>11. QED
  BY <1>2, <1>9, <1>10

\* reportActivityStatus()
LEMMA ReportFine ==
    ASSUME NEW w, Fine(w, {}), NEW x \in Activity, AppOf(w, x) # 0, NEW status \in Reports \union {ERROR},
           status = ERROR => Answered(w, x)
    PROVE  LET v == ReportActivityStatus(w, x, status) IN Fine(v, {}) /\ AppOf(v, x) # 0
<1> DEFINE r == TriggerReport(w, x, status)
           a == TriggerWaitResume(r, x)
           d == TriggerDelayDestroy(a, x)
           v == ReportActivityStatus(w, x, status)
<1>1. Fine(r, {}) /\ AppOf(r, x) # 0 /\ Low(r)
  <2>1. Fine(r, {}) /\ Loose(w, r, {})
    BY TriggerReportFine
  <2>2. QED
    BY <2>1, BaseFacts, LooseKeepsApp DEF Fine
<1>2. v \in {w, r, d, ReportDestroyed(r, x)}
  BY DEF ReportActivityStatus
<1> HIDE DEF r, v
<1>3. Fine(d, {}) /\ AppOf(d, x) # 0
  <2>1. Quiet(r, a)
    BY <1>1, TriggerWaitResumeQuiet
  <2> HIDE DEF a
  <2>2. Quiet(a, d)
    BY <2>1, TriggerDelayDestroyQuiet DEF Quiet, Calm
  <2> HIDE DEF d
  <2>3. Quiet(r, d)
    BY <1>1, <2>1, <2>2, QuietTransitive
  <2>4. Fine(d, {}) /\ Loose(r, d, {})
    BY <1>1, <2>3, QuietFine
  <2>5. QED
    BY <2>4, <1>1, LooseKeepsApp
<1> HIDE DEF d
<1>4. Fine(ReportDestroyed(r, x), {}) /\ AppOf(ReportDestroyed(r, x), x) # 0
  BY <1>1, ReportDestroyedFine
<1>5. QED
  BY <1>1, <1>2, <1>3, <1>4 DEF v

\* A callback and its report keep the invariant.
LEMMA PerformFine ==
    ASSUME NEW w, Fine(w, {}), NEW x \in Activity, AppOf(w, x) # 0, NEW status \in Reports
    PROVE  Fine(Perform(w, x, status), {}) /\ AppOf(Perform(w, x, status), x) # 0
<1> DEFINE u == [w EXCEPT !.act[x].client = status]
<1>1. Fine(u, {}) /\ Loose(w, u, {})
  BY ClientFine
<1>2. Perform(w, x, status) = ReportActivityStatus(u, x, status)
  BY DEF Perform
<1> HIDE DEF u
<1>3. AppOf(u, x) # 0 /\ status \in Reports \union {ERROR} /\ status # ERROR
  BY <1>1, LooseKeepsApp DEF Reports
<1>4. QED
  BY <1>1, <1>2, <1>3, ReportFine

\* ... and several.
LEMMA PerformsFine ==
    ASSUME NEW w, Fine(w, {}), NEW x \in Activity, AppOf(w, x) # 0, NEW s \in Seq(Reports)
    PROVE  Fine(Performs(w, s, x), {})
<1> DEFINE V == {v \in HeapType : Fine(v, {}) /\ AppOf(v, x) # 0}
           T == [k \in 0..Len(s) |-> V]
<1>1. Len(s) \in Nat /\ ToSet(s) \subseteq Reports /\ \A k \in 1..Len(s) : s[k] \in ToSet(s)
  BY ElementsFacts
<1>2. \A v : Fine(v, {}) => v \in HeapType
  BY DEF Fine, Base, Low
<1>3. w \in V
  BY <1>2
<1>4. ASSUME NEW v \in V, NEW status \in ToSet(s) PROVE Perform(v, x, status) \in V
  BY <1>1, <1>2, PerformFine
<1> HIDE DEF V
<1>5. w \in T[0] /\ T[Len(s)] = V /\ \A k \in 1..Len(s) : T[k] = V
  BY <1>1, <1>3
<1> HIDE DEF T
<1>6. Performs(w, s, x) \in V \intersect T[Len(s)]
  BY <1>1, <1>3, <1>4, <1>5, PerformLoop
<1>7. QED
  BY <1>6 DEF V

\* timeout()
LEMMA TimeoutFine ==
    ASSUME NEW w, Fine(w, {}), NEW e \in PendType, AppOf(w, e.of) # 0,
           e.kind # "LIFECYCLE" => e.other # 0 /\ AppOf(w, e.other) # 0
    PROVE  Fine(Timeout(w, e), {})
<1>1. /\ Low(w) /\ e.of \in Activity /\ e.kind \in {"LIFECYCLE", "WAIT_RESUME", "DELAY_DESTROY"}
      /\ e.other # 0 => e.other \in Activity
  BY BaseFacts, BoundsAssumption DEF Fine, PendType, Activity
<1>2. CASE e.kind = "LIFECYCLE"
  <2> DEFINE x == e.of
             u == AbnormalExit(w, x)
  <2>1. CASE w.act[x].mStatus = w.act[x].mTargetStatus
    <3>1. Timeout(w, e) = w
      BY <2>1, <1>2 DEF Timeout
    <3>2. QED
      BY <3>1
  <2>2. CASE w.act[x].mStatus # w.act[x].mTargetStatus
    <3>1. Timeout(w, e) = Delete(u, x)
      BY <2>2, <1>2 DEF Timeout
    <3>2. Low(u) /\ Loose(w, u, {x}) /\ SameTasks(w, u) /\ u.undefined = w.undefined
      BY <1>1, AbnormalExitLoose
    <3> HIDE DEF u
    <3>3. Careful(u)
      BY <3>2 DEF Careful, Fine
    <3>4. Fine(u, {x} \union {})
      BY <3>2, <3>3, LooseFine
    <3>5. AppOf(u, x) # 0
      BY <1>1, <3>2, LooseKeepsApp
    <3>6. Fine(Delete(u, x), ({x} \union {}) \ {x})
      BY <1>1, <3>4, <3>5, DeleteFine
    <3>7. ({x} \union {}) \ {x} = {}
      OBVIOUS
    <3>8. QED
      BY <3>1, <3>6, <3>7
  <2>3. QED
    BY <2>1, <2>2
<1>3. CASE e.kind # "LIFECYCLE"
  <2>1. e.other \in Activity /\ AppOf(w, e.other) # 0 /\ {RESUMED, DESTROYED} \subseteq Status
    BY <1>1, <1>3 DEF Status
  <2>2. \A s \in Status : Fine(LifecycleTransition(w, e.other, s), {})
    BY <1>1, <2>1, TransitionQuiet, QuietFine
  <2>3. \/ e.kind = "WAIT_RESUME" /\ Timeout(w, e) = LifecycleTransition(w, e.other, RESUMED)
        \/ e.kind = "DELAY_DESTROY" /\ Timeout(w, e) = LifecycleTransition(w, e.other, DESTROYED)
    <3>1. CASE e.kind = "WAIT_RESUME"
      BY <3>1 DEF Timeout
    <3>2. CASE e.kind = "DELAY_DESTROY"
      BY <3>2 DEF Timeout
    <3>3. QED
      BY <3>1, <3>2, <1>1, <1>3
  <2>4. QED
    BY <2>1, <2>2, <2>3
<1>4. QED
  BY <1>2, <1>3

\* procAppTerminated(): the process is gone with all its activities.
LEMMA EndedFine ==
    ASSUME NEW w, Fine(w, {}), NEW p \in Proc, w.proc[p].mStatus \in {"RUNNING", "STOPPING"}
    PROVE  LET v == [w EXCEPT !.proc[p].mStatus = "STOPPED", !.proc[p].mExistActivity = <<>>,
                              !.proc[p].sent = <<>>, !.proc[p].terminating = FALSE]
           IN /\ Fine(v, Exist(w, p)) /\ v.proc[p].mStatus = "STOPPED"
              /\ \A x \in Activity : AppOf(v, x) = AppOf(w, x)
<1> DEFINE y == [w.proc[p] EXCEPT !.mStatus = "STOPPED", !.mExistActivity = <<>>,
                                  !.sent = <<>>, !.terminating = FALSE]
           v == [w EXCEPT !.proc[p] = y]
<1>1. Low(w) /\ w \in HeapType /\ w.proc[p] \in ProcType
  BY BaseFacts, HeapParts DEF Fine
<1>2. y \in ProcType /\ y.mStatus = "STOPPED" /\ y.mExistActivity = <<>> /\ y.sent = <<>>
  <2>1. <<>> \in Seq(Activity) /\ <<>> \in Seq(Calls)
    OBVIOUS
  <2>2. QED
    BY <2>1, <1>1 DEF ProcType
<1>3. [w EXCEPT !.proc[p].mStatus = "STOPPED", !.proc[p].mExistActivity = <<>>,
                !.proc[p].sent = <<>>, !.proc[p].terminating = FALSE] = v
  BY <1>1, HeapParts
<1> HIDE DEF y
<1>4. /\ v \in HeapType /\ SameButProc(w, v) /\ v.proc[p] = y
      /\ \A q \in Proc : q # p => v.proc[q] = w.proc[q]
  BY <1>1, <1>2, ProcSet
<1> HIDE DEF v
<1>5. ProcOK(v, p)
  <2>1. ToSet(<<>>) = {} /\ CreatesOnce(<<>>)
    BY DEF ToSet, CreatesOnce
  <2>2. QED
    BY <2>1, <1>2, <1>4 DEF ProcOK, Exist
<1>6. Low(v)
  BY <1>1, <1>2, <1>4, <1>5, ProcChange
<1>7. /\ Loose(w, v, Exist(w, p)) /\ SameTasks(w, v) /\ v.undefined = w.undefined
  BY <1>2, <1>4 DEF Loose, SameTasks, SameButProc, Exist
<1>8. Careful(v)
  BY <1>7 DEF Careful, Fine
<1>9. Fine(v, Exist(w, p) \union {})
  BY <1>6, <1>7, <1>8, LooseFine
<1>10. Exist(w, p) \union {} = Exist(w, p)
  OBVIOUS
<1>11. QED
  BY <1>2, <1>3, <1>4, <1>7, <1>9, <1>10, LooseKeepsApp

\* Marking the activities of a process that has ended.
LEMMA MarkedFine ==
    ASSUME NEW w, NEW X, Fine(w, X), NEW p \in Proc, w.proc[p].mStatus = "STOPPED",
           NEW s \in Seq(Activity), \A x \in ToSet(s) : AppOf(w, x) = p
    PROVE  LET v == FoldLeft(AbnormalExit, w, s)
           IN Fine(v, X) /\ \A x \in Activity : AppOf(v, x) = AppOf(w, x)
<1> DEFINE V == {v \in HeapType : Quiet(w, v)}
           T == [k \in 0..Len(s) |-> V]
<1>1. Low(w) /\ w \in HeapType
  BY BaseFacts DEF Fine
<1>2. Len(s) \in Nat /\ ToSet(s) \subseteq Activity /\ \A k \in 1..Len(s) : s[k] \in ToSet(s)
  BY ElementsFacts
<1>3. w \in V
  BY <1>1, QuietReflexive
<1>4. ASSUME NEW v \in V, NEW x \in ToSet(s) PROVE AbnormalExit(v, x) \in V
  <2>1. Quiet(w, v) /\ Low(v) /\ AppOf(v, x) = p /\ p # 0 /\ x \in Activity
    BY <1>2, QuietKeepsApp, BoundsAssumption DEF Quiet, Proc
  <2>2. Freed(v, x)
    BY <2>1 DEF Quiet, Calm, Steady, Freed, AppOf
  <2>3. Quiet(v, AbnormalExit(v, x))
    BY <2>1, <2>2, AbnormalExitLoose
  <2>4. Quiet(w, AbnormalExit(v, x))
    BY <1>1, <2>1, <2>3, QuietTransitive
  <2>5. QED
    BY <2>4 DEF Quiet, Calm, Low
<1> HIDE DEF V
<1>5. w \in T[0] /\ T[Len(s)] = V /\ \A k \in 1..Len(s) : T[k] = V
  BY <1>2, <1>3
<1> HIDE DEF T
<1>6. FoldLeft(AbnormalExit, w, s) \in V \intersect T[Len(s)]
  BY <1>2, <1>3, <1>4, <1>5, ExitLoop
<1>7. Quiet(w, FoldLeft(AbnormalExit, w, s))
  BY <1>6 DEF V
<1>8. QED
  BY <1>7, QuietFine, QuietKeepsApp DEF Quiet

\* Each of the activities leaves its task.
LEMMA ErasedFine ==
    ASSUME NEW w, NEW s \in Seq(Activity), Fine(w, ToSet(s)), \A x \in ToSet(s) : AppOf(w, x) # 0
    PROVE  Fine(FoldLeft(Erased, w, s), {})
<1> DEFINE rest(k) == {s[j] : j \in (k + 1)..Len(s)}
           V == {v \in HeapType : Fine(v, ToSet(s)) /\ \A x \in ToSet(s) : AppOf(v, x) # 0}
           T == [k \in 0..Len(s) |-> {v \in V : Fine(v, rest(k))}]
<1>1. /\ Len(s) \in Nat /\ ToSet(s) \subseteq Activity /\ \A k \in 1..Len(s) : s[k] \in ToSet(s)
      /\ DOMAIN s = 1..Len(s)
  BY ElementsFacts
<1>2. /\ rest(0) = ToSet(s) /\ rest(Len(s)) = {}
      /\ \A k \in 1..Len(s) : rest(k - 1) \ {s[k]} \subseteq rest(k)
  <2>1. rest(0) = ToSet(s)
    <3>1. (0 + 1)..Len(s) = 1..Len(s)
      BY <1>1
    <3>2. QED
      BY <3>1, <1>1 DEF ToSet
  <2>2. rest(Len(s)) = {}
    BY <1>1
  <2>3. \A k \in 1..Len(s) : \A j \in ((k - 1) + 1)..Len(s) : j = k \/ j \in (k + 1)..Len(s)
    BY <1>1
  <2>4. \A k \in 1..Len(s) : rest(k - 1) \ {s[k]} \subseteq rest(k)
    BY <2>3
  <2>5. QED
    BY <2>1, <2>2, <2>4
<1> HIDE DEF rest
<1>3. w \in V
  BY DEF Fine, Base, Low
<1>4. ASSUME NEW v \in V, NEW x \in ToSet(s), NEW X, Fine(v, X)
      PROVE  Fine(Erased(v, x), X \ {x}) /\ \A y \in ToSet(s) : AppOf(Erased(v, x), y) # 0
  <2> DEFINE d == Delete(v, x)
             Y == X \ {x}
  <2>1. x \in Activity /\ AppOf(v, x) # 0
    BY <1>1
  <2>2. Fine(d, Y) /\ Loose(v, d, {})
    BY <1>4, <2>1, DeleteFine
  <2>3. Erased(v, x) = [d EXCEPT !.act[x].mapped = FALSE]
    BY DEF Erased
  <2> HIDE DEF d, Y, V, T
  <2>4. AppOf(d, x) # 0
    BY <2>1, <2>2, LooseKeepsApp
  <2>5. Fine(Erased(v, x), Y) /\ Loose(d, Erased(v, x), {})
    <3>1. Fine([d EXCEPT !.act[x].mapped = FALSE], Y)
                  /\ Loose(d, [d EXCEPT !.act[x].mapped = FALSE], {})
      BY <2>1, <2>2, <2>4, UnmappedFine
    <3>2. QED
      BY <3>1, <2>3
  <2>6. \A y \in Activity : AppOf(Erased(v, x), y) = AppOf(v, y)
    BY <2>2, <2>5, LooseKeepsApp
  <2>7. QED
    BY <1>1, <2>5, <2>6 DEF V, Y
<1>5. ASSUME NEW v \in V, NEW x \in ToSet(s) PROVE Erased(v, x) \in V
  <2>1. Fine(Erased(v, x), ToSet(s) \ {x}) /\ \A y \in ToSet(s) : AppOf(Erased(v, x), y) # 0
    BY <1>4
  <2>2. Fine(Erased(v, x), ToSet(s))
    BY <2>1, FineMore
  <2>3. QED
    BY <2>1, <2>2 DEF Fine, Base, Low
<1>6. ASSUME NEW k \in 1..Len(s), NEW v \in V, v \in T[k - 1] PROVE Erased(v, s[k]) \in T[k]
  <2>1. k \in 0..Len(s) /\ k - 1 \in 0..Len(s) /\ s[k] \in ToSet(s)
    BY <1>1
  <2>2. Fine(v, rest(k - 1))
    BY <2>1, <1>6
  <2>3. Fine(Erased(v, s[k]), rest(k - 1) \ {s[k]})
    BY <2>1, <2>2, <1>4
  <2>4. Fine(Erased(v, s[k]), rest(k))
    BY <2>3, <1>2, FineMore
  <2>5. QED
    BY <2>1, <2>4, <1>5
<1>7. w \in T[0] /\ T[Len(s)] = {v \in V : Fine(v, {})}
  <2>1. 0 \in 0..Len(s) /\ Len(s) \in 0..Len(s)
    BY <1>1
  <2>2. QED
    BY <2>1, <1>2, <1>3
<1> HIDE DEF T, V
<1>8. FoldLeft(Erased, w, s) \in V \intersect T[Len(s)]
  BY <1>3, <1>5, <1>6, <1>7, EraseLoop
<1>9. QED
  BY <1>7, <1>8

\* The end of a process keeps the invariant.
LEMMA TerminatedFine ==
    ASSUME NEW w, Fine(w, {}), NEW p \in Proc, w.proc[p].mStatus \in {"RUNNING", "STOPPING"}
    PROVE  Fine(ProcAppTerminated(w, p), {})
<1> DEFINE s == w.proc[p].mExistActivity
           stopped == [w EXCEPT !.proc[p].mStatus = "STOPPED", !.proc[p].mExistActivity = <<>>,
                                !.proc[p].sent = <<>>, !.proc[p].terminating = FALSE]
           marked == FoldLeft(AbnormalExit, stopped, s)
<1>1. /\ Low(w) /\ s \in Seq(Activity) /\ ToSet(s) \subseteq Activity
      /\ (\A x \in ToSet(s) : AppOf(w, x) = p) /\ p # 0
  <2>1. Low(w) /\ w.proc[p] \in ProcType /\ ProcOK(w, p)
    BY BaseFacts, HeapParts DEF Fine, Low
  <2>2. QED
    BY <2>1, ProcParts, ElementsFacts, BoundsAssumption DEF ProcOK, Exist, Proc
<1>2. ProcAppTerminated(w, p) = FoldLeft(Erased, marked, s)
  BY DEF ProcAppTerminated, Erased
<1>3. /\ Fine(stopped, ToSet(s)) /\ stopped.proc[p].mStatus = "STOPPED"
      /\ \A x \in Activity : AppOf(stopped, x) = AppOf(w, x)
  BY EndedFine DEF Exist
<1> HIDE DEF stopped, s
<1>4. Fine(marked, ToSet(s)) /\ \A x \in Activity : AppOf(marked, x) = AppOf(stopped, x)
  BY <1>1, <1>3, MarkedFine
<1> HIDE DEF marked
<1>5. Fine(FoldLeft(Erased, marked, s), {})
  BY <1>1, <1>3, <1>4, ErasedFine
<1>6. QED
  BY <1>2, <1>5

-----------------------------------------------------------------------------
(* A new activity keeps the invariant.                                      *)

\* The next activity has been asked for nothing, and nobody knows it.
LEMMA UnmadeFacts ==
    ASSUME NEW w, Base(w), NEW x \in Activity, x = w.activities + 1
    PROVE  /\ AppOf(w, x) = 0 /\ x \notin Made(w)
           /\ \A p \in Proc : /\ x \notin Exist(w, p)
                              /\ \A c \in ToSet(w.proc[p].sent) : c[1] \in Steps => c[2] # x
           /\ \A e \in ToSet(w.pend) : /\ e.of # x
                                       /\ e.kind # "LIFECYCLE" => e.other # x
           /\ \A t \in Task : x \notin On(w, t)
           /\ \A l \in ToSet(w.launch) : l.activity # x
<1>1. w.activities \in Nat /\ Low(w) /\ Made(w) = 1..w.activities
  BY BaseFacts DEF Made
<1>2. ~(x <= w.activities)
  BY <1>1
<1>3. AppOf(w, x) = 0 /\ x \notin Made(w)
  BY <1>1, <1>2 DEF Base, Numbered
<1>4. ASSUME NEW p \in Proc
      PROVE  /\ x \notin Exist(w, p)
             /\ \A c \in ToSet(w.proc[p].sent) : c[1] \in Steps => c[2] # x
  <2>1. ProcOK(w, p) /\ p # 0
    BY <1>1, BoundsAssumption DEF Low, Proc
  <2>2. QED
    BY <2>1, <1>3 DEF ProcOK
<1>5. \A e \in ToSet(w.pend) : e.of # x /\ (e.kind # "LIFECYCLE" => e.other # x)
  BY <1>1, <1>3 DEF Low, PendOK
<1>6. \A t \in Task : x \notin On(w, t)
  BY <1>3, BaseFacts
<1>7. \A l \in ToSet(w.launch) : l.activity # x
  BY <1>2 DEF Base, Launches
<1>8. QED
  BY <1>3, <1>4, <1>5, <1>6, <1>7

\* A new activity leaves those of the past alone.
LEMMA GrownLow ==
    ASSUME NEW w, Base(w), NEW v, NEW t, NEW x, Grows(w, v, t, x)
    PROVE  /\ Low(v)
           /\ \A y \in Activity : y # x => AppOf(v, y) = AppOf(w, y)
           /\ \A y \in Activity : AppOf(w, y) # 0 =>
                  /\ y # x /\ AppOf(w, y) \in Proc /\ AppOf(w, y) <= w.procs
                  /\ v.proc[AppOf(w, y)] = w.proc[AppOf(w, y)]
<1>1. Low(w) /\ w \in HeapType /\ v \in HeapType /\ x \in Activity /\ x = w.activities + 1
  BY BaseFacts DEF Grows
<1>2. \A y \in Activity : y # x => v.act[y] = w.act[y] /\ AppOf(v, y) = AppOf(w, y)
  BY DEF Grows, AppOf
<1>3. ASSUME NEW y \in Activity, AppOf(w, y) # 0
      PROVE  /\ y # x /\ AppOf(w, y) \in Proc /\ AppOf(w, y) <= w.procs
             /\ v.proc[AppOf(w, y)] = w.proc[AppOf(w, y)]
  <2>1. y # x /\ AppOf(w, y) \in Proc
    BY <1>1, <1>3, UnmadeFacts, AppFacts
  <2>2. w.proc[AppOf(w, y)].mStatus # "NONE"
    BY <1>1, <1>3, AppFacts
  <2>3. AppOf(w, y) \in Int /\ w.procs \in Int
    BY <2>1, <1>1, HeapParts DEF Proc
  <2>4. AppOf(w, y) <= w.procs
    BY <2>1, <2>2, <2>3 DEF Base, Numbered
  <2>5. QED
    BY <2>1, <2>3, <2>4 DEF Grows
<1>4. ActsOK(v)
  <2> SUFFICES ASSUME NEW y \in Activity
               PROVE  /\ v.act[y].mStatus >= INIT
                      /\ AppOf(v, y) = 0 => v.act[y].mStatus = INIT
                      /\ AppOf(v, y) # 0
                                    => v.proc[AppOf(v, y)].mStatus \in {"RUNNING", "STOPPING", "STOPPED"}
    BY DEF ActsOK
  <2>1. CASE y = x
    BY <2>1 DEF Grows
  <2>2. CASE y # x
    BY <2>2, <1>1, <1>2, <1>3 DEF Low, ActsOK
  <2>3. QED
    BY <2>1, <2>2
<1>5. ASSUME NEW p \in Proc PROVE ProcOK(v, p)
  <2>2. CASE v.proc[p] = w.proc[p]
    <3>1. v.proc[p] = w.proc[p] /\ ProcOK(w, p)
      BY <2>2, <1>1 DEF Grows, Low
    <3>2. \A y \in Exist(w, p) : y \in Activity /\ y # x
      BY <1>1, UnmadeFacts, HeapParts, ProcParts, ElementsFacts DEF Exist
    <3>3. \A c \in ToSet(w.proc[p].sent) : c[1] \in Steps => c[2] \in Activity /\ c[2] # x
      <4>1. \A c \in ToSet(w.proc[p].sent) : c \in Calls
        BY <1>1, HeapParts, ProcParts, ElementsFacts
      <4>2. \A c \in Calls : c[1] \in Steps => c[2] \in Activity
        BY DEF Calls, Steps
      <4>3. QED
        BY <4>1, <4>2, <1>1, UnmadeFacts
    <3>4. "CREATE" \in Steps
      BY DEF Steps
    <3>5. QED
      BY <3>1, <3>2, <3>3, <3>4, <1>2 DEF ProcOK, Exist
  <2>3. CASE v.proc[p] # w.proc[p]
    <3>1. v.proc[p].mExistActivity = <<>> /\ v.proc[p].sent = <<>>
      BY <2>3 DEF Grows
    <3>2. ToSet(<<>>) = {} /\ CreatesOnce(<<>>)
      BY DEF ToSet, CreatesOnce
    <3>3. QED
      BY <3>1, <3>2 DEF ProcOK, Exist
  <2>4. QED
    BY <2>2, <2>3
<1>6. PendOK(v)
  <2>1. v.pend = w.pend
    BY DEF Grows
  <2>2. \A e \in ToSet(w.pend) : e.of \in Activity /\ (e.other # 0 => e.other \in Activity)
    BY <1>1, PendParts
  <2>3. QED
    BY <2>1, <2>2, <1>1, <1>2, UnmadeFacts DEF Low, PendOK
<1>7. QED
  BY <1>1, <1>2, <1>3, <1>4, <1>5, <1>6 DEF Low

\* A new activity keeps the invariant, and may be pushed if it has a process.
LEMMA GrownFine ==
    ASSUME NEW w, Fine(w, {}), NEW v, NEW t, NEW x, Grows(w, v, t, x)
    PROVE  Fine(v, {}) /\ (AppOf(v, x) # 0 => Pushable(v, t, x))
<1>1. /\ Base(w) /\ Low(w) /\ w \in HeapType /\ CountedBut(w, {}) /\ v \in HeapType
      /\ x \in Activity /\ x = w.activities + 1 /\ v.activities = x
      /\ w.activities \in Nat /\ w.tasks \in Nat
  BY BaseFacts DEF Fine, Grows
<1>2. /\ Low(v)
      /\ \A y \in Activity : y # x => AppOf(v, y) = AppOf(w, y) /\ v.act[y] = w.act[y]
      /\ \A y \in Activity : AppOf(w, y) # 0 =>
                  /\ y # x /\ AppOf(w, y) \in Proc /\ AppOf(w, y) <= w.procs
                  /\ v.proc[AppOf(w, y)] = w.proc[AppOf(w, y)]
  BY <1>1, GrownLow DEF Grows
<1>3. /\ v.stack = w.stack /\ v.mAllTasks = w.mAllTasks /\ v.mHomeTask = w.mHomeTask
      /\ v.mSystemUITasks = w.mSystemUITasks /\ v.undefined = w.undefined
      /\ Listed(v) = Listed(w) /\ UiListed(v) = UiListed(w) /\ \A r : On(v, r) = On(w, r)
  BY DEF Grows, SameTasks, Listed, UiListed, On
<1>4. /\ Made(v) = Made(w) \union {x} /\ Made(w) \subseteq Activity /\ x \notin Made(w)
      /\ \A y \in Made(w) : v.act[y] = w.act[y] /\ IsSystemUI(v, y) = IsSystemUI(w, y)
  <2>1. Made(v) = Made(w) \union {x}
    BY <1>1 DEF Made
  <2>2. Made(w) \subseteq Activity /\ x \notin Made(w)
    BY <1>1, BaseFacts, UnmadeFacts
  <2>3. QED
    BY <2>1, <2>2, <1>2 DEF IsSystemUI
<1>5. v.tasks \in Nat /\ v.tasks >= w.tasks /\ t \in 1..v.tasks /\ t \in Task
  <2>1. v.tasks \in 0..MaxTasks /\ MaxTasks \in Nat
    BY <1>1, HeapParts, BoundsAssumption
  <2>2. v.tasks \in {w.tasks, w.tasks + 1} /\ t \in 1..v.tasks
    BY DEF Grows
  <2>3. QED
    BY <2>1, <2>2, <1>1 DEF Task
<1>6. Numbered(v)
  <2>1. \A y \in Activity : AppOf(v, y) # 0 => y <= v.activities
    <3>1. \A y \in Activity : y # x /\ AppOf(w, y) # 0 => y <= w.activities /\ y \in Nat
      BY <1>1 DEF Base, Numbered, Activity
    <3>2. QED
      BY <3>1, <1>1, <1>2
  <2>2. \A y \in Made(v) : v.act[y].name \in Name /\ v.act[y].mInTask \in 1..v.tasks
    <3>1. \A y \in Made(w) : w.act[y].name \in Name /\ w.act[y].mInTask \in 1..w.tasks
      BY <1>1 DEF Base, Numbered
    <3>2. 1..w.tasks \subseteq 1..v.tasks
      BY <1>1, <1>5
    <3>3. QED
      BY <3>1, <3>2, <1>4 DEF Grows
  <2>3. Listed(v) \union UiListed(v) \subseteq 1..v.tasks /\ v.mHomeTask <= v.tasks
    <3>1. Listed(w) \union UiListed(w) \subseteq 1..w.tasks /\ w.mHomeTask <= w.tasks
      BY <1>1 DEF Base, Numbered
    <3>2. w.mHomeTask \in Int
      BY <1>1, HeapParts
    <3>3. QED
      BY <3>1, <3>2, <1>1, <1>3, <1>5
  <2>4. (\A p \in Proc : p > v.procs => v.proc[p].mStatus = "NONE") /\ v.procs # 0
    BY DEF Grows
  <2>5. QED
    BY <2>1, <2>2, <2>3, <2>4 DEF Numbered
<1>7. Placed(v)
  <2>1. IsInjective(v.mAllTasks)
    BY <1>1, <1>3, BaseFacts
  <2>2. ASSUME NEW r \in Task
        PROVE  IsInjective(v.stack[r]) /\ \A y \in On(v, r) : AppOf(v, y) # 0
                      /\ v.act[y].mInTask = r
    <3>1. \A y \in On(w, r) : AppOf(w, y) # 0 /\ w.act[y].mInTask = r /\ y \in Activity
      BY <1>1, BaseFacts
    <3>2. QED
      BY <3>1, <1>1, <1>2, <1>3, BaseFacts
  <2>3. QED
    BY <2>1, <2>2 DEF Placed
<1>8. Launches(v)
  <2>1. w.launch \in Seq(LaunchType) /\ \A l \in ToSet(w.launch) : l \in LaunchType
    BY <1>1, HeapParts, ElementsFacts
  <2>2. ASSUME NEW l \in ToSet(w.launch)
        PROVE  /\ l.activity \in Activity /\ l.activity # x /\ l.activity <= v.activities
               /\ AppOf(v, l.activity) = 0 /\ v.act[l.activity].mInTask = l.task
    <3>1. l.activity \in Activity /\ l.activity \in Nat
      BY <2>1 DEF LaunchType, Activity
    <3>2. /\ l.activity <= w.activities /\ AppOf(w, l.activity) = 0
          /\ w.act[l.activity].mInTask = l.task
      BY <1>1 DEF Base, Launches
    <3>3. QED
      BY <3>1, <3>2, <1>1, <1>2
  <2>3. CASE v.launch = w.launch
    BY <2>2, <2>3, <1>1 DEF Base, Launches
  <2>4. CASE AppOf(v, x) = 0 /\ \E l \in LaunchType : v.launch = Append(w.launch, l)
                /\ l.activity = x /\ l.task = t
    <3>1. PICK l \in LaunchType : v.launch = Append(w.launch, l) /\ l.activity = x /\ l.task = t
      BY <2>4
    <3>2. ToSet(v.launch) = ToSet(w.launch) \union {l}
      BY <3>1, <2>1, AppendFacts
    <3>3. \A k \in ToSet(v.launch) : /\ k.activity <= v.activities /\ AppOf(v, k.activity) = 0
                                     /\ v.act[k.activity].mInTask = k.task
      BY <3>1, <3>2, <2>2, <2>4, <1>1 DEF Grows
    <3>4. ASSUME NEW i \in DOMAIN v.launch, NEW j \in DOMAIN v.launch,
                 v.launch[i].activity = v.launch[j].activity
          PROVE  i = j
      <4> DEFINE n == Len(w.launch)
      <4>1. n \in Nat /\ DOMAIN w.launch = 1..n /\ \A k \in 1..n : w.launch[k] \in ToSet(w.launch)
        BY <2>1, ElementsFacts
      <4>2. DOMAIN v.launch = 1..(n + 1) /\ v.launch[n + 1] = l /\ \A k \in 1..n :
                    v.launch[k] = w.launch[k]
        BY <3>1, <2>1, AppendProperties
      <4> HIDE DEF n
      <4>3. \A k \in 1..n : v.launch[k].activity # x
        BY <4>1, <4>2, <2>2
      <4>4. CASE i \in 1..n /\ j \in 1..n
        BY <4>1, <4>2, <4>4, <3>4, <1>1 DEF Base, Launches
      <4>5. CASE i = n + 1 \/ j = n + 1
        BY <4>1, <4>2, <4>3, <4>5, <3>1, <3>4
      <4>6. QED
        BY <4>1, <4>2, <4>4, <4>5
    <3>5. QED
      BY <3>3, <3>4 DEF Launches
  <2>5. QED
    BY <2>3, <2>4 DEF Grows
<1>9. Kinds(v)
  <2>1. \A y \in Made(w) : w.act[y].mInTask = t => IsSystemUI(w, y) = IsSystemUI(v, x)
    BY DEF Grows
  <2>2. v.act[x].mInTask = t /\ (t \in Listed(w) => ~IsSystemUI(v, x)) /\ (t \in UiListed(w)
                => IsSystemUI(v, x))
    BY DEF Grows
  <2>3. Kinds(w)
    BY <1>1 DEF Base
  <2>4. \A y, z \in Made(v) : v.act[y].mInTask = v.act[z].mInTask
                => IsSystemUI(v, y) = IsSystemUI(v, z)
    BY <2>1, <2>2, <2>3, <1>4 DEF Kinds
  <2>5. \A y \in Made(v) : /\ v.act[y].mInTask \in Listed(v) => ~IsSystemUI(v, y)
                           /\ v.act[y].mInTask \in UiListed(v) => IsSystemUI(v, y)
    BY <2>2, <2>3, <1>3, <1>4 DEF Kinds
  <2>6. QED
    BY <2>3, <2>4, <2>5, <1>3 DEF Kinds
<1>10. \A y \in Activity : AppOf(w, y) # 0 /\ y \in Exist(w, AppOf(w, y))
              => y \in Exist(v, AppOf(v, y))
  BY <1>2 DEF Exist
<1>11. CountedBut(v, {})
  <2> SUFFICES ASSUME NEW r \in Task, Kept(v, r), NEW y \in On(w, r)
                PROVE y \in Exist(v, AppOf(v, y))
    BY <1>3 DEF CountedBut
  <2>1. y \in Activity /\ AppOf(w, y) # 0
    BY <1>1, BaseFacts
  <2>2. Kept(w, r) \/ r = t
    <3>1. v.launch = w.launch \/ \E l \in LaunchType : v.launch = Append(w.launch, l) /\ l.task = t
      BY DEF Grows
    <3>2. (\E l \in ToSet(v.launch) : l.task = r) => r = t \/ \E l \in ToSet(w.launch) : l.task = r
      <4>1. w.launch \in Seq(LaunchType)
        BY <1>1, HeapParts
      <4>2. CASE v.launch = w.launch
        BY <4>2
      <4>3. ASSUME NEW l \in LaunchType, v.launch = Append(w.launch, l), l.task = t
            PROVE  \A k \in ToSet(v.launch) : k.task = t \/ k \in ToSet(w.launch)
        <5>1. ToSet(v.launch) = ToSet(w.launch) \union {l}
          BY <4>1, <4>3, AppendFacts
        <5>2. QED
          BY <5>1, <4>3
      <4>4. QED
        BY <4>2, <4>3, <3>1
    <3>3. QED
      BY <3>2, <1>3 DEF Kept
  <2>3. y \in Exist(w, AppOf(w, y))
    BY <2>2, <1>1 DEF CountedBut, Grows
  <2>4. QED
    BY <2>1, <2>3, <1>10
<1>12. Tidy(v) /\ Careful(v)
  BY <1>3 DEF Fine, Tidy, NonEmpty, HomeListed, AllListed, Careful
<1>13. ASSUME AppOf(v, x) # 0 PROVE Pushable(v, t, x)
  <2>1. ~Freed(v, x)
    BY <1>13 DEF Grows, Freed, AppOf
  <2>2. \A r \in Task : x \notin On(v, r)
    BY <1>1, <1>3, UnmadeFacts
  <2>3. \A y \in On(v, t) : y \in Exist(v, AppOf(v, y))
    <3>1. \A y \in On(w, t) : y \in Activity /\ AppOf(w, y) # 0 /\ y \in Exist(w, AppOf(w, y))
      BY <1>1, <1>5, BaseFacts DEF Grows
    <3>2. QED
      BY <3>1, <1>3, <1>10
  <2>4. x \in Made(v) /\ v.act[x].mStatus = INIT /\ v.act[x].mInTask = t
    BY <1>4 DEF Grows
  <2>5. QED
    BY <2>1, <2>2, <2>3, <2>4, <1>5, <1>13 DEF Pushable
<1>14. QED
  BY <1>2, <1>6, <1>7, <1>8, <1>9, <1>11, <1>12, <1>13 DEF Fine, Base

\* PushNewActivity() of either manager keeps the invariant.
LEMMA PushFine ==
    ASSUME NEW w, Fine(w, {}), NEW t, NEW x, Pushable(w, t, x), NEW clear \in BOOLEAN
    PROVE  Fine(Push(w, t, x, clear), {}) /\ Loose(w, Push(w, t, x, clear), {})
<1>1. CASE IsSystemUI(w, x)
  BY <1>1, UiPushFine DEF Push
<1>2. CASE ~IsSystemUI(w, x)
  BY <1>2, PushNewFine DEF Push
<1>3. QED
  BY <1>1, <1>2

\* What FindProc finds.
LEMMA FindProcFacts ==
    ASSUME NEW w, NEW package, NEW statuses
    PROVE  LET p == FindProc(w, package, statuses)
           IN p # 0 => p \in Proc /\ w.proc[p].package = package /\ w.proc[p].mStatus \in statuses
<1> DEFINE found == {p \in Proc : w.proc[p].package = package /\ w.proc[p].mStatus \in statuses}
           p == FindProc(w, package, statuses)
<1>1. CASE found = {}
  BY <1>1 DEF FindProc
<1>2. CASE found # {}
  <2>1. found \in SUBSET Nat
    BY DEF Proc
  <2>2. p = CHOOSE q \in found : \A r \in found : q <= r
    BY <1>2 DEF FindProc
  <2> HIDE DEF found, p
  <2>3. \E q \in found : \A r \in found : q <= r
    BY <1>2, <2>1, LeastNat
  <2>4. p \in found
    BY <2>2, <2>3
  <2>5. QED
    BY <2>4 DEF found, p
<1>3. QED
  BY <1>1, <1>2

\* What NewActivity makes.
LEMMA NewActivityFacts ==
    ASSUME NEW w \in HeapType, NEW n \in Name, NEW t \in Task, w.activities < MaxActivities
    PROVE  LET v == NewActivity(w, n, t)
               x == w.activities + 1
           IN /\ v \in HeapType /\ x \in Activity /\ v.activities = x
              /\ v.tasks = w.tasks /\ SameTasks(w, v) /\ v.pend = w.pend
                            /\ v.undefined = w.undefined
              /\ v.procs = w.procs /\ v.proc = w.proc /\ v.launch = w.launch
              /\ v.act[x] \in ActivityType /\ v.act[x].name = n /\ v.act[x].mInTask = t
              /\ v.act[x].mStatus = INIT /\ v.act[x].mApp = 0
              /\ \A y \in Activity : y # x => v.act[y] = w.act[y]
<1> DEFINE x == w.activities + 1
           a == [NoActivity EXCEPT !.name = n, !.mInTask = t, !.mapped = TRUE]
           v == [w EXCEPT !.activities = x, !.act[x] = a]
<1>1. x \in Activity /\ x \in 0..MaxActivities
  <2>1. w.activities \in 0..MaxActivities /\ MaxActivities \in Nat
    BY HeapParts, BoundsAssumption
  <2>2. QED
    BY <2>1 DEF Activity
<1>2. NewActivity(w, n, t) = v
  BY DEF NewActivity
<1>3. a \in ActivityType /\ a.name = n /\ a.mInTask = t /\ a.mStatus = INIT /\ a.mApp = 0
  <2>1. NoActivity \in ActivityType
    BY BoundsAssumption DEF NoActivity, ActivityType, Status
  <2>2. t \in 0..MaxTasks
    BY BoundsAssumption DEF Task
  <2>3. NoActivity.mStatus = INIT /\ NoActivity.mApp = 0
    BY DEF NoActivity
  <2>4. QED
    BY <2>1, <2>2, <2>3 DEF ActivityType
<1> HIDE DEF x, a
<1>4. v \in HeapType
  BY <1>1, <1>3 DEF HeapType
<1>5. /\ v.activities = x /\ v.act = [w.act EXCEPT ![x] = a]
      /\ v.tasks = w.tasks /\ SameTasks(w, v) /\ v.pend = w.pend /\ v.undefined = w.undefined
      /\ v.procs = w.procs /\ v.proc = w.proc /\ v.launch = w.launch
  BY DEF HeapType, SameTasks
<1> HIDE DEF v
<1>6. v.act[x] = a /\ \A y \in Activity : y # x => v.act[y] = w.act[y]
  BY <1>1, <1>5, HeapParts
<1>7. QED
  BY <1>1, <1>2, <1>3, <1>4, <1>5, <1>6 DEF x

\* What the new activity and its task are for the heap, before it has a process.
LEMMA FitsFacts ==
    ASSUME NEW w, Fine(w, {}), NEW n \in Name, NEW made, NEW t, Fits(w, made, n, t),
           w.activities < MaxActivities
    PROVE  LET u == NewActivity(made, n, t)
               x == w.activities + 1
           IN /\ u \in HeapType /\ u.activities = x /\ x \in Activity /\ u.act[x] \in ActivityType
              /\ \A y \in Activity : y # x => u.act[y] = w.act[y]
              /\ u.act[x].name = n /\ u.act[x].mInTask = t /\ u.act[x].mStatus = INIT
                            /\ u.act[x].mApp = 0
              /\ u.tasks \in {w.tasks, w.tasks + 1} /\ t \in 1..u.tasks /\ t \in Task
              /\ SameTasks(w, u) /\ u.pend = w.pend /\ u.undefined = w.undefined
              /\ u.procs = w.procs /\ u.proc = w.proc /\ u.launch = w.launch
              /\ \A y \in Made(w) : w.act[y].mInTask = t => IsSystemUI(w, y) =
                            (Package[n] \in SystemUI)
              /\ t \in Listed(w) => Package[n] \notin SystemUI
              /\ t \in UiListed(w) => Package[n] \in SystemUI
              /\ \A y \in On(w, t) : y \in Exist(w, AppOf(w, y))
<1> DEFINE x == w.activities + 1
           u == NewActivity(made, n, t)
<1>1. /\ Base(w) /\ w \in HeapType /\ CountedBut(w, {}) /\ w.tasks \in Nat
              /\ w.tasks \in 0..MaxTasks /\ MaxTasks \in Nat
      /\ Listed(w) \subseteq 1..w.tasks /\ UiListed(w) \subseteq 1..w.tasks
  BY BaseFacts, HeapParts, BoundsAssumption DEF Fine, Base, Numbered
<1>2. /\ made \in HeapType /\ made.act = w.act /\ made.activities = w.activities
      /\ made.tasks \in {w.tasks, w.tasks + 1} /\ t \in 1..made.tasks /\ t \in Task
      /\ SameTasks(w, made) /\ made.pend = w.pend /\ made.undefined = w.undefined
      /\ made.procs = w.procs /\ made.proc = w.proc /\ made.launch = w.launch
  <2>1. CASE made = w /\ t \in Listed(w) \union UiListed(w)
    <3>1. t \in 1..w.tasks
      BY <2>1, <1>1
    <3>2. QED
      BY <3>1, <2>1, <1>1 DEF SameTasks, Task
  <2>2. CASE (\E tag \in Tags : made = NewTask(w, tag)) /\ w.tasks < MaxTasks /\ t = w.tasks + 1
    <3>1. PICK tag \in Tags : made = NewTask(w, tag)
      BY <2>2
    <3>2. t \in Task /\ t \in 0..MaxTasks
      BY <2>2, <1>1 DEF Task
    <3>3. made = [w EXCEPT !.tasks = t, !.tag[t] = tag]
      BY <3>1, <2>2 DEF NewTask
    <3>4. made \in HeapType
      BY <3>2, <3>3, <1>1 DEF HeapType
    <3>5. /\ made.act = w.act /\ made.activities = w.activities /\ made.tasks = t
          /\ SameTasks(w, made) /\ made.pend = w.pend /\ made.undefined = w.undefined
          /\ made.procs = w.procs /\ made.proc = w.proc /\ made.launch = w.launch
      BY <3>3, <1>1 DEF HeapType, SameTasks
    <3>6. QED
      BY <3>2, <3>4, <3>5, <2>2 DEF Task
  <2>3. QED
    BY <2>1, <2>2 DEF Fits
<1>3. /\ \A y \in Made(w) : w.act[y].mInTask = t => IsSystemUI(w, y) = (Package[n] \in SystemUI)
      /\ t \in Listed(w) => Package[n] \notin SystemUI
      /\ t \in UiListed(w) => Package[n] \in SystemUI
      /\ \A y \in On(w, t) : y \in Exist(w, AppOf(w, y))
  <2>1. CASE IF Package[n] \in SystemUI THEN t \in UiListed(w) ELSE t \in Listed(w)
    <3>1. Kept(w, t)
      BY <2>1 DEF Kept
    <3>2. \A y \in On(w, t) : y \in Exist(w, AppOf(w, y))
      BY <3>1, <1>1, <1>2 DEF CountedBut
    <3>3. \A y \in Made(w) : w.act[y].mInTask = t => IsSystemUI(w, y) = (Package[n] \in SystemUI)
      BY <2>1, <1>1 DEF Base, Kinds, IsSystemUI
    <3>4. (t \in Listed(w) => Package[n] \notin SystemUI) /\ (t \in UiListed(w)
                  => Package[n] \in SystemUI)
      BY <2>1, <1>1 DEF Base, Kinds
    <3>5. QED
      BY <3>2, <3>3, <3>4
  <2>2. CASE t = w.tasks + 1
    <3>1. t \notin 1..w.tasks
      BY <2>2, <1>1
    <3>2. \A y \in Made(w) : w.act[y].mInTask # t
      BY <3>1, <1>1 DEF Base, Numbered
    <3>3. On(w, t) = {}
      BY <3>2, <1>1, <1>2, BaseFacts
    <3>4. QED
      BY <3>1, <3>2, <3>3, <1>1
  <2>3. QED
    BY <2>1, <2>2 DEF Fits
<1>4. /\ u \in HeapType /\ x \in Activity /\ u.activities = x
      /\ u.tasks = made.tasks /\ SameTasks(made, u) /\ u.pend = made.pend
                    /\ u.undefined = made.undefined
      /\ u.procs = made.procs /\ u.proc = made.proc /\ u.launch = made.launch
      /\ u.act[x] \in ActivityType /\ u.act[x].name = n /\ u.act[x].mInTask = t
      /\ u.act[x].mStatus = INIT /\ u.act[x].mApp = 0
      /\ \A y \in Activity : y # x => u.act[y] = made.act[y]
  <2>1. made.activities < MaxActivities /\ made.activities + 1 = x
    BY <1>2
  <2> HIDE DEF x
  <2>2. QED
    BY <2>1, <1>2, NewActivityFacts
<1> HIDE DEF x, u
<1>5. SameTasks(w, u)
  BY <1>2, <1>4 DEF SameTasks
<1>6. QED
  BY <1>2, <1>3, <1>4, <1>5 DEF x, u

\* A new activity of a running process, and of a process that is started for it.
LEMMA RunningGrows ==
    ASSUME NEW w, Fine(w, {}), NEW n \in Name, NEW made, NEW t, Fits(w, made, n, t),
           w.activities < MaxActivities, NEW p \in Proc, w.proc[p].mStatus = "RUNNING"
    PROVE  LET u == NewActivity(made, n, t)
               x == w.activities + 1
           IN Grows(w, [u EXCEPT !.act[x].mApp = p], t, x)
<1> DEFINE u == NewActivity(made, n, t)
           x == w.activities + 1
           a == [u.act[x] EXCEPT !.mApp = p]
           v == [u EXCEPT !.act[x] = a]
<1>1. /\ u \in HeapType /\ u.activities = x /\ x \in Activity /\ u.act[x] \in ActivityType
      /\ \A y \in Activity : y # x => u.act[y] = w.act[y]
      /\ u.act[x].name = n /\ u.act[x].mInTask = t /\ u.act[x].mStatus = INIT
      /\ u.tasks \in {w.tasks, w.tasks + 1} /\ t \in 1..u.tasks
      /\ SameTasks(w, u) /\ u.pend = w.pend /\ u.undefined = w.undefined
      /\ u.procs = w.procs /\ u.proc = w.proc /\ u.launch = w.launch
      /\ \A y \in Made(w) : w.act[y].mInTask = t => IsSystemUI(w, y) = (Package[n] \in SystemUI)
      /\ t \in Listed(w) => Package[n] \notin SystemUI
      /\ t \in UiListed(w) => Package[n] \in SystemUI
      /\ \A y \in On(w, t) : y \in Exist(w, AppOf(w, y))
  BY FitsFacts
<1>2. x = w.activities + 1
  OBVIOUS
<1>3. [u EXCEPT !.act[x].mApp = p] = v
  OBVIOUS
<1> HIDE DEF u, x
<1>4. a \in ActivityType /\ a.name = n /\ a.mInTask = t /\ a.mStatus = INIT /\ a.mApp = p
  <2>1. p \in 0..MaxProcs
    BY BoundsAssumption DEF Proc
  <2>2. QED
    BY <1>1, <2>1 DEF ActivityType
<1> HIDE DEF a
<1>5. v \in HeapType /\ SameButAct(u, v) /\ v.act[x] = a /\ \A y \in Activity : y # x
              => v.act[y] = u.act[y]
  BY <1>1, <1>4, ActSet
<1> HIDE DEF v
<1>6. /\ v.activities = x /\ v.tasks = u.tasks /\ SameTasks(w, v) /\ v.pend = w.pend
      /\ v.undefined = w.undefined /\ v.procs = w.procs /\ v.proc = w.proc /\ v.launch = w.launch
  BY <1>1, <1>5 DEF SameButAct, SameTasks
<1>7. /\ w.procs \in Nat /\ p <= w.procs /\ w.procs # 0 /\ w \in HeapType /\ Base(w)
  <2>1. w \in HeapType /\ Base(w) /\ w.procs \in 0..MaxProcs
    BY BaseFacts, HeapParts DEF Fine
  <2>2. p \in Nat /\ p >= 1 /\ ~(p > w.procs)
    BY <2>1 DEF Base, Numbered, Proc
  <2>3. QED
    BY <2>1, <2>2
<1>8. \A q \in Proc : q > w.procs => v.proc[q].mStatus = "NONE"
  BY <1>6, <1>7 DEF Base, Numbered
<1>9. AppOf(v, x) = p /\ IsSystemUI(v, x) = (Package[n] \in SystemUI)
  BY <1>4, <1>5 DEF AppOf, IsSystemUI
<1>10. Grows(w, v, t, x)
  <2>1. \A y \in Activity : y # x => v.act[y] = w.act[y]
    BY <1>1, <1>5
  <2>2. /\ v.procs \in Nat \ {0} /\ v.procs >= w.procs
        /\ \A q \in Proc : q > v.procs => v.proc[q].mStatus = "NONE"
    BY <1>6, <1>7, <1>8
  <2>3. /\ v.launch = w.launch /\ AppOf(v, x) \in Proc /\ v.proc[AppOf(v, x)].mStatus = "RUNNING"
        /\ AppOf(v, x) <= w.procs
    BY <1>6, <1>7, <1>9
  <2>4. /\ \A y \in Made(w) : w.act[y].mInTask = t => IsSystemUI(w, y) = IsSystemUI(v, x)
        /\ t \in Listed(w) => ~IsSystemUI(v, x)
        /\ t \in UiListed(w) => IsSystemUI(v, x)
    BY <1>1, <1>9
  <2>5. /\ v \in HeapType /\ x \in Activity /\ v.activities = x
        /\ v.act[x].name \in Name /\ v.act[x].mInTask = t /\ v.act[x].mStatus = INIT
    BY <1>1, <1>4, <1>5, <1>6
  <2>6. /\ v.tasks \in {w.tasks, w.tasks + 1} /\ t \in 1..v.tasks
        /\ \A y \in On(w, t) : y \in Exist(w, AppOf(w, y))
    BY <1>1, <1>6
  <2>7. QED
    BY <1>2, <1>6, <2>1, <2>2, <2>3, <2>4, <2>5, <2>6 DEF Grows
<1>11. QED
  BY <1>3, <1>10 DEF u, x

\* ... and of a process that is spawned for it.
LEMMA SpawnedGrows ==
    ASSUME NEW w, Fine(w, {}), NEW n \in Name, NEW made, NEW t, Fits(w, made, n, t),
           w.activities < MaxActivities, w.procs < MaxProcs, NEW clear \in BOOLEAN
    PROVE  LET u == NewActivity(made, n, t)
               x == w.activities + 1
               v == [Spawn(u, Package[n]) EXCEPT !.launch =
                        Append(@, [proc |-> w.procs + 1, activity |-> x, task |-> t, clear |-> clear])]
           IN Grows(w, v, t, x) /\ AppOf(v, x) = 0
<1> DEFINE u == NewActivity(made, n, t)
           x == w.activities + 1
           p == w.procs + 1
           l == [proc |-> p, activity |-> x, task |-> t, clear |-> clear]
           y == [NoProc EXCEPT !.package = Package[n], !.mStatus = "ATTACHING"]
           q == Append(u.launch, l)
           v == [u EXCEPT !.procs = p, !.proc[p] = y, !.launch = q]
<1>1. /\ u \in HeapType /\ u.activities = x /\ x \in Activity /\ u.act[x] \in ActivityType
      /\ \A z \in Activity : z # x => u.act[z] = w.act[z]
      /\ u.act[x].name = n /\ u.act[x].mInTask = t /\ u.act[x].mStatus = INIT /\ u.act[x].mApp = 0
      /\ u.tasks \in {w.tasks, w.tasks + 1} /\ t \in 1..u.tasks /\ t \in Task
      /\ SameTasks(w, u) /\ u.pend = w.pend /\ u.undefined = w.undefined
      /\ u.procs = w.procs /\ u.proc = w.proc /\ u.launch = w.launch
      /\ \A z \in Made(w) : w.act[z].mInTask = t => IsSystemUI(w, z) = (Package[n] \in SystemUI)
      /\ t \in Listed(w) => Package[n] \notin SystemUI
      /\ t \in UiListed(w) => Package[n] \in SystemUI
      /\ \A z \in On(w, t) : z \in Exist(w, AppOf(w, z))
  BY FitsFacts
<1>2. x = w.activities + 1 /\ p = w.procs + 1
  OBVIOUS
<1>3. /\ w \in HeapType /\ Base(w) /\ w.procs \in Nat /\ p \in Proc /\ p \in 0..MaxProcs
  <2>1. w \in HeapType /\ Base(w) /\ w.procs \in 0..MaxProcs /\ MaxProcs \in Nat
    BY BaseFacts, HeapParts, BoundsAssumption DEF Fine
  <2>2. QED
    BY <2>1, <1>2 DEF Proc
<1>4. [Spawn(u, Package[n]) EXCEPT !.launch =
           Append(@, [proc |-> w.procs + 1, activity |-> x, task |-> t, clear |-> clear])] = v
  <2>1. u.procs = w.procs
    BY <1>1
  <2> HIDE DEF u, x
  <2>2. Spawn(u, Package[n]) = [u EXCEPT !.procs = p, !.proc[p] = y]
    BY <2>1 DEF Spawn
  <2>3. [u EXCEPT !.procs = p, !.proc[p] = y].launch = u.launch
    BY <1>1 DEF HeapType
  <2> HIDE DEF y, p
  <2>4. QED
    BY <2>2, <2>3 DEF p
<1> HIDE DEF u, x, p
<1>5. y \in ProcType /\ y.mExistActivity = <<>> /\ y.sent = <<>>
  <2>1. NoProc \in ProcType /\ NoProc.mExistActivity = <<>> /\ NoProc.sent = <<>>
    <3>1. <<>> \in Seq(Activity) /\ <<>> \in Seq(Calls)
      OBVIOUS
    <3>2. QED
      BY <3>1 DEF NoProc, ProcType
  <2>2. Package[n] \in Packages
    BY DEF Packages
  <2>3. QED
    BY <2>1, <2>2 DEF ProcType
<1> HIDE DEF y
<1>6. l \in LaunchType /\ l.activity = x /\ l.task = t
  BY <1>1, <1>3 DEF LaunchType
<1> HIDE DEF l
<1>7. q \in Seq(LaunchType) /\ q = Append(w.launch, l)
  BY <1>1, <1>6, HeapParts
<1> HIDE DEF q
<1>8. /\ v \in HeapType /\ v.act = u.act /\ v.activities = x /\ v.tasks = u.tasks /\ SameTasks(w, v)
      /\ v.pend = w.pend /\ v.undefined = w.undefined /\ v.procs = p /\ v.launch = q
      /\ v.proc = [w.proc EXCEPT ![p] = y]
  <2>1. v \in HeapType
    BY <1>1, <1>3, <1>5, <1>7 DEF HeapType
  <2>2. /\ v.act = u.act /\ v.activities = x /\ v.tasks = u.tasks /\ SameTasks(u, v)
        /\ v.pend = u.pend /\ v.undefined = u.undefined /\ v.procs = p /\ v.launch = q
        /\ v.proc = [u.proc EXCEPT ![p] = y]
    BY <1>1 DEF HeapType, SameTasks
  <2> HIDE DEF v
  <2>3. QED
    BY <2>1, <2>2, <1>1 DEF SameTasks
<1> HIDE DEF v
<1>9. \A r \in Proc : \/ v.proc[r] = w.proc[r]
                      \/ r > w.procs /\ v.proc[r].mExistActivity = <<>> /\ v.proc[r].sent = <<>>
  <2>1. v.proc[p] = y /\ \A r \in Proc : r # p => v.proc[r] = w.proc[r]
    BY <1>3, <1>8, HeapParts
  <2>2. p > w.procs
    BY <1>2, <1>3
  <2>3. QED
    BY <2>1, <2>2, <1>5
<1>10. \A r \in Proc : r > v.procs => v.proc[r].mStatus = "NONE"
  <2>1. ASSUME NEW r \in Proc, r > p PROVE r # p /\ r > w.procs
    BY <2>1, <1>2, <1>3 DEF Proc
  <2>2. \A r \in Proc : r # p => v.proc[r] = w.proc[r]
    BY <1>3, <1>8, HeapParts
  <2>3. QED
    BY <2>1, <2>2, <1>3, <1>8 DEF Base, Numbered
<1>11. AppOf(v, x) = 0 /\ IsSystemUI(v, x) = (Package[n] \in SystemUI)
  BY <1>1, <1>8 DEF AppOf, IsSystemUI
<1>12. v.procs \in Nat \ {0} /\ v.procs >= w.procs
  BY <1>2, <1>3, <1>8
<1>13. Grows(w, v, t, x)
  BY <1>1, <1>2, <1>6, <1>7, <1>8, <1>9, <1>10, <1>11, <1>12 DEF Grows
<1>14. QED
  BY <1>4, <1>11, <1>13 DEF u, x

\* The launch of an activity keeps the invariant.
LEMMA LaunchFine ==
    ASSUME NEW w, Fine(w, {}), NEW n \in Name, NEW made, NEW t, Fits(w, made, n, t), NEW clear \in BOOLEAN,
           w.activities < MaxActivities, w.procs < MaxProcs
    PROVE  Fine(LaunchActivity(w, made, n, t, clear), {})
<1> DEFINE u == NewActivity(made, n, t)
           x == w.activities + 1
           p == FindProc(w, Package[n], {"RUNNING"})
           r == [u EXCEPT !.act[x].mApp = p]
           s == [Spawn(u, Package[n]) EXCEPT !.launch =
                    Append(@, [proc |-> w.procs + 1, activity |-> x, task |-> t, clear |-> clear])]
<1>1. u.activities = x
  BY FitsFacts
<1>2. \/ p # 0 /\ LaunchActivity(w, made, n, t, clear) = Push(r, t, x, clear)
      \/ LaunchActivity(w, made, n, t, clear) = w
      \/ LaunchActivity(w, made, n, t, clear) = s
  BY <1>1 DEF LaunchActivity
<1>3. CASE p # 0 /\ LaunchActivity(w, made, n, t, clear) = Push(r, t, x, clear)
  <2>1. p \in Proc /\ w.proc[p].mStatus = "RUNNING"
    BY <1>3, FindProcFacts
  <2>2. Grows(w, r, t, x)
    <3> HIDE DEF p
    <3>1. QED
      BY <2>1, RunningGrows
  <2>3. r.act[x].mApp = p /\ p # 0
    <3>1. u \in HeapType /\ x \in Activity /\ u.act[x] \in ActivityType
      BY FitsFacts
    <3> HIDE DEF u, x, p
    <3>2. QED
      BY <3>1, <1>3, HeapParts DEF ActivityType
  <2> HIDE DEF r, x
  <2>4. Fine(r, {}) /\ Pushable(r, t, x)
    BY <2>2, <2>3, GrownFine DEF AppOf
  <2>5. QED
    BY <2>4, <1>3, PushFine
<1>4. CASE LaunchActivity(w, made, n, t, clear) = s
  <2>1. Grows(w, s, t, x)
    BY SpawnedGrows
  <2> HIDE DEF s, x
  <2>2. QED
    BY <2>1, <1>4, GrownFine
<1>5. QED
  BY <1>2, <1>3, <1>4
-----------------------------------------------------------------------------
(* The requests to start an activity.                                       *)

\* What findTask() finds is a listed task that has an activity.
LEMMA FindInFacts ==
    ASSUME NEW w \in HeapType, NEW list \in Seq(Task), NEW tag
    PROVE  LET t == FindIn(w, list, tag)
           IN t # 0 => t \in ToSet(list) /\ w.stack[t] # <<>>
<1> DEFINE I == {i \in 1..Len(list) : /\ w.tag[list[i]] = tag
                                      /\ w.stack[list[i]] # <<>>
                                      /\ w.proc[w.act[Head(w.stack[list[i]])].mApp].mStatus = "RUNNING"}
           f == IF I # {} THEN Min(I) ELSE 0
<1>1. Len(list) \in Nat /\ \A i \in 1..Len(list) : list[i] \in ToSet(list)
  BY ElementsFacts
<1>2. FindIn(w, list, tag) = IF f = 0 THEN 0 ELSE list[f]
  BY DEF FindIn, SelectInSeq
<1>3. I # {} => Min(I) \in I
  <2>1. I \in SUBSET Nat
    BY <1>1, SMTT(20)
  <2> HIDE DEF I
  <2>2. QED
    BY <2>1, LeastIsMin
<1>4. f = 0 \/ f \in I
  <2> HIDE DEF I
  <2>1. QED
    BY <1>3
<1>5. QED
  BY <1>1, <1>2, <1>4

\* The active task of the system UI is listed and has an activity.
LEMMA UiActiveFacts ==
    ASSUME NEW w \in HeapType
    PROVE  LET t == UiActive(w)
           IN t # 0 => t \in UiListed(w) /\ w.stack[t] # <<>>
<1> DEFINE list == w.mSystemUITasks
           I == {k \in 1..Len(list) :
                     \E i \in DOMAIN w.stack[list[k]] :
                                   w.act[w.stack[list[k]][i]].mStatus = RESUMED}
           f == IF I # {} THEN Min(I) ELSE 0
<1>1. Len(list) \in Nat /\ (\A k \in 1..Len(list) : list[k] \in ToSet(list)) /\ list \in Seq(Task)
  BY HeapParts, ElementsFacts
<1>2. UiActive(w) = IF f = 0 THEN 0 ELSE list[f]
  BY DEF UiActive, SelectInSeq
<1>3. I # {} => Min(I) \in I
  <2>1. I \in SUBSET Nat
    BY <1>1
  <2> HIDE DEF I
  <2>2. QED
    BY <2>1, LeastIsMin
<1>4. f = 0 \/ f \in I
  <2> HIDE DEF I
  <2>1. QED
    BY <1>3
<1>5. ASSUME NEW k \in I PROVE list[k] \in UiListed(w) /\ w.stack[list[k]] # <<>>
  BY <1>1 DEF UiListed
<1>6. QED
  BY <1>2, <1>4, <1>5

\* ... is at its place.
LEMMA NamedFacts ==
    ASSUME NEW w, NEW s \in Seq(Activity), NEW n
    PROVE  LET i == FirstNamed(w, s, n)
           IN i # 0 => i \in 1..Len(s) /\ w.act[s[i]].name = n /\ s[i] \in ToSet(s)
<1> DEFINE I == {i \in 1..Len(s) : w.act[s[i]].name = n}
<1>1. Len(s) \in Nat /\ \A i \in 1..Len(s) : s[i] \in ToSet(s)
  BY ElementsFacts
<1>2. FirstNamed(w, s, n) = IF I # {} THEN Min(I) ELSE 0
  BY DEF FirstNamed, SelectInSeq
<1>3. I # {} => Min(I) \in I
  <2>1. I \in SUBSET Nat
    BY <1>1
  <2> HIDE DEF I
  <2>2. QED
    BY <2>1, LeastIsMin
<1>4. FirstNamed(w, s, n) = 0 \/ FirstNamed(w, s, n) \in I
  <2> HIDE DEF I
  <2>1. QED
    BY <1>2, <1>3
<1>5. QED
  BY <1>1, <1>4

\* The heap of a handler that is undefined is kept, if the callers are not careful.
LEMMA UndefinedFine ==
    ASSUME NEW w, NEW X, Fine(w, X), ~(FinishOnce /\ HomeStays /\ UiNewTask)
    PROVE  Fine(Undefined(w), X)
<1>1. Calm(w, Undefined(w))
  BY SetUndefined, BaseFacts DEF Fine
<1>2. Careful(Undefined(w))
  BY DEF Careful
<1>3. QED
  BY <1>1, <1>2, CalmFine

\* The task of the active activity.
LEMMA ActiveOfFacts ==
    ASSUME NEW w \in HeapType, NEW b \in BOOLEAN
    PROVE  LET t == ActiveOf(w, b)
           IN t # 0 => t \in Task /\ IF b THEN t \in UiListed(w) ELSE t \in Listed(w)
                         /\ t = Active(w)
<1>1. Listed(w) \subseteq Task /\ UiListed(w) \subseteq Task
  BY HeapParts, ElementsFacts DEF Listed, UiListed
<1>2. CASE b = TRUE
  BY <1>1, <1>2, UiActiveFacts DEF ActiveOf
<1>3. CASE b = FALSE
  BY <1>1, <1>3, ActiveFacts DEF ActiveOf
<1>4. QED
  BY <1>2, <1>3

\* What Find finds.
LEMMA FindFacts ==
    ASSUME NEW w \in HeapType, NEW b \in BOOLEAN, NEW tag
    PROVE  LET t == Find(w, b, tag)
           IN t # 0 => t \in Task /\ w.stack[t] # <<>> /\ IF b THEN t \in UiListed(w)
                         ELSE t \in Listed(w)
<1>1. Listed(w) \subseteq Task /\ UiListed(w) \subseteq Task /\ w.mAllTasks \in Seq(Task)
      /\ w.mSystemUITasks \in Seq(Task)
  BY HeapParts, ElementsFacts DEF Listed, UiListed
<1>2. CASE b = TRUE
  BY <1>1, <1>2, FindInFacts DEF Find, UiFindTask, UiListed
<1>3. CASE b = FALSE
  BY <1>1, <1>3, FindInFacts DEF Find, FindTask, Listed
<1>4. QED
  BY <1>2, <1>3

\* startActivityReal() keeps the invariant.
LEMMA StartRealFine ==
    ASSUME NEW w, Fine(w, {}), NEW n \in Name, NEW anew \in BOOLEAN, NEW clearTask \in BOOLEAN,
           NEW clearTop \in BOOLEAN, HasRoom(w), Askable(w, n, anew)
    PROVE  Fine(StartActivityReal(w, n, anew, clearTask, clearTop), {})
<1> DEFINE isEntry == n = Entry[Package[n]]
           ui == Package[n] \in SystemUI
           tag == IF isEntry THEN Package[n] ELSE Affinity[n]
           mode == IF isEntry /\ Mode[n] # "SINGLE_TASK" THEN "SINGLE_INSTANCE" ELSE Mode[n]
           newTask == anew \/ isEntry \/ mode = "SINGLE_INSTANCE"
           single == mode \in {"SINGLE_TASK", "SINGLE_INSTANCE"}
           found == IF newTask THEN Find(w, ui, tag) ELSE ActiveOf(w, ui)
           isNew == newTask /\ found = 0
           made == IF isNew THEN NewTask(w, tag) ELSE w
           t == IF isNew THEN made.tasks ELSE found
           among == IF mode = "SINGLE_TOP" THEN <<Top(w, t)>>
                    ELSE IF single THEN w.stack[t]
                    ELSE <<>>
           named == SelectInSeq(among, LAMBDA x : w.act[x].name = n)
           bad == t = 0 \/ (mode = "SINGLE_TOP" /\ ~isNew /\ Top(w, t) = 0)
<1>1. StartActivityReal(w, n, anew, clearTask, clearTop) =
          IF bad THEN Undefined(w)
          ELSE IF isNew \/ named = 0 THEN LaunchActivity(w, made, n, t, clearTask)
          ELSE IF ui THEN UiTurnToActivity(w, among[named])
          ELSE TurnToActivity(w, t, among[named], clearTop \/ single)
  BY DEF StartActivityReal
<1>2. w \in HeapType /\ Base(w) /\ CountedBut(w, {}) /\ Low(w) /\ w.tasks \in Nat
  BY BaseFacts DEF Fine
<1>3. tag \in Tags /\ ui \in BOOLEAN /\ single \in BOOLEAN
  BY DEF Tags, Packages
<1>4. found # 0 => /\ found \in Task
                   /\ IF ui THEN found \in UiListed(w) ELSE found \in Listed(w)
                   /\ newTask => w.stack[found] # <<>>
                   /\ ~newTask /\ ~ui => found = Active(w)
  <2> HIDE DEF ui, tag
  <2>1. QED
    BY <1>2, <1>3, FindFacts, ActiveOfFacts
<1>5. newTask \in BOOLEAN /\ (isEntry => newTask) /\ (mode = "SINGLE_INSTANCE" => newTask)
      /\ (~newTask => ~anew)
  OBVIOUS
<1>6. isNew => made = NewTask(w, tag) /\ t = w.tasks + 1
  BY <1>2 DEF NewTask, HeapType
<1>7. ~isNew => made = w /\ t = found
  OBVIOUS
<1>8. isNew => newTask /\ found = 0
  OBVIOUS
<1>9. newTask \/ found = ActiveOf(w, ui)
  OBVIOUS
<1>10. ~isNew /\ newTask => found # 0
  OBVIOUS
<1>11. /\ mode = "SINGLE_TOP" => among = <<Top(w, t)>>
       /\ mode # "SINGLE_TOP" => among = <<>> \/ among = w.stack[t]
  OBVIOUS
<1> HIDE DEF ui, tag, mode, newTask, single, found, isNew, made, t
<1>12. CASE bad
  <2>1. ASSUME FinishOnce, HomeStays, UiNewTask PROVE FALSE
    <3>1. NonEmpty(w) /\ HomeListed(w)
      BY <2>1 DEF Fine, Tidy
    <3>2. CASE newTask
      <4>1. t # 0 /\ (~isNew => Top(w, t) # 0)
        BY <3>2, <1>2, <1>4, <1>6, <1>7, <1>10, TopFacts
      <4>2. QED
        BY <4>1, <1>12
    <3>3. CASE ~newTask
      <4>1. ~isNew /\ t = found /\ found = ActiveOf(w, ui) /\ ~ui /\ w.mHomeTask # 0
        BY <3>3, <1>5, <1>7, <1>8, <1>9, <2>1 DEF Askable, ui
      <4>2. Active(w) # 0 /\ Active(w) \in Listed(w) /\ w.stack[Active(w)] # <<>>
        BY <4>1, <3>1, <1>2, ListedFacts DEF HomeListed, NonEmpty
      <4>3. t = Active(w) /\ t \in Task
        BY <4>1, <4>2, <1>2, ActiveFacts DEF ActiveOf
      <4>4. Top(w, t) # 0 /\ t # 0
        BY <4>2, <4>3, <1>2, TopFacts
      <4>5. QED
        BY <4>4, <1>12
    <3>4. QED
      BY <3>2, <3>3
  <2>2. QED
    BY <2>1, <1>1, <1>12, UndefinedFine
<1>13. CASE ~bad /\ (isNew \/ named = 0)
  <2>1. Fits(w, made, n, t)
    <3>1. CASE isNew
      BY <3>1, <1>3, <1>6 DEF Fits, HasRoom
    <3>2. CASE ~isNew
      <4>1. made = w /\ t # 0 /\ t = found
        BY <3>2, <1>7, <1>13
      <4>2. QED
        BY <4>1, <1>4 DEF Fits, ui
    <3>3. QED
      BY <3>1, <3>2
  <2>2. w.activities < MaxActivities /\ w.procs < MaxProcs
    BY DEF HasRoom
  <2>3. QED
    BY <2>1, <2>2, <1>1, <1>13, LaunchFine
<1>14. CASE ~bad /\ ~isNew /\ named # 0
  <2>1. t \in Task /\ t = found /\ IF ui THEN t \in UiListed(w) ELSE t \in Listed(w)
    BY <1>14, <1>4, <1>7
  <2>2. /\ w.stack[t] \in Seq(Activity) /\ On(w, t) \subseteq Activity
        /\ mode = "SINGLE_TOP" => Top(w, t) \in Activity /\ Top(w, t) \in On(w, t)
    BY <2>1, <1>2, <1>14, OnFacts, TopFacts
  <2>3. among \in Seq(Activity) /\ ToSet(among) \subseteq On(w, t)
    <3>1. CASE mode = "SINGLE_TOP"
      BY <3>1, <2>2, <1>11 DEF ToSet
    <3>2. CASE mode # "SINGLE_TOP"
      BY <3>2, <2>2, <1>11 DEF ToSet, On
    <3>3. QED
      BY <3>1, <3>2
  <2> HIDE DEF among
  <2>4. among[named] \in On(w, t)
    <3>1. named = FirstNamed(w, among, n)
      BY DEF FirstNamed
    <3> HIDE DEF named
    <3>2. QED
      BY <2>3, <3>1, <1>14, NamedFacts
  <2>5. CASE ui
    <3>1. Kept(w, t)
      BY <2>1, <2>5 DEF Kept
    <3>2. RESUMED \in Status /\ among[named] \in Activity /\ AppOf(w, among[named]) # 0
                  /\ ~Freed(w, among[named])
      BY <3>1, <2>1, <2>4, <1>2, KeptFacts DEF Status
    <3>3. QED
      BY <3>2, <1>1, <1>14, <2>5, UiChangeFine DEF UiTurnToActivity
  <2>6. CASE ~ui
    <3>1. t \in Listed(w) /\ (clearTop \/ single) \in BOOLEAN
      BY <2>1, <2>6, <1>3
    <3>2. QED
      BY <3>1, <2>4, <1>1, <1>14, <2>6, TurnFine
  <2>7. QED
    BY <2>5, <2>6
<1>15. QED
  BY <1>12, <1>13, <1>14

\* The start of an application hides the system UI.
LEMMA StartedFine ==
    ASSUME NEW w, Fine(w, {}), NEW package
    PROVE  Fine(Started(w, package), {})
BY UiOnStartFine DEF Started

\* startActivity() of an activity keeps the invariant.
LEMMA StartNameFine ==
    ASSUME NEW w, Fine(w, {}), NEW n \in Name, NEW anew \in BOOLEAN, NEW clearTask \in BOOLEAN,
           NEW clearTop \in BOOLEAN, HasRoom(w), Askable(w, n, anew)
    PROVE  Fine(StartName(w, n, anew, clearTask, clearTop), {})
BY StartRealFine, StartedFine DEF StartName

\* startActivity() of a package keeps the invariant.
LEMMA StartPackageFine ==
    ASSUME NEW w, Fine(w, {}), NEW package \in DOMAIN Entry, NEW clearTask \in BOOLEAN, HasRoom(w)
    PROVE  Fine(StartPackage(w, package, clearTask), {})
<1> DEFINE ui == package \in SystemUI
           t == Find(w, ui, package)
           shown == IF t = 0 THEN StartActivityReal(w, Entry[package], TRUE, clearTask, FALSE)
                    ELSE IF ui THEN UiSwitchTaskToActive(w, t)
                    ELSE SwitchTaskToActive(w, t)
<1>1. w \in HeapType /\ ui \in BOOLEAN
  BY BaseFacts DEF Fine
<1>2. t # 0 => t \in Task /\ IF ui THEN t \in UiListed(w) ELSE t \in Listed(w)
  BY <1>1, FindFacts
<1>3. StartPackage(w, package, clearTask) = Started(shown, package)
  BY DEF StartPackage
<1>4. CASE t = 0
  <2>1. Entry[package] \in Name
    BY NameAssumption
  <2>2. Askable(w, Entry[package], TRUE)
    BY DEF Askable
  <2>3. Fine(shown, {})
    BY <1>4, <2>1, <2>2, StartRealFine
  <2>4. QED
    BY <2>3, <1>3, StartedFine
<1>5. CASE t # 0 /\ ui
  <2>1. t \in Task /\ Kept(w, t)
    BY <1>2, <1>5 DEF Kept
  <2>2. shown = UiChangeTask(w, t, RESUMED)
    BY <1>5 DEF UiSwitchTaskToActive
  <2> HIDE DEF t, shown
  <2>3. RESUMED \in Status
    BY DEF Status
  <2>4. Fine(shown, {})
    BY <2>1, <2>2, <2>3, UiChangeTaskFine
  <2>5. QED
    BY <2>4, <1>3, StartedFine
<1>6. CASE t # 0 /\ ~ui
  <2>1. t \in Listed(w)
    BY <1>2, <1>6
  <2>2. Fine(shown, {})
    BY <2>1, <1>6, SwitchFine
  <2>3. QED
    BY <2>2, <1>3, StartedFine
<1>7. QED
  BY <1>4, <1>5, <1>6

\* startHomeActivity() keeps the invariant.
LEMMA StartHomeFine ==
    ASSUME NEW w, Fine(w, {}), Active(w) = 0 => HasRoom(w)
    PROVE  Fine(StartHomeActivity(w), {})
BY StartPackageFine, HomeAssumption DEF StartHomeActivity
-----------------------------------------------------------------------------
(* The other requests, the processes and the clients.                       *)

\* moveTaskToBackground() of either manager keeps the invariant.
LEMMA MoveFine ==
    ASSUME NEW w, Fine(w, {}), NEW b \in BOOLEAN, NEW t \in Task, Kept(w, t)
    PROVE  Fine(MoveToBackground(w, b, t), {})
<1>1. STOPPED \in Status
  BY DEF Status
<1>2. QED
  BY <1>1, MoveTaskFine, UiChangeTaskFine DEF MoveToBackground, UiMoveTaskToBackground

\* The task of the active activity is kept.
LEMMA ActiveOfKept ==
    ASSUME NEW w, Fine(w, {}), NEW b \in BOOLEAN, ActiveOf(w, b) # 0
    PROVE  ActiveOf(w, b) \in Task /\ Kept(w, ActiveOf(w, b))
<1>1. w \in HeapType
  BY BaseFacts DEF Fine
<1>2. QED
  BY <1>1, ActiveOfFacts DEF Kept

\* Asking a process to end keeps the invariant.
LEMMA StopFine ==
    ASSUME NEW w, Fine(w, {}), NEW p \in Proc
    PROVE  Fine(StopApplication(w, p), {})
BY StopApplicationQuiet, QuietFine, BaseFacts DEF Fine

\* An intent for a system target finds the application of a root, if everybody is careful.
LEMMA TargetFine ==
    ASSUME NEW w, Fine(w, {}), NEW target \in {"TOP_RESUME", "FOREGROUND", "HOME"}
    PROVE  Fine(FindSystemTarget(w, target), {})
<1> DEFINE t == CASE target = "TOP_RESUME" -> 0
                  [] target = "FOREGROUND" -> Active(w)
                  [] target = "HOME" -> w.mHomeTask
<1>1. w \in HeapType /\ Base(w) /\ CountedBut(w, {})
  BY BaseFacts DEF Fine
<1>2. t = 0 \/ t = Active(w) \/ t = w.mHomeTask
  OBVIOUS
<1>3. FindSystemTarget(w, target) =
          IF t = 0 THEN w
          ELSE IF w.stack[t] = <<>> \/ Freed(w, Head(w.stack[t])) THEN Undefined(w)
          ELSE w
  BY DEF FindSystemTarget
<1> HIDE DEF t
<1>4. ASSUME FinishOnce, HomeStays, t # 0
      PROVE  ~(w.stack[t] = <<>> \/ Freed(w, Head(w.stack[t])))
  <2>1. NonEmpty(w) /\ HomeListed(w)
    BY <1>4 DEF Fine, Tidy
  <2>2. t \in Listed(w) /\ t \in Task
    BY <1>1, <1>2, <1>4, <2>1, ActiveFacts, BaseFacts DEF HomeListed
  <2>3. w.stack[t] # <<>> /\ w.stack[t] \in Seq(Activity) /\ Kept(w, t)
    BY <1>1, <2>1, <2>2, HeapParts DEF NonEmpty, Kept
  <2>4. Head(w.stack[t]) \in On(w, t)
    BY <2>3, ElementsFacts DEF On
  <2>5. QED
    BY <1>1, <2>2, <2>3, <2>4, KeptFacts
<1>5. QED
  BY <1>3, <1>4, UndefinedFine

\* What is left of the launches when one of them goes on.
LEMMA LaunchRemoved ==
    ASSUME NEW w, Base(w), NEW i \in DOMAIN w.launch
    PROVE  LET q == RemoveAt(w.launch, i)
               l == w.launch[i]
           IN /\ q \in Seq(LaunchType) /\ ToSet(q) \subseteq ToSet(w.launch)
              /\ l \in LaunchType /\ l \in ToSet(w.launch)
              /\ \A m \in ToSet(q) : m.activity # l.activity
              /\ \A j, k \in DOMAIN q : q[j].activity = q[k].activity => j = k
<1> DEFINE q == RemoveAt(w.launch, i)
           l == w.launch[i]
           At(k) == IF k < i THEN k ELSE k + 1
<1>1. /\ w.launch \in Seq(LaunchType) /\ Len(w.launch) \in Nat /\ DOMAIN w.launch = 1..Len(w.launch)
      /\ i \in 1..Len(w.launch)
      /\ \A k \in 1..Len(w.launch) : w.launch[k] \in LaunchType /\ w.launch[k] \in ToSet(w.launch)
  BY BaseFacts, HeapParts, ElementsFacts
<1>2. \A j, k \in 1..Len(w.launch) : w.launch[j].activity = w.launch[k].activity => j = k
  BY <1>1 DEF Base, Launches
<1>3. /\ q \in Seq(LaunchType) /\ Len(q) = Len(w.launch) - 1
      /\ \A k \in 1..(Len(w.launch) - 1) : q[k] = IF k < i THEN w.launch[k] ELSE w.launch[k + 1]
  BY <1>1, RemoveAtFacts
<1> HIDE DEF q
<1>4. DOMAIN q = 1..(Len(w.launch) - 1)
  BY <1>3, ElementsFacts
<1>5. \A k \in DOMAIN q : At(k) \in 1..Len(w.launch) /\ At(k) # i /\ q[k] = w.launch[At(k)]
  BY <1>1, <1>3, <1>4
<1>6. \A j, k \in DOMAIN q : At(j) = At(k) => j = k
  BY <1>1, <1>4
<1> HIDE DEF At
<1>7. \A m \in ToSet(q) : \E k \in DOMAIN q : m = q[k]
  BY DEF ToSet
<1>8. ToSet(q) \subseteq ToSet(w.launch)
  BY <1>1, <1>5, <1>7
<1>9. \A m \in ToSet(q) : m.activity # l.activity
  BY <1>1, <1>2, <1>5, <1>7
<1>10. \A j, k \in DOMAIN q : q[j].activity = q[k].activity => j = k
  BY <1>2, <1>5, <1>6
<1>11. QED
  BY <1>1, <1>3, <1>8, <1>9, <1>10 DEF q

\* The process of a waiting launch attaches: its activity belongs to it from now on.
LEMMA AttachedFine ==
    ASSUME NEW w, Fine(w, {}), NEW p \in Proc, w.proc[p].mStatus = "ATTACHING", NEW i \in DOMAIN w.launch
    PROVE  LET l == w.launch[i]
               v == [w EXCEPT !.proc[p].mStatus = "RUNNING",
                              !.launch = RemoveAt(@, i),
                              !.act[l.activity].mApp = p]
           IN Fine(v, {}) /\ Pushable(v, l.task, l.activity)
<1> DEFINE l == w.launch[i]
           x == l.activity
           q == RemoveAt(w.launch, i)
           y == [w.proc[p] EXCEPT !.mStatus = "RUNNING"]
           a == [w.act[x] EXCEPT !.mApp = p]
           v == [w EXCEPT !.proc[p] = y, !.launch = q, !.act[x] = a]
<1>1. w \in HeapType /\ Base(w) /\ CountedBut(w, {}) /\ Low(w)
  BY BaseFacts DEF Fine
<1>2. /\ q \in Seq(LaunchType) /\ ToSet(q) \subseteq ToSet(w.launch)
      /\ l \in LaunchType /\ l \in ToSet(w.launch)
      /\ \A m \in ToSet(q) : m.activity # x
      /\ \A j, k \in DOMAIN q : q[j].activity = q[k].activity => j = k
  BY <1>1, LaunchRemoved
<1>3. x \in Activity /\ l.task \in Task /\ p \in 0..MaxProcs /\ p # 0
  BY <1>2, BoundsAssumption DEF LaunchType, Proc
<1>4. AppOf(w, x) = 0 /\ w.act[x].mInTask = l.task /\ x <= w.activities /\ w.act[x].mStatus = INIT
  BY <1>1, <1>2, <1>3 DEF Base, Launches, Low, ActsOK
<1>5. [w EXCEPT !.proc[p].mStatus = "RUNNING", !.launch = RemoveAt(@, i), !.act[l.activity].mApp = p] = v
  BY <1>1 DEF HeapType
<1> HIDE DEF q
<1>6. /\ y \in ProcType /\ y.mStatus = "RUNNING" /\ y.mExistActivity = w.proc[p].mExistActivity
      /\ y.sent = w.proc[p].sent
  BY <1>1, HeapParts, ZenonT(30) DEF ProcType
<1>7. /\ a \in ActivityType /\ a.mApp = p /\ a.name = w.act[x].name /\ a.mInTask = l.task
              /\ a.mStatus = INIT
  <2>1. w.act[x] \in ActivityType
    BY <1>1, <1>3, HeapParts
  <2> HIDE DEF x, l
  <2>2. QED
    BY <2>1, <1>3, <1>4 DEF ActivityType
<1> HIDE DEF y, a, l, x
<1>8. /\ v \in HeapType /\ v.act = [w.act EXCEPT ![x] = a] /\ v.proc = [w.proc EXCEPT ![p] = y]
      /\ v.launch = q /\ v.activities = w.activities /\ v.tasks = w.tasks /\ v.procs = w.procs
      /\ v.pend = w.pend /\ v.undefined = w.undefined /\ SameTasks(w, v)
  BY <1>1, <1>2, <1>3, <1>6, <1>7 DEF HeapType, SameTasks
<1> HIDE DEF v
<1>9. /\ v.act[x] = a /\ \A z \in Activity : z # x => v.act[z] = w.act[z]
      /\ v.proc[p] = y /\ \A r \in Proc : r # p => v.proc[r] = w.proc[r]
  BY <1>1, <1>3, <1>8, HeapParts
<1>10. /\ \A z \in Activity : v.act[z].name = w.act[z].name /\ v.act[z].mInTask = w.act[z].mInTask
       /\ \A z \in Activity : v.act[z].mStatus = w.act[z].mStatus
       /\ \A z \in Activity : AppOf(w, z) # 0 => z # x /\ AppOf(v, z) = AppOf(w, z)
       /\ \A z \in Activity : z # x => AppOf(v, z) = AppOf(w, z)
       /\ AppOf(v, x) = p
       /\ \A r \in Proc : Exist(v, r) = Exist(w, r) /\ v.proc[r].sent = w.proc[r].sent
       /\ \A r \in Proc : v.proc[r].mStatus = w.proc[r].mStatus \/ r = p
       /\ v.proc[p].mStatus = "RUNNING"
       /\ \A t \in Task : On(v, t) = On(w, t)
       /\ Listed(v) = Listed(w) /\ UiListed(v) = UiListed(w)
  BY <1>4, <1>6, <1>7, <1>8, <1>9 DEF AppOf, Exist, On, Listed, UiListed, SameTasks
<1>11. Low(v)
  <2>1. ActsOK(v)
    <3>1. ASSUME NEW z \in Activity
          PROVE  /\ v.act[z].mStatus >= INIT
                 /\ AppOf(v, z) = 0 => v.act[z].mStatus = INIT
                 /\ AppOf(v, z) # 0
                               => v.proc[AppOf(v, z)].mStatus \in {"RUNNING", "STOPPING", "STOPPED"}
      <4>1. CASE z = x
        BY <4>1, <1>3, <1>4, <1>10
      <4>2. CASE z # x
        <5>1. AppOf(w, z) # 0 => AppOf(w, z) \in Proc
          BY <1>1, AppFacts
        <5>2. QED
          BY <4>2, <5>1, <1>1, <1>10 DEF Low, ActsOK
      <4>3. QED
        BY <4>1, <4>2
    <3>2. QED
      BY <3>1 DEF ActsOK
  <2>2. ASSUME NEW r \in Proc PROVE ProcOK(v, r)
    <3>1. ProcOK(w, r) /\ r # 0 /\ w.proc[r] \in ProcType
      BY <1>1, HeapParts, BoundsAssumption DEF Low, Proc
    <3>2. v.proc[r].mStatus = "STOPPED" => v.proc[r].mExistActivity = <<>>
      BY <3>1, <1>6, <1>9, <1>10 DEF ProcOK
    <3>3. Exist(w, r) \subseteq Activity
      BY <3>1, ProcParts, ElementsFacts DEF Exist
    <3>4. \A z \in Exist(v, r) : AppOf(v, z) = r
      BY <3>1, <3>3, <1>10 DEF ProcOK
    <3>5. \A c \in ToSet(w.proc[r].sent) : c[1] \in Steps => c[2] \in Activity
      <4>1. ToSet(w.proc[r].sent) \subseteq Calls
        BY <3>1, ProcParts, ElementsFacts
      <4>2. QED
        BY <4>1 DEF Calls, Steps
    <3>6. \A c \in ToSet(v.proc[r].sent) : c[1] \in Steps =>
              AppOf(v, c[2]) = r /\ (c[1] = "CREATE" => v.act[c[2]].mStatus > INIT)
      BY <3>1, <3>5, <1>10 DEF ProcOK
    <3>7. CreatesOnce(v.proc[r].sent)
      BY <3>1, <1>10 DEF ProcOK
    <3>8. QED
      BY <3>2, <3>4, <3>6, <3>7 DEF ProcOK
  <2>3. PendOK(v)
    <3>1. \A e \in ToSet(w.pend) : e.of \in Activity /\ (e.other # 0 => e.other \in Activity)
      BY <1>1, PendParts
    <3>2. PendOK(w)
      BY <1>1 DEF Low
    <3>3. QED
      BY <3>1, <3>2, <1>8, <1>10 DEF PendOK
  <2>4. QED
    BY <2>1, <2>2, <2>3, <1>8 DEF Low
<1>12. Numbered(v)
  <2>1. Made(v) = Made(w) /\ Made(w) \subseteq Activity /\ Numbered(w)
    BY <1>1, <1>8, BaseFacts DEF Made, Base
  <2>2. \A z \in Activity : AppOf(v, z) # 0 => z <= v.activities
    BY <2>1, <1>4, <1>8, <1>10 DEF Numbered
  <2>3. \A z \in Made(v) : v.act[z].name \in Name /\ v.act[z].mInTask \in 1..v.tasks
    BY <2>1, <1>8, <1>10 DEF Numbered
  <2>4. \A r \in Proc : r > v.procs => v.proc[r].mStatus = "NONE"
    BY <2>1, <1>8, <1>10 DEF Numbered
  <2>5. QED
    BY <2>1, <2>2, <2>3, <2>4, <1>8, <1>10 DEF Numbered, SameTasks
<1>13. Placed(v)
  <2>1. \A t \in Task : On(w, t) \subseteq Activity
    BY <1>1, OnFacts
  <2>2. Placed(w)
    BY <1>1 DEF Base
  <2>3. QED
    BY <2>1, <2>2, <1>8, <1>10 DEF Placed, SameTasks
<1>14. Launches(v)
  <2>1. ASSUME NEW m \in ToSet(q)
        PROVE  /\ m.activity <= v.activities /\ AppOf(v, m.activity) = 0
               /\ v.act[m.activity].mInTask = m.task
    <3>1. m \in ToSet(w.launch) /\ m.activity # x /\ m \in LaunchType
      BY <2>1, <1>2, ElementsFacts DEF x
    <3>2. m.activity \in Activity
      BY <3>1 DEF LaunchType
    <3>3. QED
      BY <3>1, <3>2, <1>1, <1>8, <1>10 DEF Base, Launches
  <2>2. QED
    BY <2>1, <1>2, <1>8 DEF Launches
<1>15. Kinds(v)
  <2>1. Made(v) = Made(w) /\ Made(w) \subseteq Activity /\ Kinds(w)
    BY <1>1, <1>8, BaseFacts DEF Made, Base
  <2>2. \A z \in Made(w) : IsSystemUI(v, z) = IsSystemUI(w, z)
                /\ v.act[z].mInTask = w.act[z].mInTask
    BY <2>1, <1>10 DEF IsSystemUI
  <2>3. QED
    BY <2>1, <2>2, <1>10 DEF Kinds
<1>16. CountedBut(v, {})
  <2>1. \A t \in Task : Kept(v, t) => Kept(w, t)
    BY <1>2, <1>8, <1>10 DEF Kept, SameTasks
  <2>2. ASSUME NEW t \in Task, Kept(v, t), NEW z \in On(v, t) PROVE z \in Exist(v, AppOf(v, z))
    <3>1. z \in Activity /\ AppOf(w, z) # 0 /\ z \in Exist(w, AppOf(w, z))
      BY <2>1, <2>2, <1>1, <1>10, KeptFacts
    <3>2. AppOf(w, z) \in Proc
      BY <3>1, <1>1, AppFacts
    <3>3. QED
      BY <3>1, <3>2, <1>10
  <2>3. QED
    BY <2>2 DEF CountedBut
<1>17. Tidy(v) /\ Careful(v)
  <2>1. Tidy(w) /\ Careful(w)
    BY DEF Fine
  <2>2. QED
    BY <2>1, <1>8, SameShrinks DEF Careful
<1>18. Pushable(v, l.task, x)
  <2>1. x \in Made(v) /\ ~Freed(v, x) /\ AppOf(v, x) # 0
    BY <1>3, <1>4, <1>8, <1>10, BaseFacts, <1>1 DEF Made, Freed, AppOf, Activity
  <2>2. \A t \in Task : x \notin On(v, t)
    BY <1>1, <1>4, <1>10, BaseFacts
  <2>3. ASSUME NEW z \in On(v, l.task) PROVE z \in Exist(v, AppOf(v, z))
    <3>1. Kept(w, l.task)
      BY <1>2 DEF Kept
    <3>2. z \in Activity /\ AppOf(w, z) # 0 /\ z \in Exist(w, AppOf(w, z))
      BY <3>1, <2>3, <1>1, <1>3, <1>10, KeptFacts
    <3>3. AppOf(w, z) \in Proc
      BY <3>2, <1>1, AppFacts
    <3>4. QED
      BY <3>2, <3>3, <1>10
  <2>4. v.act[x].mStatus = INIT /\ v.act[x].mInTask = l.task
    BY <1>7, <1>9
  <2>5. QED
    BY <2>1, <2>2, <2>3, <2>4, <1>3 DEF Pushable
<1>19. QED
  BY <1>5, <1>11, <1>12, <1>13, <1>14, <1>15, <1>16, <1>17, <1>18 DEF Base, Fine, l, x

\* The client takes a call.
LEMMA TakenCall ==
    ASSUME NEW w, Fine(w, {}), NEW p \in Proc, w.proc[p].sent # <<>>
    PROVE  LET c == Head(w.proc[p].sent)
               v == [w EXCEPT !.proc[p].sent = Tail(@)]
           IN /\ Fine(v, {})
              /\ c[1] \in Steps => c[2] \in Activity /\ AppOf(v, c[2]) # 0
              /\ c[1] = "CREATE" => Answered(v, c[2])
<1> DEFINE q == w.proc[p].sent
           c == Head(q)
           y == [w.proc[p] EXCEPT !.sent = Tail(q)]
           v == [w EXCEPT !.proc[p] = y]
<1>1. Low(w) /\ w \in HeapType /\ w.proc[p] \in ProcType /\ ProcOK(w, p) /\ p # 0
  BY BaseFacts, HeapParts, BoundsAssumption DEF Fine, Low, Proc
<1>2. q \in Seq(Calls) /\ c \in ToSet(q) /\ c \in Calls /\ Tail(q) \in Seq(Calls)
              /\ ToSet(Tail(q)) \subseteq ToSet(q)
  BY <1>1, ProcParts, TailFacts
<1>3. CreatesOnce(Tail(q)) /\ (c[1] = "CREATE" => c \notin ToSet(Tail(q)))
  BY <1>1, <1>2, CreatesOnceFacts DEF ProcOK
<1>4. y \in ProcType /\ y.mStatus = w.proc[p].mStatus /\ y.mExistActivity = w.proc[p].mExistActivity
      /\ y.sent = Tail(q)
  BY <1>1, <1>2 DEF ProcType
<1>5. [w EXCEPT !.proc[p].sent = Tail(@)] = v
  BY <1>1, HeapParts
<1> HIDE DEF y
<1>6. /\ v \in HeapType /\ SameButProc(w, v) /\ v.proc[p] = y
      /\ \A r \in Proc : r # p => v.proc[r] = w.proc[r]
  BY <1>1, <1>4, ProcSet
<1> HIDE DEF v
<1>7. v.act = w.act /\ v.undefined = w.undefined
  BY <1>6 DEF SameButProc
<1>8. ProcOK(v, p)
  BY <1>1, <1>2, <1>3, <1>4, <1>6, <1>7 DEF ProcOK, Exist, AppOf
<1>9. Quiet(w, v)
  BY <1>1, <1>4, <1>6, <1>7, <1>8, ProcChange DEF Quiet, Exist
<1>10. Fine(v, {})
  BY <1>9, QuietFine
<1>11. c[1] \in Steps => c[2] \in Activity /\ AppOf(w, c[2]) = p
  BY <1>1, <1>2 DEF Calls, Steps, ProcOK
<1>12. ASSUME c[1] = "CREATE" PROVE Answered(v, c[2])
  <2>1. c[1] \in Steps /\ w.act[c[2]].mStatus > INIT /\ c = <<"CREATE", c[2]>>
    BY <1>1, <1>2, <1>12 DEF Calls, Steps, ProcOK
  <2>2. ASSUME NEW r \in Proc PROVE c \notin ToSet(v.proc[r].sent)
    <3>1. CASE r = p
      BY <3>1, <1>3, <1>4, <1>6, <1>12
    <3>2. CASE r # p
      <4>1. ProcOK(w, r)
        BY <1>1 DEF Low
      <4>2. QED
        BY <3>2, <4>1, <2>1, <1>6, <1>11 DEF ProcOK
    <3>3. QED
      BY <3>1, <3>2
  <2>3. QED
    BY <2>1, <2>2, <1>7 DEF Answered
<1>13. QED
  BY <1>1, <1>5, <1>7, <1>10, <1>11, <1>12 DEF AppOf

\* The client begins to end.
LEMMA TerminatingFine ==
    ASSUME NEW w, Fine(w, {}), NEW p \in Proc
    PROVE  Fine([w EXCEPT !.proc[p].terminating = TRUE], {})
<1> DEFINE y == [w.proc[p] EXCEPT !.terminating = TRUE]
           v == [w EXCEPT !.proc[p] = y]
<1>1. Low(w) /\ w \in HeapType /\ w.proc[p] \in ProcType /\ ProcOK(w, p)
  BY BaseFacts, HeapParts DEF Fine, Low
<1>2. y \in ProcType /\ y.mStatus = w.proc[p].mStatus /\ y.mExistActivity = w.proc[p].mExistActivity
      /\ y.sent = w.proc[p].sent
  BY <1>1 DEF ProcType
<1>3. [w EXCEPT !.proc[p].terminating = TRUE] = v
  OBVIOUS
<1> HIDE DEF y
<1>4. /\ v \in HeapType /\ SameButProc(w, v) /\ v.proc[p] = y
      /\ \A r \in Proc : r # p => v.proc[r] = w.proc[r]
  BY <1>1, <1>2, ProcSet
<1> HIDE DEF v
<1>5. v.act = w.act /\ v.undefined = w.undefined
  BY <1>4 DEF SameButProc
<1>6. ProcOK(v, p)
  BY <1>1, <1>2, <1>4, <1>5 DEF ProcOK, Exist, AppOf
<1>7. Quiet(w, v)
  BY <1>1, <1>2, <1>4, <1>5, <1>6, ProcChange DEF Quiet, Exist
<1>8. QED
  BY <1>3, <1>7, QuietFine

\* A process ends before it has attached: no activity is its own.
LEMMA UnattachedFine ==
    ASSUME NEW w, Fine(w, {}), NEW p \in Proc, w.proc[p].mStatus = "ATTACHING"
    PROVE  Fine([w EXCEPT !.proc[p].mStatus = "STOPPED"], {})
<1> DEFINE y == [w.proc[p] EXCEPT !.mStatus = "STOPPED"]
           v == [w EXCEPT !.proc[p] = y]
<1>1. Low(w) /\ w \in HeapType /\ w.proc[p] \in ProcType /\ ProcOK(w, p) /\ p # 0
  BY BaseFacts, HeapParts, BoundsAssumption DEF Fine, Low, Proc
<1>2. /\ y \in ProcType /\ y.mStatus = "STOPPED" /\ y.mExistActivity = w.proc[p].mExistActivity
      /\ y.sent = w.proc[p].sent
  BY <1>1 DEF ProcType
<1>3. \A x \in Activity : AppOf(w, x) # p
  BY <1>1 DEF Low, ActsOK
<1>4. w.proc[p].mExistActivity = <<>> /\ Exist(w, p) = {}
  <2>1. w.proc[p].mExistActivity \in Seq(Activity) /\ Exist(w, p) \subseteq Activity
    BY <1>1, ProcParts, ElementsFacts DEF Exist
  <2>2. Exist(w, p) = {}
    BY <2>1, <1>1, <1>3 DEF ProcOK
  <2>3. QED
    BY <2>1, <2>2, ElementsFacts DEF Exist
<1>5. [w EXCEPT !.proc[p].mStatus = "STOPPED"] = v
  OBVIOUS
<1> HIDE DEF y
<1>6. /\ v \in HeapType /\ SameButProc(w, v) /\ v.proc[p] = y
      /\ \A r \in Proc : r # p => v.proc[r] = w.proc[r]
  BY <1>1, <1>2, ProcSet
<1> HIDE DEF v
<1>7. v.act = w.act /\ v.undefined = w.undefined /\ v.pend = w.pend /\ SameTasks(w, v)
      /\ Exist(v, p) = {}
  BY <1>2, <1>4, <1>6 DEF SameButProc, SameTasks, Exist
<1>8. ActsOK(v)
  <2>1. \A x \in Activity : AppOf(v, x) = AppOf(w, x) /\ v.act[x].mStatus = w.act[x].mStatus
    BY <1>7 DEF AppOf
  <2>2. \A x \in Activity : AppOf(w, x) # 0 =>
            v.proc[AppOf(w, x)].mStatus \in {"RUNNING", "STOPPING", "STOPPED"}
    BY <1>1, <1>3, <1>6, AppFacts
  <2>3. QED
    BY <2>1, <2>2, <1>1 DEF Low, ActsOK
<1>9. ASSUME NEW r \in Proc PROVE ProcOK(v, r)
  <2>1. ProcOK(w, r)
    BY <1>1 DEF Low
  <2>2. CASE r = p
    BY <2>1, <2>2, <1>2, <1>4, <1>6, <1>7 DEF ProcOK, AppOf
  <2>3. CASE r # p
    BY <2>1, <2>3, <1>6, <1>7 DEF ProcOK, AppOf, Exist
  <2>4. QED
    BY <2>2, <2>3
<1>10. PendOK(v)
  BY <1>1, <1>7 DEF Low, PendOK, AppOf
<1>11. Low(v)
  BY <1>6, <1>8, <1>9, <1>10 DEF Low
<1>12. Loose(w, v, {})
  <2>1. \A r \in Proc : /\ w.proc[r].mStatus = "NONE" => v.proc[r].mStatus = "NONE"
                        /\ Exist(w, r) \ {} \subseteq Exist(v, r)
    BY <1>4, <1>6, <1>7 DEF Exist
  <2>2. QED
    BY <2>1, <1>6, <1>7 DEF Loose, SameButProc
<1>13. Careful(v)
  BY <1>7 DEF Careful, Fine
<1>14. Fine(v, {} \union {})
  BY <1>7, <1>11, <1>12, <1>13, LooseFine
<1>15. QED
  BY <1>5, <1>14
-----------------------------------------------------------------------------
(* The actions keep the invariant.                                          *)

\* A token is that of an activity of a process that has not ended.
LEMMA TokenFacts ==
    ASSUME Fine(am, {}), NEW x \in Activity, HasToken(x) \/ HasName(x)
    PROVE  AppOf(am, x) # 0 /\ AppOf(am, x) \in Proc /\ ~Freed(am, x)
<1>1. Low(am) /\ am \in HeapType
  BY BaseFacts DEF Fine
<1>2. CASE HasToken(x)
  BY <1>1, <1>2, AppFacts DEF HasToken, Freed, AppOf
<1>3. CASE HasName(x)
  <2>1. PICK p \in Proc :
            LET exist == am.proc[p].mExistActivity
                named == SelectInSeq(exist, LAMBDA y : am.act[y].name = am.act[x].name)
            IN am.proc[p].mStatus = "RUNNING" /\ named # 0 /\ exist[named] = x
    BY <1>3 DEF HasName
  <2> DEFINE exist == am.proc[p].mExistActivity
             named == FirstNamed(am, exist, am.act[x].name)
  <2>2. named # 0 /\ exist[named] = x
    BY <2>1 DEF FirstNamed
  <2>3. exist \in Seq(Activity) /\ ProcOK(am, p) /\ p # 0
    BY <1>1, HeapParts, ProcParts, BoundsAssumption DEF Low, Proc
  <2>4. x \in ToSet(exist)
    <3> DEFINE n == am.act[x].name
    <3>1. FirstNamed(am, exist, n) # 0 /\ exist[FirstNamed(am, exist, n)] = x
      BY <2>2
    <3> HIDE DEF exist, n
    <3>2. QED
      BY <3>1, <2>3, NamedFacts
  <2>5. x \in Exist(am, p)
    BY <2>4 DEF Exist
  <2>6. AppOf(am, x) = p
    BY <2>3, <2>5 DEF ProcOK
  <2>7. QED
    BY <1>1, <2>3, <2>5, <2>6, AppFacts
<1>4. QED
  BY <1>2, <1>3

\* systemReady()
LEMMA BootFine ==
    ASSUME Fine(am, {}), Boot
    PROVE  Fine(am', {})
<1>1. am.procs = 0 /\ am.activities = 0 /\ am.tasks = 0
  BY DEF Boot, Fine, Base, Numbered
<1>2. HasRoom(am)
  BY <1>1, BoundsAssumption DEF HasRoom
<1>3. QED
  BY <1>2, StartHomeFine DEF Boot

\* startActivity()
LEMMA StartFine ==
    ASSUME Fine(am, {}), Start
    PROVE  Fine(am', {})
<1>1. HasRoom(am) /\ (HomeStays => am.mHomeTask # 0)
  BY DEF Start
<1>2. ASSUME NEW clearTask \in BOOLEAN, NEW package \in DOMAIN Entry, am' = StartPackage(am, package, clearTask)
      PROVE  Fine(am', {})
  BY <1>1, <1>2, StartPackageFine
<1>3. ASSUME NEW clearTask \in BOOLEAN, NEW n \in Name, NEW anew \in BOOLEAN, NEW clearTop \in BOOLEAN,
             ~anew => (UiNewTask => Package[n] \notin SystemUI),
             am' = StartName(am, n, anew, clearTask, clearTop)
      PROVE  Fine(am', {})
  BY <1>1, <1>3, StartNameFine DEF Askable
<1>4. QED
  BY <1>2, <1>3 DEF Start

\* finishActivity()
LEMMA FinishActionFine ==
    ASSUME Fine(am, {}), NEW x \in Activity, Finish(x)
    PROVE  Fine(am', {})
<1>1. AppOf(am, x) # 0 /\ ~Freed(am, x)
  BY TokenFacts DEF Finish
<1>2. am \in HeapType
  BY BaseFacts DEF Fine
<1>3. CASE IsSystemUI(am, x)
  <2>1. DESTROYED \in Status
    BY DEF Status
  <2>2. QED
    BY <1>1, <1>3, <2>1, UiChangeFine DEF Finish, UiFinishActivity
<1>4. CASE ~IsSystemUI(am, x)
  <2>1. FinishOnce => \E t \in Task : x \in On(am, t)
    BY <1>2, HeapParts, ElementsFacts DEF Finish, On
  <2>2. HomeStays => ~(/\ TaskOf(am, x) = am.mHomeTask
                       /\ Active(am) # am.mHomeTask
                       /\ Place(am.stack[am.mHomeTask], x) = 1)
    BY DEF Finish, EndsHome
  <2>3. QED
    BY <1>1, <1>4, <2>1, <2>2, FinishFine DEF Finish
<1>5. QED
  BY <1>3, <1>4

\* moveActivityTaskToBackground()
LEMMA MoveActionFine ==
    ASSUME Fine(am, {}), NEW x \in Activity, MoveActivityTaskToBackground(x)
    PROVE  Fine(am', {})
<1>1. am \in HeapType /\ TaskOf(am, x) # 0
  BY BaseFacts DEF Fine, MoveActivityTaskToBackground
<1>2. TaskOf(am, x) \in Task /\ Kept(am, TaskOf(am, x)) /\ IsSystemUI(am, x) \in BOOLEAN
  BY <1>1, TaskOfFacts DEF IsSystemUI
<1>3. QED
  BY <1>2, MoveFine DEF MoveActivityTaskToBackground

\* stopActivity() of a package
LEMMA StopPackageFine ==
    ASSUME Fine(am, {}), NEW p \in Proc, StopPackage(p)
    PROVE  Fine(am', {})
<1> DEFINE isSystemUI == am.proc[p].package \in SystemUI
           active == ActiveOf(am, isSystemUI)
           left == IF active # 0 /\ am.tag[active] = am.proc[p].package
                   THEN MoveToBackground(am, isSystemUI, active) ELSE am
<1>1. isSystemUI \in BOOLEAN
  OBVIOUS
<1>2. Fine(left, {})
  <2> HIDE DEF isSystemUI
  <2>1. QED
    BY <1>1, ActiveOfKept, MoveFine
<1>3. am' = left \/ am' = StopApplication(left, p)
  BY DEF StopPackage
<1> HIDE DEF left
<1>4. QED
  BY <1>2, <1>3, StopFine

\* stopApplication()
LEMMA StopByTokenFine ==
    ASSUME Fine(am, {}), NEW x \in Activity, StopByToken(x)
    PROVE  Fine(am', {})
<1> DEFINE t == TaskOf(am, x)
           isSystemUI == IsSystemUI(am, x)
           left == IF t # 0 /\ t = ActiveOf(am, isSystemUI)
                   THEN MoveToBackground(am, isSystemUI, t) ELSE am
<1>1. isSystemUI \in BOOLEAN /\ AppOf(am, x) \in Proc
  BY TokenFacts DEF IsSystemUI, StopByToken
<1>2. Fine(left, {})
  <2> HIDE DEF isSystemUI
  <2>1. QED
    BY <1>1, ActiveOfKept, MoveFine
<1>3. am' = StopApplication(left, AppOf(am, x))
  BY DEF StopByToken, AppOf
<1> HIDE DEF left
<1>4. QED
  BY <1>1, <1>2, <1>3, StopFine

\* postIntent() to a system target
LEMMA PostFine ==
    ASSUME Fine(am, {}), PostIntent
    PROVE  Fine(am', {})
<1>1. PICK target \in {"TOP_RESUME", "FOREGROUND", "HOME"} : am' = FindSystemTarget(am, target)
  BY DEF PostIntent
<1>2. QED
  BY <1>1, TargetFine

\* attachApplication()
LEMMA AppAttachedFine ==
    ASSUME Fine(am, {}), NEW p \in Proc, AppAttached(p)
    PROVE  Fine(am', {})
<1>1. PICK i \in DOMAIN am.launch :
          LET l == am.launch[i]
              attached == [am EXCEPT !.proc[p].mStatus = "RUNNING",
                                     !.launch = RemoveAt(@, i),
                                     !.act[l.activity].mApp = p]
          IN am' = Push(attached, l.task, l.activity, l.clear)
  BY DEF AppAttached
<1> DEFINE l == am.launch[i]
           attached == [am EXCEPT !.proc[p].mStatus = "RUNNING",
                                  !.launch = RemoveAt(@, i),
                                  !.act[l.activity].mApp = p]
<1>2. Fine(attached, {}) /\ Pushable(attached, l.task, l.activity)
  BY AttachedFine DEF AppAttached
<1>3. l.clear \in BOOLEAN
  BY LaunchRemoved DEF Fine, LaunchType
<1>4. am' = Push(attached, l.task, l.activity, l.clear)
  BY <1>1
<1> HIDE DEF attached, l
<1>5. QED
  BY <1>2, <1>3, <1>4, PushFine

\* A client takes a call.
LEMMA DeliverFine ==
    ASSUME Fine(am, {}), NEW p \in Proc, Deliver(p)
    PROVE  Fine(am', {})
<1> DEFINE c == Head(am.proc[p].sent)
           step == c[1]
           x == c[2]
           taken == [am EXCEPT !.proc[p].sent = Tail(@)]
<1>1. \/ step \in Steps /\ (am' = Perform(taken, x, Done(step)) \/ am' = taken)
      \/ step = "CREATE" /\ (am' = ReportActivityStatus(taken, x, ERROR) \/ am' = taken)
      \/ am' = [taken EXCEPT !.proc[p].terminating = TRUE]
  BY DEF Deliver
<1>2. /\ Fine(taken, {})
      /\ step \in Steps => x \in Activity /\ AppOf(taken, x) # 0
      /\ step = "CREATE" => Answered(taken, x)
  BY TakenCall DEF Deliver
<1>3. step \in Steps => Done(step) \in Reports
  BY DEF Steps, Done, Doing, Reports
<1>4. "CREATE" \in Steps
  BY DEF Steps
<1> HIDE DEF c, taken
<1>5. CASE step \in Steps /\ am' = Perform(taken, x, Done(step))
  BY <1>2, <1>3, <1>5, PerformFine
<1>6. CASE step = "CREATE" /\ am' = ReportActivityStatus(taken, x, ERROR)
  BY <1>2, <1>4, <1>6, ReportFine
<1>7. CASE am' = [taken EXCEPT !.proc[p].terminating = TRUE]
  BY <1>2, <1>7, TerminatingFine
<1>8. CASE am' = taken
  BY <1>2, <1>8
<1>9. QED
  BY <1>1, <1>5, <1>6, <1>7, <1>8

\* A client destroys one of its activities when it ends.
LEMMA TeardownFine ==
    ASSUME Fine(am, {}), NEW p \in Proc, Teardown(p)
    PROVE  Fine(am', {})
<1>1. PICK x \in Clients(p) :
          LET left == IF am.act[x].client \in STARTED..PAUSED THEN <<STOPPED, DESTROYED>>
                      ELSE <<DESTROYED>>
          IN am' = Performs(am, left, x)
  BY DEF Teardown, Performs
<1> DEFINE left == IF am.act[x].client \in STARTED..PAUSED THEN <<STOPPED, DESTROYED>>
                   ELSE <<DESTROYED>>
<1>2. left \in Seq(Reports)
  <2>1. \A a, b \in Reports : <<a, b>> \in Seq(Reports) /\ <<a>> \in Seq(Reports)
    OBVIOUS
  <2>2. STOPPED \in Reports /\ DESTROYED \in Reports
    BY DEF Reports
  <2>3. QED
    BY <2>1, <2>2
<1>3. x \in Activity /\ AppOf(am, x) # 0
  BY BoundsAssumption DEF Clients, AppOf, Proc
<1> HIDE DEF left
<1>4. QED
  BY <1>1, <1>2, <1>3, PerformsFine DEF left

\* A process ends.
LEMMA AppTerminatedFine ==
    ASSUME Fine(am, {}), NEW p \in Proc, AppTerminated(p)
    PROVE  Fine(am', {})
<1> DEFINE ended == IF Alive(p) THEN ProcAppTerminated(am, p)
                    ELSE [am EXCEPT !.proc[p].mStatus = "STOPPED"]
<1>1. Active(ended) = 0 => HasRoom(ended)
  BY DEF AppTerminated
<1>2. am' = StartHomeActivity(ended)
  BY DEF AppTerminated
<1>3. Fine(ended, {})
  BY TerminatedFine, UnattachedFine DEF AppTerminated, Alive
<1> HIDE DEF ended
<1>4. QED
  BY <1>1, <1>2, <1>3, StartHomeFine

\* A pending task is over its time.
LEMMA PendTimeoutFine ==
    ASSUME Fine(am, {}), PendTimeout
    PROVE  Fine(am', {})
<1>1. Low(am) /\ am.pend \in Seq(PendType) /\ am.pend # <<>>
  BY BaseFacts, HeapParts DEF Fine, PendTimeout
<1>2. Head(am.pend) \in ToSet(am.pend) /\ Head(am.pend) \in PendType /\ 1 \in 1..Len(am.pend)
  BY <1>1, ElementsFacts
<1> DEFINE e == Head(am.pend)
           w == Taken(am, 1)
<1>3. Quiet(am, w) /\ w.act = am.act
  BY <1>1, <1>2, TakenQuiet
<1>4. Fine(w, {})
  BY <1>3, QuietFine
<1>5. AppOf(w, e.of) # 0 /\ (e.kind # "LIFECYCLE" => e.other # 0 /\ AppOf(w, e.other) # 0)
  BY <1>1, <1>2, <1>3 DEF Low, PendOK, AppOf
<1>6. am' = Timeout(w, e)
  BY DEF PendTimeout
<1> HIDE DEF w, e
<1>7. e \in PendType
  BY <1>2 DEF e
<1>8. QED
  BY <1>4, <1>5, <1>6, <1>7, TimeoutFine

-----------------------------------------------------------------------------
(* The theorems.                                                            *)

\* It holds initially.
LEMMA InitFine ==
    ASSUME Init
    PROVE  IInv
<1> DEFINE w == NoObjects
<1>1. /\ 0 \in 0..MaxActivities /\ 0 \in 0..MaxTasks /\ 0 \in 0..MaxProcs
      /\ MaxActivities \in Nat /\ MaxTasks \in Nat /\ MaxProcs \in Nat
  BY BoundsAssumption
<1>2. /\ <<>> \in Seq(Activity) /\ <<>> \in Seq(Task) /\ <<>> \in Seq(PendType)
      /\ <<>> \in Seq(LaunchType) /\ <<>> \in Seq(Calls)
  OBVIOUS
<1>3. ToSet(<<>>) = {} /\ IsInjective(<<>>) /\ CreatesOnce(<<>>)
  BY DEF ToSet, IsInjective, CreatesOnce
<1>4. NoActivity \in ActivityType
  BY <1>1 DEF NoActivity, ActivityType, Status
<1>5. NoProc \in ProcType
  BY <1>1, <1>2 DEF NoProc, ProcType
<1>6. w \in HeapType
  <2>1. ASSUME NEW S, NEW T, NEW e \in T PROVE [x \in S |-> e] \in [S -> T]
    OBVIOUS
  <2>2. [x \in Activity |-> NoActivity] \in [Activity -> ActivityType]
    BY <1>4
  <2>3. [t \in Task |-> <<>>] \in [Task -> Seq(Activity)]
    BY <1>2, <2>1
  <2>4. [t \in Task |-> "none"] \in [Task -> Tags]
    BY DEF Tags
  <2>5. [p \in Proc |-> NoProc] \in [Proc -> ProcType]
    BY <1>5
  <2>6. QED
    BY <2>2, <2>3, <2>4, <2>5, <1>1, <1>2 DEF NoObjects, HeapType
<1>7. /\ \A x \in Activity : AppOf(w, x) = 0 /\ w.act[x].mStatus = INIT
      /\ \A p \in Proc : w.proc[p].mStatus = "NONE" /\ w.proc[p].mExistActivity = <<>>
                    /\ w.proc[p].sent = <<>>
      /\ \A t \in Task : w.stack[t] = <<>>
      /\ w.activities = 0 /\ w.tasks = 0 /\ w.procs = 0 /\ w.mAllTasks = <<>> /\ w.mHomeTask = 0
      /\ w.mSystemUITasks = <<>> /\ w.pend = <<>> /\ w.launch = <<>> /\ w.undefined = FALSE
  BY DEF NoObjects, NoActivity, NoProc, AppOf
<1> HIDE DEF w
<1>8. Listed(w) = {} /\ UiListed(w) = {} /\ Made(w) = {} /\ \A t \in Task : On(w, t) = {}
  BY <1>3, <1>7 DEF Listed, UiListed, Made, On
<1>9. Low(w)
  BY <1>3, <1>6, <1>7 DEF Low, ActsOK, ProcOK, PendOK, Exist
<1>10. Numbered(w)
  BY <1>7, <1>8 DEF Numbered
<1>11. Placed(w) /\ Launches(w)
  BY <1>3, <1>7, <1>8 DEF Placed, Launches
<1>12. Kinds(w) /\ CountedBut(w, {})
  BY <1>8 DEF Kinds, CountedBut
<1>13. Tidy(w) /\ Careful(w)
  BY <1>7, <1>8 DEF Tidy, Careful, NonEmpty, HomeListed, AllListed
<1>14. Inv(w)
  BY <1>9, <1>10, <1>11, <1>12, <1>13 DEF Inv, Fine, Base
<1>15. QED
  BY <1>14, RequestsAssumption DEF Init, IInv, w

\* Every step keeps it.
LEMMA NextFine ==
    ASSUME IInv, [Next]_vars
    PROVE  IInv'
<1>1. Fine(am, {}) /\ requests \in 0..MaxRequests
  BY DEF IInv, Inv
<1>2. requests' \in 0..MaxRequests
  <2>1. Counted => requests' \in 0..MaxRequests
    BY <1>1, RequestsAssumption DEF Counted
  <2>2. requests' = requests \/ Counted
    BY DEF Next, vars, Boot, Start, Finish, MoveActivityTaskToBackground, StopByToken, StopPackage,
           AppAttached, Deliver, Teardown, AppTerminated, PendTimeout, PostIntent
  <2>3. QED
    BY <1>1, <2>1, <2>2
<1>3. Fine(am', {})
  <2>1. CASE Next
    <3>1. CASE Boot
      BY <1>1, <3>1, BootFine
    <3>2. CASE Start
      BY <1>1, <3>2, StartFine
    <3>3. CASE \E x \in Activity : Finish(x)
      BY <1>1, <3>3, FinishActionFine
    <3>4. CASE \E x \in Activity : MoveActivityTaskToBackground(x)
      BY <1>1, <3>4, MoveActionFine
    <3>5. CASE \E x \in Activity : StopByToken(x)
      BY <1>1, <3>5, StopByTokenFine
    <3>6. CASE \E p \in Proc : StopPackage(p)
      BY <1>1, <3>6, StopPackageFine
    <3>7. CASE \E p \in Proc : AppAttached(p)
      BY <1>1, <3>7, AppAttachedFine
    <3>8. CASE \E p \in Proc : Deliver(p)
      BY <1>1, <3>8, DeliverFine
    <3>9. CASE \E p \in Proc : Teardown(p)
      BY <1>1, <3>9, TeardownFine
    <3>10. CASE \E p \in Proc : AppTerminated(p)
      BY <1>1, <3>10, AppTerminatedFine
    <3>11. CASE PendTimeout
      BY <1>1, <3>11, PendTimeoutFine
    <3>12. CASE PostIntent
      BY <1>1, <3>12, PostFine
    <3>13. QED
      BY <2>1, <3>1, <3>2, <3>3, <3>4, <3>5, <3>6, <3>7, <3>8, <3>9, <3>10, <3>11, <3>12 DEF Next
  <2>2. CASE UNCHANGED vars
    BY <1>1, <2>2 DEF vars
  <2>3. QED
    BY <2>1, <2>2
<1>4. QED
  BY <1>2, <1>3 DEF IInv, Inv

\* The heap keeps its invariant, whatever the environment does.
THEOREM Invariant == Spec => []IInv
<1>1. Init => IInv
  BY InitFine
<1>2. IInv /\ [Next]_vars => IInv'
  BY NextFine
<1>3. QED
  BY <1>1, <1>2, PTL DEF Spec

\* Every reference of the server is to an object it has made, or null.
THEOREM TypeCorrect == Spec => []TypeOK
<1>1. IInv => TypeOK
  BY BaseFacts DEF IInv, Inv, Fine, TypeOK
<1>2. QED
  BY <1>1, Invariant, PTL

\* When only activities on a stack are finished, a listed task has an activity, is
\* listed once, and its activities are on it once and on no other.
THEOREM StacksAreSoundAlways ==
    ASSUME FinishOnce
    PROVE  Spec => []StacksAreSound
<1>1. ASSUME IInv PROVE StacksAreSound
  <2>1. Base(am) /\ am \in HeapType /\ Tidy(am) /\ requests \in 0..MaxRequests
    BY <1>1, BaseFacts DEF IInv, Inv, Fine
  <2>2. TypeOK
    BY <2>1 DEF TypeOK
  <2>3. \A i \in DOMAIN am.mAllTasks : am.stack[am.mAllTasks[i]] # <<>>
    <3>1. NonEmpty(am)
      BY <2>1 DEF Tidy
    <3>2. \A i \in DOMAIN am.mAllTasks : am.mAllTasks[i] \in Listed(am)
      BY DEF Listed, ToSet
    <3>3. QED
      BY <3>1, <3>2 DEF NonEmpty
  <2>4. \A t \in Task : \A i \in DOMAIN am.stack[t] : am.act[am.stack[t][i]].mInTask = t
    <3>1. \A t \in Task : \A i \in DOMAIN am.stack[t] : am.stack[t][i] \in On(am, t)
      BY DEF On, ToSet
    <3>2. QED
      BY <3>1, <2>1 DEF Base, Placed
  <2>5. QED
    BY <2>1, <2>2, <2>3, <2>4 DEF StacksAreSound, Base, Placed
<1>2. QED
  BY <1>1, Invariant, PTL

\* When besides the home screen stays and the system UI is started in new tasks, no
\* handler meets a null pointer, a deleted object or an empty stack.
THEOREM NeverUndefinedAlways ==
    ASSUME FinishOnce, HomeStays, UiNewTask
    PROVE  Spec => []NeverUndefined
<1>1. IInv => NeverUndefined
  BY DEF IInv, Inv, Fine, Careful, NeverUndefined
<1>2. QED
  BY <1>1, Invariant, PTL

\* Without a system UI no activity of a process that has ended is left on a stack.
THEOREM StackedAreAliveAlways ==
    ASSUME FinishOnce, HomeStays, SystemUI = {}
    PROVE  Spec => []StackedAreAlive
<1>1. ASSUME IInv PROVE StackedAreAlive
  <2>1. Base(am) /\ am \in HeapType /\ Tidy(am) /\ CountedBut(am, {})
    BY <1>1, BaseFacts DEF IInv, Inv, Fine
  <2>2. ASSUME NEW x \in Activity, NEW t \in Task, Contains(am.stack[t], x) PROVE ~Freed(am, x)
    <3>1. x \in On(am, t) /\ am.stack[t] # <<>>
      BY <2>1, <2>2, HeapParts, ElementsFacts DEF On
    <3>2. Kept(am, t)
      BY <2>1, <3>1 DEF Tidy, AllListed, Kept
    <3>3. QED
      BY <2>1, <3>1, <3>2, KeptFacts
  <2>3. QED
    BY <2>2 DEF StackedAreAlive, OnStack
<1>2. QED
  BY <1>1, Invariant, PTL

\* Without a system UI, and if only activities on a stack are finished and the home
\* screen stays, a task leaves the list only when its last activity has left its stack.
THEOREM TasksAreKeptAlways ==
    ASSUME FinishOnce, HomeStays, SystemUI = {}
    PROVE  Spec => TasksAreKept
<1> DEFINE Emptied == \A t \in Task : Contains(am.mAllTasks, t) /\ ~Contains(am'.mAllTasks, t)
                                      => am'.stack[t] = <<>>
<1>1. ASSUME IInv, IInv', [Next]_vars PROVE [Emptied]_vars
  <2>1. AllListed(am') /\ am' \in HeapType
    <3>1. Fine(am', {})
      BY <1>1 DEF IInv, Inv
    <3>2. QED
      BY <3>1, BaseFacts DEF Fine, Tidy
  <2>2. SUFFICES ASSUME NEW t \in Task, ~Contains(am'.mAllTasks, t) PROVE am'.stack[t] = <<>>
    BY DEF Emptied
  <2>3. am'.mAllTasks \in Seq(Task)
    BY <2>1, HeapParts
  <2>4. t \notin Listed(am')
    BY <2>2, <2>3, ElementsFacts DEF Listed
  <2>5. QED
    BY <2>1, <2>4 DEF AllListed
<1>2. QED
  BY <1>1, Invariant, PTL DEF Spec, TasksAreKept
-----------------------------------------------------------------------------
(* What activities are asked for: the stray ones.                            *)

\* What does not concern the activities is tame.
LEMMA SameTame ==
    ASSUME NEW w, NEW v, v.act = w.act, NEW R, NEW X
    PROVE  Tame(w, v, R, X)
BY DEF Tame, Eager, Wanted

\* One after the other.
LEMMA TameTransitive ==
    ASSUME NEW w, NEW u, NEW v, NEW R, NEW Q, NEW X, NEW Y, Tame(w, u, R, X), Tame(u, v, Q, Y)
    PROVE  Tame(w, v, R \union Q, X \union Y)
BY DEF Tame

\* The statuses in which nothing is awaited.
LEMMA RestingFacts ==
    ASSUME NEW r \in Status, ~Busy(r)
    PROVE  r \in {INIT, CREATED, STARTED, RESUMED, PAUSED, STOPPED, DESTROYED}
BY DEF Status, Busy

\* What the table has for an activity that is to be resumed.
LEMMA ResumesFrom ==
    ASSUME NEW r \in {INIT, CREATED, STARTED, PAUSED, STOPPED}
    PROVE  TurnTo(r, RESUMED) \in Steps /\ Allows(TurnTo(r, RESUMED), r)
<1>1. (RESUMED + 1) \div 2 = 3
  OBVIOUS
<1>2. CASE r = INIT
  <2>1. (r + 1) \div 2 = 0
    BY <1>2
  <2>2. TurnTo(r, RESUMED) = "CREATE"
    BY <1>1, <2>1 DEF TurnTo, lifeCycleTable
  <2>3. Allows("CREATE", r) /\ "CREATE" \in Steps
    BY <1>2 DEF Steps, Allows
  <2>4. QED
    BY <2>2, <2>3
<1>3. CASE r = CREATED
  <2>1. (r + 1) \div 2 = 1
    BY <1>3
  <2>2. TurnTo(r, RESUMED) = "START"
    BY <1>1, <2>1 DEF TurnTo, lifeCycleTable
  <2>3. Allows("START", r) /\ "START" \in Steps
    BY <1>3 DEF Steps, Allows
  <2>4. QED
    BY <2>2, <2>3
<1>4. CASE r = STARTED
  <2>1. (r + 1) \div 2 = 2
    BY <1>4
  <2>2. TurnTo(r, RESUMED) = "RESUME"
    BY <1>1, <2>1 DEF TurnTo, lifeCycleTable
  <2>3. Allows("RESUME", r) /\ "RESUME" \in Steps
    BY <1>4 DEF Steps, Allows
  <2>4. QED
    BY <2>2, <2>3
<1>5. CASE r = PAUSED
  <2>1. (r + 1) \div 2 = 4
    BY <1>5
  <2>2. TurnTo(r, RESUMED) = "RESUME"
    BY <1>1, <2>1 DEF TurnTo, lifeCycleTable
  <2>3. Allows("RESUME", r) /\ "RESUME" \in Steps
    BY <1>5 DEF Steps, Allows
  <2>4. QED
    BY <2>2, <2>3
<1>6. CASE r = STOPPED
  <2>1. (r + 1) \div 2 = 5
    BY <1>6
  <2>2. TurnTo(r, RESUMED) = "START"
    BY <1>1, <2>1 DEF TurnTo, lifeCycleTable
  <2>3. Allows("START", r) /\ "START" \in Steps
    BY <1>6 DEF Steps, Allows
  <2>4. QED
    BY <2>2, <2>3
<1>7. QED
  BY <1>2, <1>3, <1>4, <1>5, <1>6

\* ... and for one that is destroyed.
LEMMA DestroyedRests == TurnTo(DESTROYED, RESUMED) = "NONE"
<1>1. (RESUMED + 1) \div 2 = 3 /\ (DESTROYED + 1) \div 2 = 6
  OBVIOUS
<1>2. QED
  BY <1>1 DEF TurnTo, lifeCycleTable

\* ... and for one that is to be paused.
LEMMA PausesFrom ==
    ASSUME NEW r \in {INIT, CREATED, STARTED, RESUMED}
    PROVE  TurnTo(r, PAUSED) # "NONE"
<1>1. (PAUSED + 1) \div 2 = 4
  OBVIOUS
<1>2. (r + 1) \div 2 \in {0, 1, 2, 3}
  OBVIOUS
<1>3. QED
  BY <1>1, <1>2 DEF TurnTo, lifeCycleTable

\* An activity that is told to do something is busy.
LEMMA DoingIsBusy ==
    ASSUME NEW step \in Steps
    PROVE  Busy(Doing(step))
BY DEF Steps, Doing, Busy

\* A step of an activity changes no other, and nothing but its status.
LEMMA ScheduleAsks ==
    ASSUME NEW w, Low(w), NEW x \in Activity, NEW step \in Steps
    PROVE  LET v == Schedule(w, x, step)
           IN /\ \A y \in Activity : y # x => v.act[y] = w.act[y]
              /\ v.act[x] = IF Allows(step, w.act[x].mStatus)
                            THEN [w.act[x] EXCEPT !.mStatus = Doing(step)] ELSE w.act[x]
<1> DEFINE doing == [w EXCEPT !.act[x].mStatus = Doing(step)]
           p == w.act[x].mApp
           added == IF step = "CREATE"
                    THEN [doing EXCEPT !.proc[p].mExistActivity = Append(@, x)] ELSE doing
           v == Schedule(w, x, step)
<1>1. Doing(step) \in Status /\ w \in HeapType
  BY DoingIsLater DEF Low
<1>2. /\ doing.act[x] = [w.act[x] EXCEPT !.mStatus = Doing(step)]
      /\ \A y \in Activity : y # x => doing.act[y] = w.act[y]
  BY <1>1, StatusSet, ZenonT(30)
<1>3. v = IF ~Allows(step, w.act[x].mStatus) THEN w
          ELSE IF Freed(w, x) THEN doing
          ELSE Send(added, p, <<step, x>>)
  BY DEF Schedule
<1> HIDE DEF v, doing
<1>4. added.act = doing.act
  OBVIOUS
<1> HIDE DEF added
<1>5. Send(added, p, <<step, x>>).act = added.act
  BY DEF Send
<1>6. QED
  BY <1>2, <1>3, <1>4, <1>5 DEF v

\* lifecycleTransition() behind its eventTrigger().
LEMMA TurnAsks ==
    ASSUME NEW w, Low(w), NEW x \in Activity, AppOf(w, x) # 0, NEW s \in Status
    PROVE  LET v == Turn(w, x, s)
               r == w.act[x].mStatus
               step == TurnTo(r, s)
           IN /\ \A y \in Activity : y # x => v.act[y] = w.act[y]
              /\ ~Busy(r) /\ step = "NONE" => v.act[x] = w.act[x]
              /\ Busy(r) => v.act[x].mStatus = r
              /\ Busy(r) \/ step # "NONE" => v.act[x].mTargetStatus = s
              /\ ~Busy(r) /\ step # "NONE" =>
                    v.act[x].mStatus = IF Allows(step, r) THEN Doing(step) ELSE r
<1> DEFINE r == w.act[x].mStatus
           step == TurnTo(r, s)
           v == Turn(w, x, s)
           u == Schedule(w, x, step)
           z == [u EXCEPT !.act[x].mTargetStatus = s]
<1>1. r \in Status /\ step \in Steps \union {"NONE"} /\ w \in HeapType
  BY StatusFacts, StepsOfTable DEF Low
<1>2. x \in DOMAIN w.act /\ w.act[x] \in ActivityType
  BY <1>1, HeapParts
<1>3. CASE Busy(r)
  <2>1. v = [w EXCEPT !.act[x].mTargetStatus = s]
    BY <1>3 DEF Turn
  <2>2. v.act[x].mTargetStatus = s /\ v.act[x].mStatus = r
    BY <1>1, <1>2, <2>1 DEF ActivityType, HeapType
  <2>3. \A y \in Activity : y # x => v.act[y] = w.act[y]
    BY <1>1, <1>2, <2>1 DEF HeapType
  <2>4. QED
    BY <1>3, <2>2, <2>3
<1>4. CASE ~Busy(r) /\ step = "NONE"
  <2>1. v = w
    BY <1>4 DEF Turn
  <2>2. QED
    BY <1>4, <2>1
<1>5. CASE ~Busy(r) /\ step # "NONE"
  <2>1. v = Commit(z, "LIFECYCLE", x, 0)
    BY <1>5 DEF Turn
  <2>2. Quiet(w, u) /\ step \in Steps
    BY <1>1, <1>5, ScheduleQuiet
  <2>3. /\ \A y \in Activity : y # x => u.act[y] = w.act[y]
        /\ u.act[x] = IF Allows(step, r) THEN [w.act[x] EXCEPT !.mStatus = Doing(step)] ELSE w.act[x]
    BY <2>2, ScheduleAsks
  <2>4. u.act[x].mStatus = IF Allows(step, r) THEN Doing(step) ELSE r
    BY <1>2, <2>3 DEF ActivityType
  <2> HIDE DEF u, step, v
  <2>5. u \in HeapType
    BY <2>2 DEF Quiet, Calm, Low
  <2>6. x \in DOMAIN u.act /\ u.act[x] \in ActivityType
    BY <2>5, HeapParts
  <2>7. /\ z.act[x].mTargetStatus = s /\ z.act[x].mStatus = u.act[x].mStatus
        /\ \A y \in Activity : y # x => z.act[y] = u.act[y]
    BY <2>5, <2>6 DEF ActivityType, HeapType
  <2> HIDE DEF z
  <2>8. v.act = z.act
    BY <2>1 DEF Commit
  <2>9. QED
    BY <1>5, <2>3, <2>4, <2>7, <2>8 DEF v, step
<1>6. QED
  BY <1>3, <1>4, <1>5

\* What a transition asks of its activity, and of nobody else.  What is to be resumed is eager
\* then if it was or is at rest alive; what is to be paused is no longer to be resumed.
LEMMA TurnTame ==
    ASSUME NEW w, Low(w), NEW x \in Activity, AppOf(w, x) # 0, NEW s \in Status
    PROVE  LET v == Turn(w, x, s)
           IN /\ Tame(w, v, IF s = RESUMED THEN {x} ELSE {}, {})
              /\ s = PAUSED /\ Eager(w, x) => ~Wanted(v, x)
              /\ ~Busy(w.act[x].mStatus) /\ w.act[x].mStatus # DESTROYED => Eager(v, x) \/ s # RESUMED
              /\ s # RESUMED /\ ~Wanted(w, x) => ~Wanted(v, x)
<1> DEFINE r == w.act[x].mStatus
           step == TurnTo(r, s)
           v == Turn(w, x, s)
<1>1. /\ \A y \in Activity : y # x => v.act[y] = w.act[y]
      /\ ~Busy(r) /\ step = "NONE" => v.act[x] = w.act[x]
      /\ Busy(r) => v.act[x].mStatus = r
      /\ Busy(r) \/ step # "NONE" => v.act[x].mTargetStatus = s
      /\ ~Busy(r) /\ step # "NONE" => v.act[x].mStatus = IF Allows(step, r) THEN Doing(step) ELSE r
  BY TurnAsks
<1>2. r \in Status /\ step \in Steps \union {"NONE"}
  BY StatusFacts, StepsOfTable
<1>3. step # "NONE" => Busy(Doing(step))
  BY <1>2, DoingIsBusy
<1> HIDE DEF v
<1>4. ASSUME s = RESUMED PROVE (Eager(w, x) => Eager(v, x)) /\ (~Busy(r) /\ r # DESTROYED => Eager(v, x))
  <2>1. CASE Busy(r)
    BY <1>1, <2>1 DEF Eager
  <2>2. CASE ~Busy(r) /\ r \in {INIT, CREATED, STARTED, PAUSED, STOPPED}
    <3>1. step \in Steps /\ Allows(step, r) /\ step # "NONE"
      BY <2>2, <1>4, ResumesFrom DEF Steps
    <3> HIDE DEF step, r
    <3>2. v.act[x].mStatus = Doing(step)
      BY <1>1, <2>2, <3>1
    <3>3. QED
      BY <1>3, <3>1, <3>2 DEF Eager
  <2>3. CASE r = RESUMED
    <3>1. ~Busy(r) /\ r < PAUSED
      BY <2>3 DEF Busy
    <3> HIDE DEF r, step
    <3>2. v.act[x].mStatus = r \/ (step # "NONE" /\ v.act[x].mStatus = Doing(step)) \/ v.act[x] = w.act[x]
      BY <1>1, <3>1
    <3>3. v.act[x] = w.act[x] => v.act[x].mStatus = r
      BY DEF r
    <3>4. QED
      BY <1>3, <3>1, <3>2, <3>3 DEF Eager
  <2>4. CASE r = DESTROYED
    <3>1. step = "NONE" /\ ~Busy(r)
      BY <2>4, <1>4, DestroyedRests DEF Busy
    <3>2. v.act[x] = w.act[x]
      BY <1>1, <3>1
    <3>3. QED
      BY <2>4, <3>2 DEF Eager, Wanted
  <2>5. QED
    BY <1>2, <2>1, <2>2, <2>3, <2>4, RestingFacts
<1>5. ASSUME s # RESUMED
      PROVE  /\ Wanted(v, x) => Wanted(w, x)
             /\ Eager(w, x) => Eager(v, x)
  <2>1. CASE Busy(r) \/ step # "NONE"
    BY <1>1, <1>5, <2>1 DEF Wanted, Eager
  <2>2. CASE ~Busy(r) /\ step = "NONE"
    <3>1. v.act[x] = w.act[x]
      BY <1>1, <2>2
    <3>2. QED
      BY <3>1 DEF Wanted, Eager
  <2>3. QED
    BY <2>1, <2>2
<1>6. ASSUME s = PAUSED, Eager(w, x) PROVE ~Wanted(v, x)
  <2>1. CASE Busy(r) \/ step # "NONE"
    BY <1>1, <1>6, <2>1 DEF Wanted
  <2>2. CASE ~Busy(r) /\ step = "NONE"
    <3>1. v.act[x] = w.act[x]
      BY <1>1, <2>2
    <3>2. r \notin {INIT, CREATED, STARTED, RESUMED}
      BY <2>2, <1>6, PausesFrom
    <3>3. r \in {PAUSED, STOPPED, DESTROYED}
      BY <1>2, <2>2, <3>2, RestingFacts
    <3>4. ~(r < PAUSED)
      BY <3>3
    <3>5. ~Wanted(w, x)
      BY <2>2, <3>4, <1>6 DEF Eager
    <3>6. QED
      BY <3>1, <3>5 DEF Wanted
  <2>3. QED
    BY <2>1, <2>2
<1>7. \A y \in Activity : y # x => /\ Eager(w, y) => Eager(v, y)
                                   /\ Wanted(v, y) => Wanted(w, y)
  BY <1>1 DEF Eager, Wanted
<1> HIDE DEF r, step
<1>8. Tame(w, v, IF s = RESUMED THEN {x} ELSE {}, {})
  BY <1>4, <1>5, <1>7 DEF Tame
<1>9. QED
  BY <1>4, <1>5, <1>6, <1>8 DEF v, r

\* The activity that waited is not to be resumed.
LEMMA TriggerWaitResumeTame ==
    ASSUME NEW w, Low(w), NEW x \in Activity
    PROVE  Tame(w, TriggerWaitResume(w, x), {}, {})
<1> DEFINE i == Waiting(w, "WAIT_RESUME", x)
           y == w.pend[i].other
           u == Taken(w, i)
<1>1. CASE i = 0
  BY <1>1, SameTame DEF TriggerWaitResume
<1>2. CASE i # 0
  <2>1. i \in 1..Len(w.pend) /\ w.pend[i].kind = "WAIT_RESUME" /\ w \in HeapType
    BY <1>2, WaitingFacts DEF Low
  <2>2. w.pend[i] \in ToSet(w.pend)
    BY <2>1, HeapParts, ElementsFacts
  <2>3. y \in Activity /\ AppOf(w, y) # 0
    BY <2>1, <2>2, PendParts DEF Low, PendOK
  <2>4. Quiet(w, u) /\ u.act = w.act
    BY <2>1, TakenQuiet
  <2>5. TriggerWaitResume(w, x) \in {u, Turn(u, y, STOPPED)}
    BY <1>2 DEF TriggerWaitResume
  <2> HIDE DEF u, y
  <2>6. Low(u) /\ AppOf(u, y) # 0 /\ Tame(w, u, {}, {})
    BY <2>3, <2>4, QuietKeepsApp, SameTame DEF Quiet
  <2>7. Tame(u, Turn(u, y, STOPPED), {}, {})
    <3>1. STOPPED \in Status /\ STOPPED # RESUMED
      BY DEF Status
    <3> HIDE DEF STOPPED, RESUMED
    <3>2. QED
      BY <3>1, <2>3, <2>6, TurnTame
  <2>8. QED
    BY <2>5, <2>6, <2>7, TameTransitive
<1>3. QED
  BY <1>1, <1>2

\* lifecycleTransition()
LEMMA TransitionTame ==
    ASSUME NEW w, Low(w), NEW x \in Activity, AppOf(w, x) # 0, NEW s \in Status
    PROVE  LET v == LifecycleTransition(w, x, s)
           IN /\ Tame(w, v, IF s = RESUMED THEN {x} ELSE {}, {})
              /\ s = PAUSED /\ Eager(w, x) => ~Wanted(v, x)
<1> DEFINE v == LifecycleTransition(w, x, s)
           u == TriggerWaitResume(w, x)
           r == w.act[x]
           cannotResume == r.mTargetStatus = RESUMED /\ s > RESUMED /\ r.mStatus < RESUMING
<1>1. x # 0
  BY DEF Activity
<1>2. v = Turn(IF cannotResume THEN u ELSE w, x, s)
  BY <1>1 DEF LifecycleTransition
<1> HIDE DEF v
<1>3. CASE cannotResume
  <2>1. v = Turn(u, x, s) /\ s # RESUMED
    BY <1>2, <1>3 DEF Status
  <2>2. Quiet(w, u) /\ Tame(w, u, {}, {})
    BY TriggerWaitResumeQuiet, TriggerWaitResumeTame
  <2> HIDE DEF u
  <2>3. Low(u) /\ AppOf(u, x) # 0
    BY <2>2, QuietKeepsApp DEF Quiet
  <2>4. Tame(u, v, {}, {}) /\ (s = PAUSED /\ Eager(u, x) => ~Wanted(v, x))
    BY <2>1, <2>3, TurnTame
  <2>5. Tame(w, v, {} \union {}, {} \union {})
    BY <2>2, <2>4, TameTransitive
  <2>6. Eager(w, x) => Eager(u, x)
    BY <2>2 DEF Tame
  <2>7. QED
    BY <2>1, <2>4, <2>5, <2>6 DEF v
<1>4. CASE ~cannotResume
  <2>1. v = Turn(w, x, s)
    BY <1>2, <1>4
  <2>2. QED
    BY <2>1, TurnTame DEF v
<1>5. QED
  BY <1>3, <1>4

\* The activity that waited is destroyed.
LEMMA TriggerDelayDestroyTame ==
    ASSUME NEW w, Low(w), NEW x \in Activity
    PROVE  Tame(w, TriggerDelayDestroy(w, x), {}, {})
<1> DEFINE i == Waiting(w, "DELAY_DESTROY", x)
           y == w.pend[i].other
           u == Taken(w, i)
<1>1. CASE i = 0
  BY <1>1, SameTame DEF TriggerDelayDestroy
<1>2. CASE i # 0
  <2>1. i \in 1..Len(w.pend) /\ w.pend[i].kind = "DELAY_DESTROY" /\ w \in HeapType
    BY <1>2, WaitingFacts DEF Low
  <2>2. w.pend[i] \in ToSet(w.pend)
    BY <2>1, HeapParts, ElementsFacts
  <2>3. y \in Activity /\ AppOf(w, y) # 0
    BY <2>1, <2>2, PendParts DEF Low, PendOK
  <2>4. Quiet(w, u) /\ u.act = w.act
    BY <2>1, TakenQuiet
  <2>5. TriggerDelayDestroy(w, x) = LifecycleTransition(u, y, DESTROYED)
    BY <1>2 DEF TriggerDelayDestroy
  <2> HIDE DEF u, y
  <2>6. Low(u) /\ AppOf(u, y) # 0 /\ Tame(w, u, {}, {})
    BY <2>3, <2>4, QuietKeepsApp, SameTame DEF Quiet
  <2>7. Tame(u, LifecycleTransition(u, y, DESTROYED), {}, {})
    <3>1. DESTROYED \in Status /\ DESTROYED # RESUMED
      BY DEF Status
    <3> HIDE DEF DESTROYED, RESUMED
    <3>2. QED
      BY <3>1, <2>3, <2>6, TransitionTame
  <2>8. Tame(w, LifecycleTransition(u, y, DESTROYED), {} \union {}, {} \union {})
    BY <2>6, <2>7, TameTransitive
  <2>9. QED
    BY <2>5, <2>8
<1>3. QED
  BY <1>1, <1>2

\* The counts and the ends of processes ask for nothing.
LEMMA ForegroundActs ==
    ASSUME NEW w, NEW x, NEW b
    PROVE  SetForeground(w, x, b).act = w.act /\ ChangeForeground(w, x, b).act = w.act
<1>1. SetForeground(w, x, b).act = w.act
  BY DEF SetForeground
<1>2. QED
  BY <1>1 DEF ChangeForeground, Undefined

LEMMA StopActs ==
    ASSUME NEW w, NEW p
    PROVE  StopApplication(w, p).act = w.act
BY DEF StopApplication, Send

LEMMA ForgetActs ==
    ASSUME NEW w, NEW x
    PROVE  Forget(w, x).act = w.act
BY DEF Forget

\* abnormalExit() sets the status.
LEMMA AbnormalExitTame ==
    ASSUME NEW w, Low(w), NEW x \in Activity
    PROVE  Tame(w, AbnormalExit(w, x), {}, {x})
<1> DEFINE dead == [w EXCEPT !.act[x].mStatus = DESTROYED]
<1>1. /\ dead.act[x] = [w.act[x] EXCEPT !.mStatus = DESTROYED]
      /\ \A y \in Activity : y # x => dead.act[y] = w.act[y]
  <2>1. DESTROYED \in Status /\ w \in HeapType
    BY DEF Low, Status
  <2> HIDE DEF DESTROYED
  <2>2. QED
    BY <2>1, StatusSet, ZenonT(30)
<1>2. dead.act[x].mTargetStatus = w.act[x].mTargetStatus
  <2>1. w.act[x] \in ActivityType
    BY HeapParts DEF Low
  <2>2. QED
    BY <1>1, <2>1 DEF ActivityType
<1>3. AbnormalExit(w, x).act = dead.act
  <2>1. AbnormalExit(w, x) \in {dead, StopApplication(Forget(dead, x), w.act[x].mApp)}
    BY DEF AbnormalExit
  <2> HIDE DEF dead
  <2>2. StopApplication(Forget(dead, x), w.act[x].mApp).act = Forget(dead, x).act
        /\ Forget(dead, x).act = dead.act
    BY StopActs, ForgetActs
  <2>3. QED
    BY <2>1, <2>2
<1> HIDE DEF dead
<1>4. QED
  BY <1>1, <1>2, <1>3 DEF Tame, Wanted, Eager

\* What leaves the top is not to be resumed because of it.
LEMMA LeaveTame ==
    ASSUME NEW w, Low(w), NEW x \in Activity, AppOf(w, x) # 0, NEW b \in BOOLEAN
    PROVE  Tame(w, Leave(w, x, b), {}, {})
<1> DEFINE u == LifecycleTransition(w, x, DESTROYED)
<1>1. Tame(w, u, {}, {})
  <2>1. DESTROYED \in Status /\ DESTROYED # RESUMED
    BY DEF Status
  <2> HIDE DEF DESTROYED, RESUMED
  <2>2. QED
    BY <2>1, TransitionTame
<1>2. Leave(w, x, b) \in {u, ChangeForeground(u, x, FALSE)}
  BY DEF Leave
<1> HIDE DEF u
<1>3. Leave(w, x, b).act = u.act
  BY <1>2, ForegroundActs
<1>4. QED
  BY <1>1, <1>3 DEF Tame, Wanted, Eager

\* ... nor all on top of an activity.
LEMMA LeavesTame ==
    ASSUME NEW w, Low(w), NEW s \in Seq(Activity), \A x \in ToSet(s) :
                  AppOf(w, x) # 0, NEW b \in BOOLEAN
    PROVE  Tame(w, Leaves(w, s, b), {}, {})
<1> DEFINE V == {v \in HeapType : Calm(w, v) /\ Tame(w, v, {}, {})}
           T == [k \in 0..Len(s) |-> V]
<1>1. Len(s) \in Nat /\ ToSet(s) \subseteq Activity /\ \A k \in 1..Len(s) : s[k] \in ToSet(s)
  BY ElementsFacts
<1>2. w \in V
  BY CalmReflexive, SameTame DEF Low
<1>3. ASSUME NEW v \in V, NEW x \in ToSet(s) PROVE Leave(v, x, b) \in V
  <2>1. Low(v) /\ AppOf(v, x) # 0 /\ x \in Activity
    BY <1>1, QuietKeepsApp DEF Calm, Low
  <2>2. Calm(v, Leave(v, x, b)) /\ Tame(v, Leave(v, x, b), {}, {})
    BY <2>1, LeaveCalm, LeaveTame
  <2>3. Calm(w, Leave(v, x, b)) /\ Leave(v, x, b) \in HeapType
    BY <2>2, CalmTransitive DEF Calm, Low
  <2>4. Tame(w, Leave(v, x, b), {} \union {}, {} \union {})
    BY <2>2, TameTransitive
  <2>5. QED
    BY <2>3, <2>4
<1> HIDE DEF V
<1>4. w \in T[0] /\ T[Len(s)] = V /\ \A k \in 1..Len(s) : T[k] = V
  BY <1>1, <1>2
<1> HIDE DEF T
<1>5. Leaves(w, s, b) \in V \intersect T[Len(s)]
  BY <1>1, <1>2, <1>3, <1>4, LeaveLoop
<1>6. QED
  BY <1>5 DEF V

\* Destroying activities one after the other.
LEMMA DestroyTame ==
    ASSUME NEW w, Low(w), NEW s \in Seq(Activity), \A x \in ToSet(s) : AppOf(w, x) # 0
    PROVE  Tame(w, FoldLeft(LAMBDA v, x : LifecycleTransition(v, x, DESTROYED), w, s), {}, {})
<1> DEFINE V == {v \in HeapType : Calm(w, v) /\ Tame(w, v, {}, {})}
           T == [k \in 0..Len(s) |-> V]
<1>1. Len(s) \in Nat /\ ToSet(s) \subseteq Activity /\ \A k \in 1..Len(s) : s[k] \in ToSet(s)
  BY ElementsFacts
<1>2. w \in V
  BY CalmReflexive, SameTame DEF Low
<1>3. ASSUME NEW v \in V, NEW x \in ToSet(s) PROVE LifecycleTransition(v, x, DESTROYED) \in V
  <2> DEFINE u == LifecycleTransition(v, x, DESTROYED)
  <2>1. Low(v) /\ AppOf(v, x) # 0 /\ x \in Activity /\ Tame(w, v, {}, {})
    BY <1>1, QuietKeepsApp DEF Calm, Low
  <2>2. Quiet(v, u) /\ Tame(v, u, {}, {})
    <3>1. DESTROYED \in Status /\ DESTROYED # RESUMED
      BY DEF Status
    <3> HIDE DEF DESTROYED, RESUMED
    <3>2. QED
      BY <3>1, <2>1, TransitionQuiet, TransitionTame
  <2> HIDE DEF u
  <2>3. Calm(w, u) /\ u \in HeapType
    BY <2>2, CalmTransitive DEF Quiet, Calm, Low
  <2>4. Tame(w, u, {} \union {}, {} \union {})
    BY <2>1, <2>2, TameTransitive
  <2>5. QED
    BY <2>3, <2>4 DEF u
<1> HIDE DEF V
<1>4. w \in T[0] /\ T[Len(s)] = V /\ \A k \in 1..Len(s) : T[k] = V
  BY <1>1, <1>2
<1> HIDE DEF T
<1>5. FoldLeft(LAMBDA v, x : LifecycleTransition(v, x, DESTROYED), w, s) \in V \intersect T[Len(s)]
  BY <1>1, <1>2, <1>3, <1>4, DestroyLoop
<1>6. QED
  BY <1>5 DEF V

\* Counting asks for nothing.
LEMMA StackForegroundActs ==
    ASSUME NEW w, Low(w), NEW t \in Task, \A x \in On(w, t) : AppOf(w, x) # 0, NEW b \in BOOLEAN
    PROVE  StackForeground(w, t, b).act = w.act
<1> DEFINE s == w.stack[t]
           V == {v \in HeapType : Calm(w, v) /\ v.act = w.act}
           T == [k \in 0..Len(s) |-> V]
<1>1. s \in Seq(Activity) /\ ToSet(s) = On(w, t) /\ StackForeground(w, t, b) = Foregrounds(w, s, b)
  BY OnFacts DEF Low, On, StackForeground, Foregrounds
<1> HIDE DEF s
<1>2. Len(s) \in Nat /\ ToSet(s) \subseteq Activity /\ \A k \in 1..Len(s) : s[k] \in ToSet(s)
  BY <1>1, ElementsFacts
<1>3. w \in V
  BY CalmReflexive DEF Low
<1>4. ASSUME NEW v \in V, NEW x \in ToSet(s) PROVE SetForeground(v, x, b) \in V
  <2>1. Low(v) /\ AppOf(v, x) # 0 /\ x \in Activity
    BY <1>1, <1>2, QuietKeepsApp
  <2>2. Quiet(v, SetForeground(v, x, b)) /\ SetForeground(v, x, b).act = v.act
    BY <2>1, SetForegroundQuiet, ForegroundActs
  <2>3. QED
    BY <2>2, CalmTransitive DEF Quiet, Calm, Low
<1> HIDE DEF V
<1>5. w \in T[0] /\ T[Len(s)] = V /\ \A k \in 1..Len(s) : T[k] = V
  BY <1>2, <1>3
<1> HIDE DEF T
<1>6. Foregrounds(w, s, b) \in V \intersect T[Len(s)]
  BY <1>1, <1>2, <1>3, <1>4, <1>5, ForegroundLoop
<1>7. QED
  BY <1>1, <1>6 DEF V

\* A task that is pushed to the front is the active one, and nobody is asked for anything.
LEMMA PushTaskToFrontActs ==
    ASSUME NEW w, Low(w), Owned(w), NEW t \in Task
    PROVE  PushTaskToFront(w, t).act = w.act /\ Active(PushTaskToFront(w, t)) = t
<1> DEFINE active == Active(w)
           left == IF active = 0 THEN w ELSE StackForeground(w, active, FALSE)
           u == DeleteTask(left, t)
           front == [u EXCEPT !.mAllTasks = <<t>> \o u.mAllTasks]
           v == PushTaskToFront(w, t)
<1>1. active \in Task \union {0} /\ (active # 0 => active \in Task) /\ 0 \notin Task
  BY ActiveFacts DEF Low, Task
<1>2. CASE t = active
  BY <1>2 DEF PushTaskToFront
<1>3. CASE t # active
  <2>1. v = StackForeground(front, t, TRUE)
    BY <1>3 DEF PushTaskToFront
  <2>2. Quiet(w, left) /\ left.act = w.act
    <3>1. CASE active = 0
      BY <3>1, QuietReflexive
    <3>2. CASE active # 0
      BY <3>2, <1>1, StackForegroundQuiet, StackForegroundActs DEF Owned
    <3>3. QED
      BY <3>1, <3>2
  <2> HIDE DEF left, v
  <2>3. Moves(w, left) /\ left.stack = w.stack
    BY <2>2, CalmMoves DEF Quiet
  <2>4. Moves(left, u) /\ u.stack = left.stack /\ u.act = left.act
    BY <2>3, DeleteTaskMoves DEF Moves
  <2> HIDE DEF u
  <2>5. u.mAllTasks \in Seq(Task) /\ Low(u)
    BY <2>4, HeapParts DEF Moves, Low
  <2>6. /\ <<t>> \o u.mAllTasks \in Seq(Task) /\ <<t>> \o u.mAllTasks # <<>>
        /\ Head(<<t>> \o u.mAllTasks) = t
    BY <2>5, ConsFacts
  <2>7. /\ Moves(u, front) /\ front.mAllTasks = <<t>> \o u.mAllTasks /\ front.stack = u.stack
        /\ front.act = u.act
    BY <2>5, <2>6, ListSet
  <2> HIDE DEF front
  <2>8. Moves(w, front)
    BY <2>3, <2>4, <2>7, MovesTransitive
  <2>9. Low(front) /\ \A x \in On(front, t) : AppOf(front, x) # 0
    <3>1. On(front, t) = On(w, t) /\ On(w, t) \subseteq Activity
      BY <2>3, <2>4, <2>7, OnFacts DEF On, Low
    <3>2. QED
      BY <3>1, <2>8, MovesKeeps DEF Owned
  <2>10. Quiet(front, v) /\ v.act = front.act
    BY <2>1, <2>9, StackForegroundQuiet, StackForegroundActs
  <2>11. v.mAllTasks = front.mAllTasks
    BY <2>10, CalmMoves DEF Quiet, SameLists
  <2>12. QED
    BY <2>2, <2>4, <2>6, <2>7, <2>10, <2>11 DEF v, Active
<1>4. QED
  BY <1>2, <1>3

\* What is on top of x leaves the task.
LEMMA PopAboveTame ==
    ASSUME NEW w, Low(w), NEW t \in Task, \A y \in On(w, t) : AppOf(w, y) # 0, NEW x
    PROVE  Tame(w, PopAbove(w, t, x), {}, {})
<1> DEFINE s == w.stack[t]
           n == Len(s)
           place == Place(s, x)
           above == Reverse(SubSeq(s, place + 1, n))
           b == t = Active(w)
           u == Leaves(w, above, b)
           v == PopAbove(w, t, x)
<1>1. s \in Seq(Activity) /\ n \in Nat /\ place \in 0..n /\ ToSet(s) = On(w, t)
  BY OnFacts, PlaceFacts DEF Low, On
<1>2. above \in Seq(Activity) /\ ToSet(above) \subseteq On(w, t)
  <2>1. place + 1 \in 1..(n + 1) /\ n \in 0..n
    BY <1>1
  <2>2. /\ SubSeq(s, place + 1, n) \in Seq(Activity)
        /\ ToSet(SubSeq(s, place + 1, n)) \subseteq ToSet(s)
    BY <2>1, <1>1, PartFacts
  <2>3. QED
    BY <2>2, <1>1, ReverseFacts
<1>3. v = [u EXCEPT !.stack[t] = SubSeq(u.stack[t], 1, place)]
  BY DEF PopAbove, Leaves, Leave
<1> HIDE DEF above, place, v, u
<1>4. Tame(w, u, {}, {})
  <2>1. b \in BOOLEAN
    OBVIOUS
  <2> HIDE DEF b
  <2>2. QED
    BY <2>1, <1>2, LeavesTame DEF u
<1>5. v.act = u.act
  BY <1>3
<1>6. QED
  BY <1>4, <1>5 DEF Tame, Wanted, Eager, v

\* x leaves the task, and with it what was on top.
LEMMA PopThroughTame ==
    ASSUME NEW w, Low(w), NEW t \in Task, \A y \in On(w, t) : AppOf(w, y) # 0, NEW x,
           IsInjective(w.stack[t])
    PROVE  LET v == PopThrough(w, t, x)
           IN /\ Tame(w, v, {}, {})
              /\ x \notin On(w, t) => v = w
              /\ x \in On(w, t) => Top(w, t) \notin On(v, t)
<1> DEFINE s == w.stack[t]
           n == Len(s)
           place == Place(s, x)
           gone == Reverse(SubSeq(s, place, n))
           u == FoldLeft(LAMBDA v, y : LifecycleTransition(v, y, DESTROYED), w, gone)
           q == SubSeq(s, 1, place - 1)
           v == PopThrough(w, t, x)
<1>1. s \in Seq(Activity) /\ n \in Nat /\ place \in 0..n /\ ToSet(s) = On(w, t) /\ DOMAIN s = 1..n
  BY OnFacts, PlaceFacts, ElementsFacts DEF Low, On
<1>2. CASE ~Contains(s, x)
  <2>1. v = w /\ x \notin On(w, t)
    BY <1>1, <1>2, ElementsFacts DEF PopThrough
  <2>2. QED
    BY <2>1, SameTame
<1>3. CASE Contains(s, x)
  <2>1. place \in 1..n /\ s[place] = x /\ x \in On(w, t)
    BY <1>1, <1>3, ElementsFacts, PlaceFacts
  <2>2. gone \in Seq(Activity) /\ ToSet(gone) \subseteq On(w, t)
    <3>1. place \in 1..(n + 1) /\ n \in 0..n
      BY <1>1, <2>1
    <3>2. /\ SubSeq(s, place, n) \in Seq(Activity)
          /\ ToSet(SubSeq(s, place, n)) \subseteq ToSet(s)
      BY <3>1, <1>1, PartFacts
    <3>3. QED
      BY <3>2, <1>1, ReverseFacts
  <2>3. q \in Seq(Activity) /\ Top(w, t) \notin ToSet(q)
    <3>1. place - 1 \in 0..n /\ 1 \in 1..(n + 1)
      BY <1>1, <2>1
    <3>2. q \in Seq(Activity) /\ ToSet(q) = {s[k] : k \in 1..(place - 1)}
      BY <3>1, <1>1, PartFacts
    <3>3. \A k \in 1..(place - 1) : k \in DOMAIN s /\ n \in DOMAIN s /\ k # n
      BY <1>1, <2>1
    <3>4. \A k \in 1..(place - 1) : s[k] # s[n]
      BY <3>3 DEF IsInjective
    <3>5. Top(w, t) = s[n]
      <4>1. s # <<>> /\ t # 0
        BY <1>1, <2>1, ElementsFacts DEF Task
      <4>2. QED
        BY <4>1, <1>1, ElementsFacts DEF Top
    <3>6. QED
      BY <3>2, <3>4, <3>5
  <2>4. v = [u EXCEPT !.stack[t] = SubSeq(u.stack[t], 1, place - 1)]
    BY <1>3 DEF PopThrough
  <2> HIDE DEF gone, place, v, u
  <2>5. Calm(w, u) /\ Tame(w, u, {}, {})
    BY <2>2, DestroyAll, DestroyTame DEF u
  <2>6. u.stack = w.stack /\ Low(u)
    BY <2>5, CalmMoves DEF Moves
  <2>7. v = [u EXCEPT !.stack[t] = q]
    BY <2>4, <2>6
  <2> HIDE DEF q
  <2>8. v.act = u.act /\ On(v, t) = ToSet(q)
    <3>1. v.stack = [u.stack EXCEPT ![t] = q]
      BY <2>3, <2>6, <2>7, StackSet
    <3>2. v.stack[t] = q
      BY <3>1, <2>6, HeapParts DEF Low
    <3>3. QED
      BY <2>7, <3>2 DEF On
  <2>9. Tame(w, v, {}, {})
    BY <2>5, <2>8 DEF Tame, Wanted, Eager
  <2>10. QED
    BY <2>1, <2>3, <2>8, <2>9 DEF v
<1>4. QED
  BY <1>2, <1>3

\* An activity is asked to be resumed, and another waits for it.
LEMMA ResumeForTame ==
    ASSUME NEW w, Low(w), NEW x \in Activity, AppOf(w, x) # 0, NEW y
    PROVE  Tame(w, ResumeFor(w, x, y), {x}, {})
<1> DEFINE u == LifecycleTransition(w, x, RESUMED)
           v == ResumeFor(w, x, y)
<1>1. Tame(w, u, {x}, {})
  <2>1. RESUMED \in Status
    BY DEF Status
  <2> HIDE DEF RESUMED
  <2>2. QED
    BY <2>1, TransitionTame
<1>2. v = IF y = 0 THEN u ELSE Commit(u, "WAIT_RESUME", x, y)
  BY DEF ResumeFor
<1> HIDE DEF u, v
<1>3. v.act = u.act
  BY <1>2 DEF Commit
<1>4. QED
  BY <1>1, <1>3 DEF Tame, Wanted, Eager, v

\* What a composed step leaves to be resumed: one top is paused and another is resumed.
LEMMA Handover ==
    ASSUME NEW w, NEW v, NEW R, NEW X, Tame(w, v, R, X), \A y \in R : y = Shown(v),
           \A y \in Activity : Stacked(v, y) => Stacked(w, y) \/ y = Shown(v),
           \/ Shown(w) = Shown(v)
           \/ Shown(w) \in Activity /\ Stacked(v, Shown(w)) => ~Wanted(v, Shown(w))
    PROVE  NoStray(w, v)
BY DEF NoStray, Stray, Tame

\* ... and what it leaves willing.
LEMMA WillingKept ==
    ASSUME NEW w, NEW v, NEW R, NEW X, Tame(w, v, R, X), NEW Y, Willing(w, Y),
           \A y \in Activity : Stacked(v, y) => Stacked(w, y) \/ Eager(w, y)
    PROVE  Willing(v, X \union Y)
BY DEF Willing, Tame

\* Steps that leave the tasks alone and ask for nothing to be resumed.
LEMMA CalmHandover ==
    ASSUME NEW w, NEW v, NEW X, Tame(w, v, {}, X), SameTasks(w, v), NEW Y, Willing(w, Y)
    PROVE  NoStray(w, v) /\ Willing(v, X \union Y)
<1>1. /\ Shown(v) = Shown(w)
      /\ \A y \in Activity : Stacked(v, y) <=> Stacked(w, y)
  BY DEF SameTasks, Shown, Top, Active, Stacked, On
<1>2. QED
  BY <1>1 DEF NoStray, Stray, Tame, Willing

\* One handover after the other.
LEMMA NoStrayTransitive ==
    ASSUME NEW w, NEW u, NEW v, NoStray(w, u), NoStray(u, v)
    PROVE  NoStray(w, v)
BY DEF NoStray

LEMMA SoundFacts ==
    ASSUME NEW w, Sound(w)
    PROVE  /\ Low(w) /\ w \in HeapType /\ Owned(w) /\ IsInjective(w.mAllTasks) /\ 0 \notin Activity
           /\ Active(w) \in Task \union {0} /\ (Active(w) # 0 <=> Shown(w) # 0)
           /\ Shown(w) # 0 => /\ Active(w) \in Task /\ Active(w) \in Listed(w)
                              /\ Shown(w) \in Activity /\ AppOf(w, Shown(w)) # 0
                              /\ Shown(w) \in On(w, Active(w))
           /\ ~Stacked(w, 0)
<1>1. /\ Low(w) /\ w \in HeapType /\ Owned(w) /\ IsInjective(w.mAllTasks) /\ 0 \notin Task
      /\ \A t \in Task : On(w, t) \subseteq Activity
  BY BaseFacts, OnFacts DEF Sound
<1>2. Active(w) \in Task \union {0} /\ (Active(w) # 0 => Active(w) \in Task /\ Active(w) \in Listed(w))
  BY <1>1, ActiveFacts
<1>3. 0 \notin Activity
  BY DEF Activity
<1>4. /\ Shown(w) # 0 => /\ Active(w) \in Task /\ Shown(w) \in Activity /\ Shown(w) \in On(w, Active(w))
                         /\ AppOf(w, Shown(w)) # 0
      /\ Active(w) \in Listed(w) => Shown(w) # 0
  BY <1>2, TopIsOwned DEF Sound, Shown
<1>5. Shown(w) # 0 => Active(w) # 0
  BY DEF Shown, Top
<1>6. ~Stacked(w, 0)
  BY <1>1, <1>3 DEF Stacked
<1>7. QED
  BY <1>1, <1>2, <1>3, <1>4, <1>5, <1>6

\* The activities on fewer stacks have their processes still.
LEMMA OwnedKept ==
    ASSUME NEW w, Low(w), Owned(w), NEW v, Moves(w, v), \A t \in Task : On(v, t) \subseteq On(w, t)
    PROVE  Owned(v)
<1>1. \A t \in Task : On(w, t) \subseteq Activity
  BY OnFacts DEF Low
<1>2. QED
  BY <1>1, MovesKeeps DEF Owned

\* The activity that was shown is paused: it is not to be resumed any more.
LEMMA PausedTop ==
    ASSUME NEW w, Sound(w), Willing(w, {}), Shown(w) # 0
    PROVE  LET u == LifecycleTransition(w, Shown(w), PAUSED)
           IN /\ Moves(w, u) /\ Low(u) /\ Owned(u) /\ u.stack = w.stack /\ u.mAllTasks = w.mAllTasks
              /\ Tame(w, u, {}, {}) /\ ~Wanted(u, Shown(w)) /\ AppOf(u, Shown(w)) # 0
              /\ u.mHomeTask = w.mHomeTask
<1> DEFINE x == Shown(w)
           u == LifecycleTransition(w, x, PAUSED)
<1>1. /\ Low(w) /\ Owned(w) /\ x \in Activity /\ AppOf(w, x) # 0 /\ x \in On(w, Active(w))
      /\ Active(w) \in Task
  BY SoundFacts
<1>2. PAUSED \in Status /\ PAUSED # RESUMED
  BY DEF Status
<1>3. Eager(w, x)
  BY <1>1 DEF Willing, Stacked
<1> HIDE DEF PAUSED, RESUMED, x
<1>4. Quiet(w, u)
  BY <1>1, <1>2, TransitionQuiet
<1>5. Tame(w, u, {}, {}) /\ ~Wanted(u, x)
  BY <1>1, <1>2, <1>3, TransitionTame
<1> HIDE DEF u
<1>6. Moves(w, u) /\ SameLists(w, u) /\ u.stack = w.stack /\ Low(u) /\ AppOf(u, x) # 0
  BY <1>1, <1>4, CalmMoves, QuietKeepsApp DEF Quiet
<1>7. Owned(u)
  BY <1>1, <1>6, OwnedKept DEF On
<1>8. QED
  BY <1>5, <1>6, <1>7 DEF u, x, SameLists

\* The top of a task is resumed, and its task put to the front.
LEMMA PushedToFront ==
    ASSUME NEW w, Low(w), Owned(w), NEW t \in Task, Top(w, t) # 0,
           NEW y \in Activity \union {0}, y # 0 => AppOf(w, y) # 0
    PROVE  LET v == PushTaskToFront(ResumeFor(w, Top(w, t), y), t)
           IN Tame(w, v, {Top(w, t)}, {}) /\ v.stack = w.stack /\ Shown(v) = Top(w, t)
<1> DEFINE x == Top(w, t)
           r == ResumeFor(w, x, y)
           v == PushTaskToFront(r, t)
<1>1. x \in Activity /\ AppOf(w, x) # 0
  BY TopFacts DEF Low, Owned
<1> HIDE DEF x
<1>2. Quiet(w, r) /\ Tame(w, r, {x}, {})
  BY <1>1, ResumeForQuiet, ResumeForTame
<1> HIDE DEF r
<1>3. Moves(w, r) /\ r.stack = w.stack /\ Low(r)
  BY <1>2, CalmMoves DEF Quiet, Moves
<1>4. Owned(r)
  BY <1>3, OwnedKept DEF On
<1>5. v.act = r.act /\ Active(v) = t
  BY <1>3, <1>4, PushTaskToFrontActs
<1>6. v.stack = r.stack
  BY <1>3, <1>4, PushTaskToFrontMoves
<1> HIDE DEF v
<1>7. Shown(v) = x
  BY <1>3, <1>5, <1>6 DEF Shown, Top, x
<1>8. Tame(w, v, {x}, {})
  BY <1>2, <1>5 DEF Tame, Eager, Wanted
<1>9. QED
  BY <1>3, <1>6, <1>7, <1>8 DEF v, r, x

\* SwitchTaskToActive() pauses one top and resumes another.
LEMMA SwitchStrays ==
    ASSUME NEW w, Sound(w), Willing(w, {}), NEW t \in Listed(w)
    PROVE  NoStray(w, SwitchTaskToActive(w, t)) /\ Willing(SwitchTaskToActive(w, t), {})
<1> DEFINE current == Shown(w)
           next == Top(w, t)
           u == LifecycleTransition(w, current, PAUSED)
           v == SwitchTaskToActive(w, t)
<1>1. /\ Low(w) /\ w \in HeapType /\ t \in Task /\ Active(w) # 0 /\ current # 0 /\ current \in Activity
      /\ next # 0
  <2>1. t \in Task /\ w \in HeapType /\ NonEmpty(w)
    BY BaseFacts DEF Sound
  <2>2. Active(w) # 0
    BY <2>1, ListedFacts
  <2>3. next # 0
    BY <2>1, TopIsOwned DEF Sound
  <2>4. QED
    BY <2>1, <2>2, <2>3, SoundFacts
<1>2. CASE t = Active(w)
  <2>1. v = w
    BY <1>2 DEF SwitchTaskToActive
  <2>2. QED
    BY <2>1 DEF NoStray
<1>3. CASE t # Active(w)
  <2>1. /\ Moves(w, u) /\ Low(u) /\ Owned(u) /\ u.stack = w.stack /\ Tame(w, u, {}, {})
        /\ ~Wanted(u, current) /\ AppOf(u, current) # 0
    BY <1>1, PausedTop
  <2>2. v = PushTaskToFront(ResumeFor(u, next, current), t)
    BY <1>1, <1>3 DEF SwitchTaskToActive, Shown
  <2> HIDE DEF u, current, next, v
  <2>3. Top(u, t) = next
    BY <2>1 DEF Top, next
  <2>4. Tame(u, v, {next}, {}) /\ v.stack = u.stack /\ Shown(v) = next
    BY <2>1, <2>2, <2>3, <1>1, PushedToFront
  <2>5. Tame(w, v, {} \union {next}, {} \union {})
    BY <2>1, <2>4, TameTransitive
  <2>6. Wanted(v, current) => current = next
    BY <2>1, <2>4, <1>1 DEF Tame
  <2>7. \A y \in Activity : Stacked(v, y) <=> Stacked(w, y)
    BY <2>1, <2>4 DEF Stacked, On
  <2>8. NoStray(w, v)
    BY <2>4, <2>5, <2>6, <2>7, Handover DEF current
  <2>9. Willing(v, {} \union {})
    BY <2>5, <2>7, WillingKept
  <2>10. QED
    BY <2>8, <2>9 DEF v
<1>4. QED
  BY <1>2, <1>3

\* Putting a task behind the home task leaves the first of the others.
LEMMA BehindHomeHead ==
    ASSUME NEW list \in Seq(Task), list # <<>>, NEW home, NEW t \in Task, t # Head(list), home # t,
           NEW b \in BOOLEAN
    PROVE  LET r == BehindHome(list, home, t, b)
           IN r # <<>> /\ Head(r) = Head(list)
<1> DEFINE rest == Without(list, t)
           i == Place(rest, home) + 1
           in == InsertAt(rest, i, t)
           r == BehindHome(list, home, t, b)
<1>1. rest \in Seq(Task) /\ rest # <<>> /\ Head(rest) = Head(list)
  BY WithoutFacts, WithoutHead
<1>2. r \in {rest, list} \/ (r = in /\ Contains(list, home))
  BY DEF BehindHome
<1>3. CASE r \in {rest, list}
  BY <1>1, <1>3
<1>4. CASE r = in /\ Contains(list, home)
  <2>1. Contains(list, home) => home \in ToSet(list)
    BY ElementsFacts
  <2>2. home \in ToSet(rest)
    BY <2>1, <1>4, WithoutFacts
  <2>3. Len(rest) \in Nat /\ Len(rest) >= 1 /\ Place(rest, home) \in 0..Len(rest)
        /\ (home \in ToSet(rest) => Place(rest, home) # 0) /\ Head(rest) = rest[1]
    BY <1>1, ElementsFacts, PlaceFacts
  <2> HIDE DEF rest, r
  <2>4. i \in 1..(Len(rest) + 1) /\ 1 \in 1..(Len(rest) + 1)
    BY <2>3
  <2>5. /\ in \in Seq(Task) /\ Len(in) = Len(rest) + 1
        /\ in[1] = IF 1 < i THEN rest[1] ELSE IF 1 = i THEN t ELSE rest[1 - 1]
    <3> HIDE DEF i
    <3>1. QED
      BY <2>4, <1>1, InsertAtFacts
  <2>6. in[1] = rest[1]
    BY <2>2, <2>3, <2>5
  <2> HIDE DEF in
  <2>7. in # <<>> /\ Head(in) = in[1]
    BY <2>3, <2>5, ElementsFacts
  <2>8. QED
    BY <2>6, <2>7, <2>3, <1>1, <1>4 DEF r
<1>5. QED
  BY <1>2, <1>3, <1>4

\* LeaveActive() pauses one top and resumes that of the next task.
LEMMA LeaveActiveTame ==
    ASSUME NEW w, Sound(w), Willing(w, {}), Active(w) # 0
    PROVE  LET v == LeaveActive(w)
           IN Tame(w, v, {Shown(v)}, {}) /\ (Wanted(v, Shown(w)) => Shown(w) = Shown(v))
<1> DEFINE t == Active(w)
           top == Shown(w)
           p == LifecycleTransition(w, top, PAUSED)
           f == StackForeground(p, t, FALSE)
           u == [f EXCEPT !.mAllTasks = Tail(f.mAllTasks)]
           n == Active(u)
           next == Top(u, n)
           r == IF next = 0 THEN u ELSE ResumeFor(u, next, top)
           v == LeaveActive(w)
<1>1. /\ Low(w) /\ w \in HeapType /\ t \in Task /\ top # 0 /\ top \in Activity
      /\ w.mAllTasks \in Seq(Task) /\ w.mAllTasks # <<>>
  BY SoundFacts, ListedFacts, ActiveFacts
<1>2. v = IF n = 0 THEN u ELSE StackForeground(r, n, TRUE)
  BY DEF LeaveActive, Shown
<1>3. /\ Moves(w, p) /\ Low(p) /\ Owned(p) /\ p.mAllTasks = w.mAllTasks
      /\ Tame(w, p, {}, {}) /\ ~Wanted(p, top) /\ AppOf(p, top) # 0
  BY <1>1, PausedTop
<1> HIDE DEF t, top, p
<1>4. Quiet(p, f) /\ f.act = p.act
  BY <1>1, <1>3, StackForegroundQuiet, StackForegroundActs DEF Owned
<1> HIDE DEF f
<1>5. Moves(p, f) /\ SameLists(p, f) /\ f.stack = p.stack /\ Low(f)
  BY <1>4, CalmMoves DEF Quiet, Moves
<1>6. Tail(f.mAllTasks) \in Seq(Task)
  BY <1>1, <1>3, <1>5, TailFacts DEF SameLists
<1>7. Moves(f, u) /\ u.stack = f.stack /\ u.act = f.act /\ Low(u)
  BY <1>5, <1>6, ListSet DEF Moves
<1> HIDE DEF u
<1>8. Moves(p, u) /\ u.stack = p.stack /\ Low(u) /\ u \in HeapType /\ u.act = p.act
  BY <1>3, <1>4, <1>5, <1>7, MovesTransitive DEF Low
<1>9. Owned(u) /\ AppOf(u, top) # 0
  BY <1>1, <1>3, <1>8, OwnedKept, MovesKeeps DEF On
<1>10. Tame(w, u, {}, {}) /\ ~Wanted(u, top)
  BY <1>3, <1>8 DEF Tame, Eager, Wanted
<1>11. n \in Task \union {0}
  BY <1>8, ActiveFacts
<1>12. CASE n = 0
  BY <1>2, <1>10, <1>12 DEF Tame, top
<1>13. CASE n # 0
  <2>1. n \in Task /\ (next # 0 => next \in Activity /\ AppOf(u, next) # 0)
    BY <1>8, <1>9, <1>11, <1>13, TopFacts DEF Owned
  <2>2. Active(u) = n /\ next = Top(u, n)
    OBVIOUS
  <2> HIDE DEF n, next, v
  <2>3. Quiet(u, r) /\ Tame(u, r, {next}, {})
    <3>1. CASE next = 0
      BY <3>1, <1>8, QuietReflexive DEF Tame
    <3>2. CASE next # 0
      BY <3>2, <1>1, <1>8, <1>9, <2>1, ResumeForQuiet, ResumeForTame
    <3>3. QED
      BY <3>1, <3>2
  <2> HIDE DEF r
  <2>4. Moves(u, r) /\ r.stack = u.stack /\ Low(r) /\ r.mAllTasks = u.mAllTasks
    BY <2>3, CalmMoves DEF Quiet, Moves, SameLists
  <2>5. Owned(r)
    BY <1>8, <1>9, <2>4, OwnedKept DEF On
  <2>6. Quiet(r, v) /\ v.act = r.act
    BY <1>2, <1>13, <2>1, <2>4, <2>5, StackForegroundQuiet, StackForegroundActs DEF Owned
  <2>7. v.stack = r.stack /\ v.mAllTasks = r.mAllTasks
    BY <2>6, CalmMoves DEF Quiet, SameLists
  <2>8. Shown(v) = next
    BY <2>2, <2>4, <2>7 DEF Shown, Top, Active
  <2>9. Tame(w, r, {next}, {})
    BY <1>10, <2>3 DEF Tame
  <2>10. Tame(w, v, {next}, {}) /\ (Wanted(v, top) => top = next)
    BY <1>1, <1>10, <2>3, <2>6, <2>9 DEF Tame, Eager, Wanted
  <2>11. QED
    BY <2>8, <2>10 DEF v, top
<1>14. QED
  BY <1>12, <1>13

\* A task that is not the active one is moved behind the home task, and the active one stays.
LEMMA MoveTaskStrays ==
    ASSUME NEW w, Sound(w), Willing(w, {}), NEW t \in Task
    PROVE  NoStray(w, MoveTaskToBackground(w, t)) /\ Willing(MoveTaskToBackground(w, t), {})
<1> DEFINE b == t = Active(w)
           home == w.mHomeTask
           left == IF b THEN LeaveActive(w) ELSE w
           q == BehindHome(left.mAllTasks, home, t, b)
           v == MoveTaskToBackground(w, t)
<1>1. /\ Base(w) /\ Low(w) /\ w \in HeapType /\ 0 \notin Task /\ IsInjective(w.mAllTasks)
      /\ w.mAllTasks \in Seq(Task)
  BY BaseFacts, ListedFacts DEF Sound
<1>2. CASE t = home
  <2>1. v = w
    BY <1>2 DEF MoveTaskToBackground
  <2>2. QED
    BY <2>1 DEF NoStray
<1>3. CASE t # home
  <2>1. v = [left EXCEPT !.mAllTasks = q]
    BY <1>3 DEF MoveTaskToBackground
  <2>2. b => /\ Active(w) # 0 /\ t \in Listed(w) /\ w.mAllTasks # <<>> /\ Head(w.mAllTasks) = t
             /\ home \in Listed(w)
    BY <1>1, ListedFacts, ActiveFacts DEF Active, Sound, HomeListed
  <2>3. /\ left.stack = w.stack /\ Low(left)
        /\ left.mAllTasks = IF b THEN Tail(w.mAllTasks) ELSE w.mAllTasks
    BY <1>1, <2>2, LeaveActiveMoves DEF Moves
  <2>4. Tame(w, left, {Shown(left)}, {})
        /\ (Shown(w) = Shown(left) \/ (Wanted(left, Shown(w)) => Shown(w) = Shown(left)))
    <3>1. CASE b
      BY <3>1, <2>2, LeaveActiveTame
    <3>2. CASE ~b
      BY <3>2 DEF Tame
    <3>3. QED
      BY <3>1, <3>2
  <2>5. b \in BOOLEAN
    OBVIOUS
  <2>6. ~b => t # Active(w)
    OBVIOUS
  <2> HIDE DEF left, b, v, home
  <2>7. left.mAllTasks \in Seq(Task) /\ (left.mAllTasks = <<>> => ~b)
        /\ (left.mAllTasks # <<>> => Head(left.mAllTasks) # t) /\ IsInjective(left.mAllTasks)
    <3>1. CASE b
      <4>1. /\ Tail(w.mAllTasks) \in Seq(Task) /\ IsInjective(Tail(w.mAllTasks))
            /\ Listed(w) = ToSet(Tail(w.mAllTasks)) \union {t} /\ t \notin ToSet(Tail(w.mAllTasks))
        BY <3>1, <2>2, <1>1, TailFacts DEF Listed
      <4>2. home \in ToSet(Tail(w.mAllTasks))
        BY <4>1, <3>1, <2>2, <1>3 DEF home
      <4> DEFINE s == Tail(w.mAllTasks)
      <4>3. left.mAllTasks = s
        BY <3>1, <2>3
      <4> HIDE DEF s
      <4>4. s # <<>> /\ (s # <<>> => Head(s) \in ToSet(s))
        BY <4>1, <4>2, ElementsFacts DEF s
      <4>5. QED
        BY <4>1, <4>3, <4>4 DEF s
    <3>2. CASE ~b
      BY <3>2, <2>3, <2>6, <1>1 DEF Active
    <3>3. QED
      BY <3>1, <3>2
  <2>8. q \in Seq(Task) /\ (IF q = <<>> THEN 0 ELSE Head(q)) = Active(left)
    <3> DEFINE list == left.mAllTasks
    <3>1. list \in Seq(Task) /\ IsInjective(list)
      BY <2>7
    <3>2. q = BehindHome(list, home, t, b) /\ Active(left) = IF list = <<>> THEN 0 ELSE Head(list)
      BY DEF Active
    <3>3. (list = <<>> => ~b) /\ (list # <<>> => Head(list) # t) /\ home # t
      BY <2>7, <1>3 DEF home
    <3> HIDE DEF list, q
    <3>4. /\ q \in Seq(Task) /\ (~b => ToSet(q) \subseteq ToSet(list))
      BY <2>5, <3>1, <3>2, BehindHomeFacts
    <3>5. CASE list = <<>>
      <4>1. ToSet(list) = {}
        BY <3>1, <3>5, ElementsFacts
      <4>2. ToSet(q) = {}
        BY <3>3, <3>4, <3>5, <4>1
      <4>3. q = <<>>
        BY <3>4, <4>2, ElementsFacts
      <4>4. QED
        BY <3>2, <3>4, <3>5, <4>3
    <3>6. CASE list # <<>>
      BY <2>5, <3>1, <3>2, <3>3, <3>4, <3>6, BehindHomeHead
    <3>7. QED
      BY <3>5, <3>6, <3>4
  <2> HIDE DEF q
  <2>9. v.mAllTasks = q /\ v.stack = left.stack /\ v.act = left.act
    BY <2>1, <2>3, <2>8, ListSet
  <2>10. Shown(v) = Shown(left)
    BY <2>8, <2>9 DEF Shown, Top, Active
  <2>11. Tame(w, v, {Shown(v)}, {})
         /\ (Shown(w) = Shown(v) \/ (Wanted(v, Shown(w)) => Shown(w) = Shown(v)))
    BY <2>4, <2>9, <2>10 DEF Tame, Eager, Wanted
  <2>12. \A y \in Activity : Stacked(v, y) <=> Stacked(w, y)
    BY <2>3, <2>9 DEF Stacked, On
  <2>13. NoStray(w, v)
    BY <2>11, <2>12, Handover
  <2>14. Willing(v, {} \union {})
    BY <2>11, <2>12, WillingKept
  <2>15. QED
    BY <2>13, <2>14 DEF v
<1>4. QED
  BY <1>2, <1>3

\* What is left below x and x itself, which is on top then.
LEMMA CutTop ==
    ASSUME NEW S, NEW s \in Seq(S), IsInjective(s), NEW x \in ToSet(s)
    PROVE  LET cut == SubSeq(s, 1, Place(s, x))
           IN cut # <<>> /\ Last(cut) = x /\ (Last(s) \in ToSet(cut) => Last(s) = x)
<1> DEFINE n == Len(s)
           i == Place(s, x)
           cut == SubSeq(s, 1, i)
<1>1. n \in Nat /\ i \in 1..n /\ s[i] = x /\ Last(s) = s[n] /\ DOMAIN s = 1..n
  BY ElementsFacts, PlaceFacts
<1> HIDE DEF i
<1>2. cut # <<>> /\ Last(cut) = x
  <2>1. Len(cut) = i /\ cut[i] = s[i]
    BY <1>1
  <2>2. cut \in Seq(S)
    BY <1>1
  <2> HIDE DEF cut
  <2>3. QED
    BY <1>1, <2>1, <2>2, ElementsFacts
<1>3. ToSet(cut) = {s[k] : k \in 1..i}
  <2>1. 1 \in 1..(n + 1) /\ i \in 0..n
    BY <1>1
  <2>2. QED
    BY <2>1, PartFacts
<1>4. ASSUME s[n] \in ToSet(cut) PROVE s[n] = x
  <2>1. PICK k \in 1..i : s[n] = s[k]
    BY <1>3, <1>4
  <2>2. k \in DOMAIN s /\ n \in DOMAIN s
    BY <1>1
  <2>3. k = n
    BY <2>1, <2>2 DEF IsInjective
  <2>4. QED
    BY <1>1, <2>3
<1>5. QED
  BY <1>1, <1>2, <1>4 DEF i

\* The loop over what is on top of x: the tasks that result, and nobody asked for.
LEMMA PopAboveLeaves ==
    ASSUME NEW w, Low(w), Owned(w), NEW t \in Task, NEW x
    PROVE  LET v == PopAbove(w, t, x)
           IN /\ Moves(w, v) /\ Low(v) /\ Owned(v) /\ Tame(w, v, {}, {}) /\ v.mAllTasks = w.mAllTasks
              /\ v.stack[t] = SubSeq(w.stack[t], 1, Place(w.stack[t], x))
              /\ \A r \in Task : r # t => v.stack[r] = w.stack[r]
              /\ \A r \in Task : On(v, r) \subseteq On(w, r)
              /\ v.mHomeTask = w.mHomeTask
<1> DEFINE s == w.stack[t]
           cut == SubSeq(s, 1, Place(s, x))
           v == PopAbove(w, t, x)
<1>1. s \in Seq(Activity) /\ w.stack \in [Task -> Seq(Activity)] /\ Place(s, x) \in 0..Len(s)
  BY HeapParts, PlaceFacts DEF Low
<1>2. ToSet(cut) \subseteq ToSet(s)
  BY <1>1, CutFacts
<1>3. Moves(w, v) /\ SameLists(w, v) /\ v.stack = [w.stack EXCEPT ![t] = cut]
  BY PopAboveMoves DEF Owned
<1>4. Tame(w, v, {}, {})
  BY PopAboveTame DEF Owned
<1> HIDE DEF v, cut
<1>5. v.stack[t] = cut /\ \A r \in Task : r # t => v.stack[r] = w.stack[r]
  BY <1>1, <1>3
<1>6. \A r \in Task : On(v, r) \subseteq On(w, r)
  BY <1>2, <1>5 DEF On
<1>7. Low(v) /\ Owned(v)
  BY <1>3, <1>6, OwnedKept DEF Moves
<1>8. QED
  BY <1>3, <1>4, <1>5, <1>6, <1>7 DEF v, cut, SameLists

\* TurnToActivity() pauses the top that was shown and resumes x, which comes to be shown.
LEMMA TurnStrays ==
    ASSUME NEW w, Sound(w), Willing(w, {}), NEW t \in Listed(w), NEW x \in On(w, t), NEW clearTop \in BOOLEAN,
           clearTop \/ x = Top(w, t)
    PROVE  LET v == TurnToActivity(w, t, x, clearTop) IN NoStray(w, v) /\ Willing(v, {})
<1> DEFINE active == Active(w)
           last == Shown(w)
           a == LifecycleTransition(w, last, PAUSED)
           b == IF clearTop THEN PopAbove(a, t, x) ELSE a
           y == IF t = active THEN 0 ELSE last
           v == TurnToActivity(w, t, x, clearTop)
<1>1. /\ Low(w) /\ w \in HeapType /\ t \in Task /\ Owned(w) /\ active \in Task /\ last # 0
      /\ last \in Activity /\ x \in Activity /\ AppOf(w, x) # 0 /\ IsInjective(w.stack[t])
      /\ w.stack[t] \in Seq(Activity) /\ ToSet(w.stack[t]) = On(w, t)
  <2>1. t \in Task /\ w \in HeapType /\ x \in Activity /\ AppOf(w, x) # 0 /\ IsInjective(w.stack[t])
    BY BaseFacts DEF Sound
  <2>2. Active(w) # 0
    BY <2>1, ListedFacts
  <2>3. QED
    BY <2>1, <2>2, SoundFacts, OnFacts DEF On
<1>2. CASE last = x
  <2> DEFINE p == [w EXCEPT !.act[x].mStatus = PAUSED]
  <2>1. /\ p \in HeapType /\ SameButAct(w, p) /\ p.act[x] = [w.act[x] EXCEPT !.mStatus = PAUSED]
        /\ \A z \in Activity : z # x => p.act[z] = w.act[z]
    <3>1. PAUSED \in Status
      BY DEF Status
    <3> HIDE DEF PAUSED
    <3>2. QED
      BY <3>1, <1>1, StatusSet
  <2>2. p.act[x].mStatus = PAUSED
    <3>1. w.act[x] \in ActivityType
      BY <1>1, HeapParts
    <3>2. QED
      BY <2>1, <3>1 DEF ActivityType
  <2>3. Low(p) /\ AppOf(p, x) # 0
    <3>1. PAUSED \in Status /\ PAUSED > INIT
      BY DEF Status
    <3> HIDE DEF PAUSED, INIT
    <3>2. Low(p)
      BY <3>1, <1>1, StatusQuiet
    <3>3. w.act[x] \in ActivityType
      BY <1>1, HeapParts
    <3>4. p.act[x].mApp = w.act[x].mApp
      BY <3>3, <2>1 DEF ActivityType
    <3> HIDE DEF p
    <3>5. QED
      BY <3>2, <3>4, <1>1 DEF AppOf
  <2>4. v = Turn(p, x, RESUMED)
    <3>1. v = LifecycleTransition(p, x, RESUMED)
      BY <1>2 DEF TurnToActivity, Shown
    <3>2. x # 0
      BY <1>1, <1>2
    <3>3. QED
      BY <3>1, <3>2 DEF LifecycleTransition
  <2> HIDE DEF p, v
  <2>5. Tame(p, v, {x}, {}) /\ Eager(v, x) /\ Quiet(p, v)
    <3>1. RESUMED \in Status /\ ~Busy(PAUSED) /\ PAUSED # DESTROYED
      BY DEF Status, Busy
    <3> HIDE DEF RESUMED, PAUSED, DESTROYED
    <3>2. QED
      BY <3>1, <2>2, <2>3, <2>4, <1>1, TurnTame, TurnQuiet
  <2>6. Tame(w, v, {x}, {})
    BY <2>1, <2>5 DEF Tame, Eager, Wanted
  <2>7. v.stack = w.stack /\ v.mAllTasks = w.mAllTasks
    BY <2>1, <2>5, CalmMoves DEF Quiet, SameLists, SameButAct
  <2>8. Shown(v) = Shown(w) /\ \A z \in Activity : Stacked(v, z) <=> Stacked(w, z)
    BY <2>7 DEF Shown, Top, Active, Stacked, On
  <2>9. NoStray(w, v)
    BY <2>6, <2>8, <1>2, Handover
  <2>10. Willing(v, {} \union {})
    BY <2>6, <2>8, WillingKept
  <2>11. QED
    BY <2>9, <2>10 DEF v
<1>3. CASE last # x
  <2>1. v = PushTaskToFront(ResumeFor(b, x, y), t)
    BY <1>1, <1>3 DEF TurnToActivity, Shown
  <2>2. /\ Moves(w, a) /\ Low(a) /\ Owned(a) /\ a.stack = w.stack
        /\ Tame(w, a, {}, {}) /\ ~Wanted(a, last) /\ AppOf(a, last) # 0
    BY <1>1, PausedTop
  <2>3. y \in {0, last}
    OBVIOUS
  <2> HIDE DEF a, v, last, active, y
  <2>4. /\ Moves(a, b) /\ Low(b) /\ Owned(b) /\ Tame(a, b, {}, {})
        /\ \A r \in Task : On(b, r) \subseteq On(w, r)
        /\ Top(b, t) = x
    <3>1. t # 0 /\ x # 0
      BY <1>1, BaseFacts, SoundFacts DEF Sound
    <3>2. CASE ~clearTop
      <4>1. b = a /\ Top(a, t) = Top(w, t)
        BY <3>2, <2>2 DEF Top
      <4>2. QED
        BY <3>2, <4>1, <2>2, MovesReflexive DEF On, Tame
    <3>3. CASE clearTop
      <4>1. /\ Moves(a, b) /\ Low(b) /\ Owned(b) /\ Tame(a, b, {}, {})
            /\ b.stack[t] = SubSeq(a.stack[t], 1, Place(a.stack[t], x))
            /\ \A r \in Task : On(b, r) \subseteq On(a, r)
        BY <3>3, <2>2, <1>1, PopAboveLeaves
      <4>2. b.stack[t] # <<>> /\ Last(b.stack[t]) = x
        <5> DEFINE s == w.stack[t]
        <5>1. s \in Seq(Activity) /\ IsInjective(s) /\ x \in ToSet(s)
          BY <1>1
        <5>2. b.stack[t] = SubSeq(s, 1, Place(s, x))
          BY <4>1, <2>2
        <5> HIDE DEF s
        <5>3. QED
          BY <5>1, <5>2, CutTop
      <4>3. QED
        BY <3>1, <4>1, <4>2, <2>2 DEF Top, On
    <3>4. QED
      BY <3>2, <3>3
  <2> HIDE DEF b
  <2>5. y \in Activity \union {0} /\ (y # 0 => AppOf(b, y) # 0) /\ Top(b, t) # 0
    <3>1. AppOf(b, last) # 0 /\ 0 \notin Activity
      BY <1>1, <2>2, <2>4, MovesKeeps, SoundFacts
    <3>2. QED
      BY <3>1, <2>3, <2>4, <1>1
  <2>6. Tame(b, v, {x}, {}) /\ v.stack = b.stack /\ Shown(v) = x
    BY <2>1, <2>4, <2>5, <1>1, PushedToFront
  <2>7. Tame(w, b, {}, {}) /\ ~Wanted(b, last)
    BY <2>2, <2>4, <1>1 DEF Tame
  <2>8. Tame(w, v, {x}, {}) /\ ~Wanted(v, last)
    BY <2>6, <2>7, <1>1, <1>3 DEF Tame
  <2>9. \A z \in Activity : Stacked(v, z) => Stacked(w, z)
    BY <2>4, <2>6 DEF Stacked, On
  <2>10. NoStray(w, v)
    BY <2>6, <2>8, <2>9, Handover DEF last
  <2>11. Willing(v, {} \union {})
    BY <2>8, <2>9, WillingKept
  <2>12. QED
    BY <2>10, <2>11 DEF v
<1>4. QED
  BY <1>2, <1>3

\* PushNewActivity() pauses the top that was shown; the new activity comes to be shown.
LEMMA PushNewStrays ==
    ASSUME NEW w, Sound(w), Willing(w, {}), NEW t, NEW x, Pushable(w, t, x), NEW clear \in BOOLEAN
    PROVE  LET v == PushNewActivity(w, t, x, clear) IN NoStray(w, v) /\ Willing(v, {})
<1> DEFINE active == Active(w)
           top == Shown(w)
           a == IF active = 0 THEN [w EXCEPT !.mHomeTask = t]
                         ELSE LifecycleTransition(w, top, PAUSED)
           b == IF clear THEN PopAbove(a, t, 0) ELSE a
           s == Append(b.stack[t], x)
           c == [b EXCEPT !.stack[t] = s]
           d == IF t = active THEN SetForeground(c, x, TRUE) ELSE c
           v == PushNewActivity(w, t, x, clear)
<1>1. /\ Low(w) /\ w \in HeapType /\ Owned(w) /\ 0 \notin Activity /\ (active # 0 <=> top # 0)
      /\ top # 0 => top \in Activity
      /\ t \in Task /\ 0 \notin Task /\ x \in Activity /\ AppOf(w, x) # 0 /\ w.act[x].mStatus = INIT
  BY SoundFacts, BaseFacts DEF Pushable, Sound
<1>2. v = PushTaskToFront(ResumeFor(d, x, top), t)
  BY <1>1 DEF PushNewActivity, Shown
<1>3. Eager(w, x)
  BY <1>1 DEF Eager
<1> HIDE DEF v, top, active
<1>4. /\ Moves(w, a) /\ Low(a) /\ Owned(a) /\ a.stack = w.stack
      /\ Tame(w, a, {}, {}) /\ (top # 0 => ~Wanted(a, top) /\ AppOf(a, top) # 0)
  <2>1. CASE active = 0
    <3>1. Moves(w, a) /\ a.stack = w.stack /\ a.act = w.act
      BY <2>1, <1>1, HomeSet
    <3>2. Owned(a)
      BY <3>1, <1>1, OwnedKept DEF On
    <3>3. QED
      BY <3>1, <3>2, <2>1, <1>1, SameTame DEF Moves
  <2>2. CASE active # 0
    BY <2>2, <1>1, PausedTop DEF top
  <2>3. QED
    BY <2>1, <2>2
<1> HIDE DEF a
<1>5. /\ Moves(a, b) /\ Low(b) /\ Owned(b) /\ Tame(a, b, {}, {})
      /\ \A r \in Task : On(b, r) \subseteq On(w, r)
  <2>1. CASE ~clear
    BY <2>1, <1>4, MovesReflexive DEF On, Tame
  <2>2. CASE clear
    BY <2>2, <1>1, <1>4, PopAboveLeaves DEF On
  <2>3. QED
    BY <2>1, <2>2
<1> HIDE DEF b
<1>6. s \in Seq(Activity) /\ s # <<>> /\ Last(s) = x /\ ToSet(s) = On(b, t) \union {x}
  <2>1. b.stack[t] \in Seq(Activity)
    BY <1>1, <1>5, HeapParts DEF Low
  <2>2. QED
    BY <2>1, <1>1, AppendFacts DEF On
<1> HIDE DEF s
<1>7. /\ Moves(b, c) /\ Low(c) /\ c.act = b.act /\ c.stack[t] = s
      /\ \A r \in Task : r # t => c.stack[r] = b.stack[r]
  <2>1. Moves(b, c) /\ c.stack = [b.stack EXCEPT ![t] = s] /\ c.act = b.act
    BY <1>1, <1>5, <1>6, StackSet
  <2>2. b.stack \in [Task -> Seq(Activity)]
    BY <1>5, HeapParts DEF Low
  <2>3. QED
    BY <2>1, <2>2, <1>1 DEF Moves
<1> HIDE DEF c
<1>8. Moves(w, b) /\ Moves(w, c) /\ AppOf(c, x) # 0
  BY <1>1, <1>4, <1>5, <1>7, MovesTransitive, MovesKeeps
<1>9. Quiet(c, d) /\ d.act = c.act
  <2>1. TRUE \in BOOLEAN
    OBVIOUS
  <2>2. QED
    BY <2>1, <1>1, <1>7, <1>8, SetForegroundQuiet, QuietReflexive, ForegroundActs, ZenonT(30)
<1> HIDE DEF d
<1>10. Moves(c, d) /\ d.stack = c.stack /\ Low(d)
  BY <1>9, CalmMoves DEF Quiet, Moves
<1>11. Moves(w, d) /\ Moves(b, d)
  BY <1>1, <1>5, <1>7, <1>8, <1>10, MovesTransitive
<1>12. On(d, t) = On(b, t) \union {x} /\ \A r \in Task : r # t => On(d, r) = On(b, r)
  BY <1>6, <1>7, <1>10 DEF On
<1>13. Owned(d)
  <2>1. \A r \in Task : On(b, r) \subseteq Activity
    BY <1>5, OnFacts DEF Low
  <2>2. \A y \in Activity : AppOf(d, y) = AppOf(b, y) /\ AppOf(d, y) = AppOf(w, y)
    BY <1>1, <1>5, <1>11, MovesKeeps
  <2>3. QED
    BY <2>1, <2>2, <1>1, <1>5, <1>12 DEF Owned
<1>14. Top(d, t) = x /\ x # 0 /\ top \in Activity \union {0} /\ (top # 0 => AppOf(d, top) # 0)
  <2>1. top # 0 => AppOf(d, top) # 0
    BY <1>1, <1>4, <1>11, MovesKeeps
  <2>2. QED
    BY <2>1, <1>1, <1>6, <1>7, <1>10 DEF Top
<1>15. Tame(d, v, {x}, {}) /\ v.stack = d.stack /\ Shown(v) = x
  BY <1>1, <1>2, <1>10, <1>13, <1>14, PushedToFront
<1>16. Tame(w, d, {}, {}) /\ (top # 0 => ~Wanted(d, top))
  <2>1. Tame(w, b, {}, {}) /\ (top # 0 => ~Wanted(b, top))
    BY <1>1, <1>4, <1>5 DEF Tame
  <2>2. d.act = b.act
    BY <1>7, <1>9
  <2>3. QED
    BY <2>1, <2>2 DEF Tame, Eager, Wanted
<1>17. Tame(w, v, {x}, {}) /\ (top \in Activity => top = x \/ ~Wanted(v, top))
  BY <1>1, <1>15, <1>16 DEF Tame
<1>18. \A z \in Activity : Stacked(v, z) => Stacked(w, z) \/ z = x
  <2>1. \A r \in Task : On(v, r) \subseteq On(w, r) \union {x}
    BY <1>5, <1>12, <1>15 DEF On
  <2>2. QED
    BY <2>1 DEF Stacked
<1>19. NoStray(w, v)
  BY <1>15, <1>17, <1>18, Handover DEF top
<1>20. Willing(v, {} \union {})
  BY <1>3, <1>17, <1>18, WillingKept
<1>21. QED
  BY <1>19, <1>20 DEF v

\* Leaving an empty task does not concern the activities.
LEMMA LeaveEmptyActs ==
    ASSUME NEW w, Low(w), Owned(w), Active(w) # 0
    PROVE  LeaveEmptyTask(w, Active(w)).act = w.act
<1> DEFINE t == Active(w)
           a == [w EXCEPT !.mAllTasks = Tail(w.mAllTasks)]
           b == IF t = w.mHomeTask THEN [a EXCEPT !.mHomeTask = Active(a)] ELSE a
           v == LeaveEmptyTask(w, t)
<1>1. w \in HeapType /\ t \in Task /\ Tail(w.mAllTasks) \in Seq(Task)
  BY ActiveFacts, ListedFacts, TailFacts DEF Low
<1>2. v = IF Active(b) = 0 THEN b ELSE StackForeground(b, Active(b), TRUE)
  BY DEF LeaveEmptyTask
<1> HIDE DEF t, v
<1>3. Moves(w, a) /\ a.stack = w.stack /\ a.act = w.act /\ Low(a)
  BY <1>1, ListSet DEF Moves
<1> HIDE DEF a
<1>4. Active(a) \in Task \union {0}
  BY <1>3, ActiveFacts DEF Low
<1>5. Moves(a, b) /\ b.stack = a.stack /\ b.act = a.act /\ Low(b)
  <2>1. CASE t = w.mHomeTask
    BY <2>1, <1>3, <1>4, HomeSet DEF Moves
  <2>2. CASE t # w.mHomeTask
    BY <2>2, <1>3, MovesReflexive
  <2>3. QED
    BY <2>1, <2>2
<1> HIDE DEF b
<1>6. Moves(w, b) /\ Active(b) \in Task \union {0}
  BY <1>3, <1>5, MovesTransitive, ActiveFacts DEF Low
<1>7. Owned(b)
  BY <1>3, <1>5, <1>6, OwnedKept DEF On
<1>8. Active(b) # 0 => StackForeground(b, Active(b), TRUE).act = b.act
  BY <1>5, <1>6, <1>7, StackForegroundActs DEF Owned
<1>9. QED
  BY <1>2, <1>3, <1>5, <1>8 DEF v, t

\* Only the next activity is asked for in place of a finished one.
LEMMA ReplacedTame ==
    ASSUME NEW w, Low(w), Owned(w), NEW x \in Activity, AppOf(w, x) # 0
    PROVE  Tame(w, Replaced(w, x), {Shown(w)}, {})
<1> DEFINE next == Shown(w)
           a == LifecycleTransition(w, x, PAUSED)
           b == LifecycleTransition(a, next, RESUMED)
           d == LifecycleTransition(w, x, DESTROYED)
           v == Commit(b, "DELAY_DESTROY", next, x)
<1>1. next # 0 => next \in Activity /\ AppOf(w, next) # 0
  BY TopFacts, ActiveFacts DEF Low, Owned, Shown
<1>2. Replaced(w, x) = IF next = 0 THEN d ELSE v
  BY DEF Replaced, Shown
<1>3. /\ PAUSED \in Status /\ PAUSED # RESUMED /\ DESTROYED \in Status /\ DESTROYED # RESUMED
      /\ RESUMED \in Status
  BY DEF Status
<1> HIDE DEF next, PAUSED, DESTROYED, RESUMED
<1>4. CASE next = 0
  <2>1. Tame(w, d, {}, {})
    BY <1>3, TransitionTame
  <2>2. QED
    BY <2>1, <1>2, <1>4 DEF Tame
<1>5. CASE next # 0
  <2>1. Quiet(w, a) /\ Tame(w, a, {}, {})
    BY <1>3, TransitionQuiet, TransitionTame
  <2> HIDE DEF a
  <2>2. Low(a) /\ AppOf(a, next) # 0
    BY <1>1, <1>5, <2>1, QuietKeepsApp DEF Quiet
  <2>3. Tame(a, b, {next}, {})
    BY <1>1, <1>3, <1>5, <2>2, TransitionTame
  <2> HIDE DEF b
  <2>4. v.act = b.act
    BY DEF Commit
  <2> HIDE DEF v
  <2>5. Tame(w, v, {next}, {})
    BY <2>1, <2>3, <2>4 DEF Tame, Eager, Wanted
  <2>6. QED
    BY <2>5, <1>2, <1>5 DEF next
<1>6. QED
  BY <1>4, <1>5

\* An activity on a stack is on its own task, which is listed.
LEMMA OwnTask ==
    ASSUME NEW w, Sound(w), NEW x \in Activity, Stacked(w, x)
    PROVE  /\ TaskOf(w, x) \in Task /\ x \in On(w, TaskOf(w, x)) /\ TaskOf(w, x) \in Listed(w)
           /\ \A r \in Task : x \in On(w, r) => r = TaskOf(w, x)
<1>1. PICK t \in Task : x \in On(w, t)
  BY DEF Stacked
<1>2. w \in HeapType /\ 0 \notin Task /\ \A r \in Task : x \in On(w, r) => w.act[x].mInTask = r
  BY BaseFacts DEF Sound
<1>3. w.stack[t] # <<>>
  <2>1. w.stack[t] \in Seq(Activity)
    BY <1>2, OnFacts
  <2>2. QED
    BY <2>1, <1>1, ElementsFacts DEF On
<1>4. t \in Listed(w)
  BY <1>3 DEF Sound, AllListed
<1>5. TaskOf(w, x) = t
  <2>1. Kept(w, t) /\ t # 0
    BY <1>2, <1>4 DEF Kept
  <2>2. QED
    BY <2>1, <1>1, <1>2, TaskOfFacts
<1>6. QED
  BY <1>1, <1>2, <1>4, <1>5

\* FinishActivity() takes an activity and what is above it from its task; if that was shown,
\* the next top comes to be.
LEMMA FinishStrays ==
    ASSUME NEW w, Sound(w), Willing(w, {}), NEW x \in Activity, AppOf(w, x) # 0, Stacked(w, x)
    PROVE  NoStray(w, FinishActivity(w, x)) /\ Willing(FinishActivity(w, x), {})
<1> DEFINE t == TaskOf(w, x)
           p == PopAbove(w, t, x)
           s == w.stack[t]
           cut == SubSeq(s, 1, Place(s, x))
           rest == Front(cut)
           q == [p EXCEPT !.stack[t] = Front(p.stack[t])]
           v == FinishActivity(w, x)
<1>1. /\ Base(w) /\ Low(w) /\ w \in HeapType /\ Owned(w) /\ 0 \notin Task
      /\ w.mAllTasks \in Seq(Task)
  BY BaseFacts, ListedFacts DEF Sound
<1>2. t \in Task /\ t # 0 /\ x \in On(w, t) /\ t \in Listed(w)
  BY <1>1, OwnTask
<1>3. s \in Seq(Activity) /\ IsInjective(s) /\ ToSet(s) = On(w, t) /\ x \in ToSet(s)
  BY <1>1, <1>2, BaseFacts, OnFacts DEF On
<1>4. /\ Moves(w, p) /\ Low(p) /\ Owned(p) /\ Tame(w, p, {}, {}) /\ p.mAllTasks = w.mAllTasks
      /\ p.stack[t] = cut /\ \A r \in Task : r # t => p.stack[r] = w.stack[r]
  <2> HIDE DEF t
  <2>1. QED
    BY <1>1, <1>2, PopAboveLeaves
<1> HIDE DEF s, t
<1>5. cut # <<>> /\ Last(cut) = x /\ (Last(s) \in ToSet(cut) => Last(s) = x)
  BY <1>3, CutTop
<1>6. cut \in Seq(Activity) /\ ToSet(cut) \subseteq ToSet(s) /\ IsInjective(cut)
  <2>1. Place(s, x) \in 0..Len(s)
    BY <1>3, PlaceFacts
  <2>2. QED
    BY <2>1, <1>3, CutFacts
<1> HIDE DEF cut
<1>7. rest \in Seq(Activity) /\ ToSet(rest) \subseteq ToSet(s) /\ Last(s) \notin ToSet(rest)
  <2>1. rest \in Seq(Activity) /\ ToSet(cut) = ToSet(rest) \union {x} /\ x \notin ToSet(rest)
    BY <1>5, <1>6, FrontFacts
  <2>2. QED
    BY <2>1, <1>5, <1>6
<1>8. q = [p EXCEPT !.stack[t] = rest]
  BY <1>4
<1> HIDE DEF rest, q, p
<1>9. /\ Moves(p, q) /\ q.act = p.act /\ q.mAllTasks = w.mAllTasks /\ Low(q)
      /\ q.stack[t] = rest /\ \A r \in Task : r # t => q.stack[r] = w.stack[r]
  <2>1. Moves(p, q) /\ SameLists(p, q) /\ q.act = p.act /\ q.stack = [p.stack EXCEPT ![t] = rest]
    <3>1. Low(p) /\ t \in Task /\ rest \in Seq(Activity)
      BY <1>2, <1>4, <1>7
    <3> DEFINE z == [p EXCEPT !.stack[t] = rest]
    <3>2. /\ Moves(p, z) /\ SameLists(p, z) /\ z.undefined = p.undefined
          /\ z.stack = [p.stack EXCEPT ![t] = rest]
          /\ z.act = p.act /\ z.proc = p.proc
      BY <3>1, StackSet
    <3>3. q = z
      BY <1>8
    <3>4. QED
      BY <3>2, <3>3
  <2>2. p.stack \in [Task -> Seq(Activity)]
    BY <1>4, HeapParts DEF Low
  <2>3. QED
    BY <2>1, <2>2, <1>2, <1>4 DEF SameLists, Moves
<1>10. \A r \in Task : On(q, r) \subseteq On(w, r)
  BY <1>3, <1>7, <1>9 DEF On
<1>11. Moves(w, q) /\ Owned(q) /\ AppOf(q, x) # 0
  <2>1. Moves(w, q)
    BY <1>1, <1>4, <1>9, MovesTransitive
  <2>2. QED
    BY <2>1, <1>1, <1>10, OwnedKept, MovesKeeps
<1>12. Tame(w, q, {}, {})
  BY <1>4, <1>9 DEF Tame, Eager, Wanted
<1>13. SUFFICES /\ Tame(w, v, {Shown(v)}, {}) /\ v.stack = q.stack
                /\ t # Active(w) => Shown(v) = Shown(w)
  <2>1. \A y \in Activity : Stacked(v, y) => Stacked(w, y)
    BY <1>10, <1>13 DEF Stacked, On
  <2>2. CASE t # Active(w)
    BY <2>1, <2>2, <1>13, Handover, WillingKept
  <2>3. CASE t = Active(w)
    <3>1. s # <<>> /\ Shown(w) = Last(s)
      <4>1. s # <<>>
        BY <1>3, ElementsFacts
      <4>2. QED
        BY <4>1, <2>3, <1>2 DEF Shown, Top, s
    <3>2. Shown(w) \in On(w, t)
      <4>1. ToSet(s) = ToSet(Front(s)) \union {Last(s)}
        BY <3>1, <1>3, FrontFacts, Zenon
      <4>2. QED
        BY <4>1, <3>1, <1>3
    <3>3. ASSUME Stacked(v, Shown(w)) PROVE FALSE
      <4>1. PICK r \in Task : Shown(w) \in On(q, r)
        BY <3>3, <1>13 DEF Stacked, On
      <4>2. r # t
        BY <4>1, <3>1, <1>7, <1>9 DEF On
      <4>3. Shown(w) \in On(w, r)
        BY <4>1, <1>10
      <4>4. QED
        BY <4>2, <4>3, <3>2, <1>1, <1>2, BaseFacts
    <3>4. QED
      BY <3>3, <2>1, <1>13, Handover, WillingKept
  <2>4. QED
    BY <2>2, <2>3
<1>14. CASE t = Active(w)
  <2> DEFINE c == ChangeForeground(q, x, FALSE)
             l == IF c.stack[t] = <<>> THEN LeaveEmptyTask(c, t) ELSE c
  <2>1. v = Replaced(l, x)
    <3>1. t = TaskOf(w, x) /\ p = PopAbove(w, t, x) /\ q = [p EXCEPT !.stack[t] = Front(p.stack[t])]
      BY DEF t, p, q
    <3>2. p.stack[t] # <<>>
      BY <1>4, <1>5
    <3>3. QED
      BY <3>1, <3>2, <1>2, <1>14 DEF FinishActivity, Replaced
  <2>2. Calm(q, c) /\ c.act = q.act
    <3>1. Low(q) /\ AppOf(q, x) # 0
      BY <1>9, <1>11
    <3> HIDE DEF q
    <3>2. QED
      BY <3>1, ChangeForegroundQuiet, ForegroundActs
  <2> HIDE DEF c
  <2>3. Moves(q, c) /\ Low(c) /\ c.stack = q.stack /\ Active(c) = t
    <3>1. Active(q) = Active(w)
      BY <1>9 DEF Active
    <3>2. QED
      BY <3>1, <2>2, <1>14, CalmMoves DEF Moves
  <2>4. Owned(c) /\ AppOf(c, x) # 0
    BY <2>3, <1>9, <1>11, OwnedKept, MovesKeeps DEF On
  <2>5. Moves(c, l) /\ Low(l) /\ l.stack = c.stack /\ l.act = c.act
    <3>1. CASE c.stack[t] = <<>>
      BY <3>1, <2>3, <2>4, <1>2, LeaveEmptyMoves, LeaveEmptyActs DEF Moves
    <3>2. CASE c.stack[t] # <<>>
      BY <3>2, <2>3, MovesReflexive
    <3>3. QED
      BY <3>1, <3>2
  <2> HIDE DEF l, v
  <2>6. Owned(l) /\ AppOf(l, x) # 0
    BY <2>3, <2>4, <2>5, OwnedKept, MovesKeeps DEF On
  <2>7. Tame(l, v, {Shown(l)}, {}) /\ Quiet(l, v)
    BY <2>1, <2>5, <2>6, ReplacedTame, ReplacedQuiet
  <2>8. v.stack = l.stack /\ v.mAllTasks = l.mAllTasks
    BY <2>7, CalmMoves DEF Quiet, SameLists
  <2>9. Shown(v) = Shown(l)
    BY <2>8 DEF Shown, Top, Active
  <2>10. Tame(w, l, {}, {})
    BY <1>12, <2>2, <2>5 DEF Tame, Eager, Wanted
  <2>11. Tame(w, v, {Shown(v)}, {})
    BY <2>7, <2>9, <2>10 DEF Tame
  <2>12. QED
    BY <2>3, <2>5, <2>8, <2>11, <1>14 DEF v
<1>15. CASE t # Active(w)
  <2> DEFINE d == LifecycleTransition(q, x, DESTROYED)
  <2>1. v = IF d.stack[t] = <<>> THEN DeleteTask(d, t) ELSE d
    <3>1. t = TaskOf(w, x) /\ p = PopAbove(w, t, x) /\ q = [p EXCEPT !.stack[t] = Front(p.stack[t])]
      BY DEF t, p, q
    <3>2. p.stack[t] # <<>>
      BY <1>4, <1>5
    <3>3. QED
      BY <3>1, <3>2, <1>2, <1>15 DEF FinishActivity
  <2>2. Quiet(q, d) /\ Tame(q, d, {}, {})
    <3>1. DESTROYED \in Status /\ DESTROYED # RESUMED
      BY DEF Status
    <3> HIDE DEF DESTROYED, RESUMED
    <3>2. QED
      BY <3>1, <1>9, <1>11, TransitionQuiet, TransitionTame
  <2> HIDE DEF d, v
  <2>3. d.stack = q.stack /\ d.mAllTasks = w.mAllTasks /\ Low(d)
    BY <2>2, <1>9, CalmMoves DEF Quiet, Moves, SameLists
  <2>4. v.stack = d.stack /\ v.act = d.act
    BY <2>1, <2>3, DeleteTaskMoves
  <2>5. Active(v) = Active(w)
    <3>1. w.mAllTasks # <<>> /\ Head(w.mAllTasks) # t
      BY <1>1, <1>2, <1>15, ListedFacts DEF Active
    <3>2. Without(w.mAllTasks, t) # <<>> /\ Head(Without(w.mAllTasks, t)) = Head(w.mAllTasks)
      BY <3>1, <1>1, WithoutHead
    <3>3. v.mAllTasks \in {w.mAllTasks, Without(w.mAllTasks, t)}
      BY <2>1, <2>3, HeapParts DEF DeleteTask, Low, HeapType
    <3>4. QED
      BY <3>1, <3>2, <3>3 DEF Active
  <2>6. Shown(v) = Shown(w)
    <3>1. Active(w) # 0 => Active(w) \in Task
      BY <1>1, ActiveFacts
    <3>2. Active(w) # 0 => v.stack[Active(w)] = w.stack[Active(w)]
      BY <3>1, <1>9, <1>15, <2>3, <2>4
    <3>3. QED
      BY <3>2, <2>5 DEF Shown, Top
  <2>7. Tame(w, v, {Shown(v)}, {})
    BY <1>12, <2>2, <2>4 DEF Tame, Eager, Wanted
  <2>8. QED
    BY <2>3, <2>4, <2>6, <2>7 DEF v
<1>16. QED
  BY <1>14, <1>15

\* DeleteActivity() takes an activity and what is above it from its task; if that was shown,
\* the next top comes to be.
LEMMA DeleteStrays ==
    ASSUME NEW w, Sound(w), NEW X, Willing(w, X), NEW x \in Activity
    PROVE  LET v == DeleteActivity(w, x)
           IN NoStray(w, v) /\ Willing(v, X \ {x}) /\ ~Stacked(v, x)
<1> DEFINE t == TaskOf(w, x)
           p == PopThrough(w, t, x)
           l == IF p.stack[t] = <<>> THEN DeleteTask(p, t) ELSE p
           next == Shown(l)
           r == IF t = Active(w) /\ next # 0 THEN LifecycleTransition(l, next, RESUMED) ELSE l
           v == DeleteActivity(w, x)
<1>1. /\ Base(w) /\ Low(w) /\ w \in HeapType /\ Owned(w) /\ 0 \notin Task /\ NonEmpty(w)
      /\ w.mAllTasks \in Seq(Task)
  BY BaseFacts, ListedFacts DEF Sound
<1>2. t \in Task \union {0} /\ (t # 0 => t \in Task /\ t = w.act[x].mInTask)
  BY <1>1, TaskOfFacts
<1>3. CASE t = 0
  <2>1. v = w
    BY <1>3 DEF DeleteActivity
  <2>2. ~Stacked(w, x)
    BY <1>1, <1>3, OwnTask
  <2> HIDE DEF v
  <2>3. QED
    BY <2>1, <2>2 DEF NoStray, Willing, v
<1>4. CASE t # 0
  <2>0. t \in Task /\ t = w.act[x].mInTask
    BY <1>2, <1>4
  <2>1. /\ w.stack[t] \in Seq(Activity) /\ IsInjective(w.stack[t]) /\ ToSet(w.stack[t]) = On(w, t)
        /\ \A y \in On(w, t) : AppOf(w, y) # 0
    BY <1>1, <2>0, BaseFacts, OnFacts DEF On
  <2>2. v = IF t = w.mHomeTask /\ r.stack[t] = <<>> THEN [r EXCEPT !.mHomeTask = Active(r)] ELSE r
    BY <1>4 DEF DeleteActivity, Shown
  <2> HIDE DEF t, v
  <2>3. /\ Moves(w, p) /\ SameLists(w, p)
        /\ \A s \in Task : s # t => p.stack[s] = w.stack[s]
        /\ On(p, t) \subseteq On(w, t) \ {x}
    BY <1>1, <2>0, <2>1, PopThroughMoves
  <2>4. /\ Tame(w, p, {}, {})
        /\ x \notin On(w, t) => p = w
        /\ x \in On(w, t) => Top(w, t) \notin On(p, t)
    BY <1>1, <2>0, <2>1, PopThroughTame
  <2> HIDE DEF p
  <2>5. \A s \in Task : On(p, s) \subseteq On(w, s) /\ x \notin On(p, s)
    <3>1. \A s \in Task : On(p, s) \subseteq On(w, s)
      BY <2>3 DEF On
    <3>2. \A s \in Task : x \in On(p, s) => s = t
      BY <3>1, <2>0, <1>1, BaseFacts
    <3>3. QED
      BY <3>1, <3>2, <2>3
  <2>6. Low(p) /\ Owned(p)
    BY <1>1, <2>3, <2>5, OwnedKept DEF Moves
  <2>7. Moves(p, l) /\ l.stack = p.stack /\ l.act = p.act
    <3>1. CASE p.stack[t] = <<>>
      BY <3>1, <2>6, DeleteTaskMoves
    <3>2. CASE p.stack[t] # <<>>
      BY <3>2, <2>6, MovesReflexive
    <3>3. QED
      BY <3>1, <3>2
  <2>8. t # Active(w) => Active(l) = Active(w)
    <3>1. SUFFICES ASSUME t # Active(w) PROVE Active(l) = Active(w)
      OBVIOUS
    <3>2. p.mAllTasks = w.mAllTasks
      BY <2>3 DEF SameLists
    <3>3. p.stack[t] = <<>> => l.mAllTasks = Without(w.mAllTasks, t)
      BY <3>2, <2>6, HeapParts DEF DeleteTask, Low, HeapType
    <3>4. CASE p.stack[t] # <<>>
      BY <3>2, <3>4 DEF Active
    <3>5. CASE p.stack[t] = <<>> /\ w.mAllTasks # <<>>
      <4>1. Head(w.mAllTasks) # t
        BY <3>1, <3>5 DEF Active
      <4>2. Without(w.mAllTasks, t) # <<>> /\ Head(Without(w.mAllTasks, t)) = Head(w.mAllTasks)
        BY <4>1, <3>5, <1>1, WithoutHead
      <4> HIDE DEF l
      <4>3. QED
        BY <4>2, <3>3, <3>5 DEF Active
    <3>6. CASE p.stack[t] = <<>> /\ w.mAllTasks = <<>>
      <4>1. ToSet(w.mAllTasks) = {}
        BY <3>6, <1>1, ElementsFacts
      <4>2. Without(w.mAllTasks, t) \in Seq(Task) /\ ToSet(Without(w.mAllTasks, t)) = {}
        BY <4>1, <1>1, WithoutFacts
      <4>3. Without(w.mAllTasks, t) = <<>>
        BY <4>2, ElementsFacts
      <4> HIDE DEF l
      <4>4. QED
        BY <4>3, <3>3, <3>6 DEF Active
    <3>7. QED
      BY <3>4, <3>5, <3>6
  <2>9. p = w /\ t = Active(w) => l = w
    <3>1. t = Active(w) => w.stack[t] # <<>>
      BY <1>1, <1>4, ListedFacts DEF NonEmpty
    <3>2. QED
      BY <3>1
  <2> HIDE DEF l
  <2>10. Low(l) /\ l \in HeapType /\ Owned(l)
    BY <2>6, <2>7, OwnedKept DEF On, Moves, Low
  <2>11. next # 0 => next \in Activity /\ AppOf(l, next) # 0
    BY <2>10, TopFacts, ActiveFacts DEF Owned, Shown
  <2>12. Quiet(l, r) /\ Tame(l, r, {next}, {}) /\ (t # Active(w) => r = l)
    <3>1. RESUMED \in Status
      BY DEF Status
    <3> HIDE DEF RESUMED, next
    <3>2. CASE t = Active(w) /\ next # 0
      BY <3>1, <3>2, <2>10, <2>11, TransitionQuiet, TransitionTame
    <3>3. CASE ~(t = Active(w) /\ next # 0)
      <4>1. r = l
        BY <3>3
      <4> HIDE DEF r
      <4>2. QED
        BY <4>1, <2>10, <3>3, QuietReflexive DEF Tame
    <3>4. QED
      BY <3>2, <3>3
  <2> HIDE DEF r
  <2>13. r.stack = l.stack /\ r.mAllTasks = l.mAllTasks /\ Low(r) /\ Active(r) \in Task \union {0}
    <3>1. r.stack = l.stack /\ r.mAllTasks = l.mAllTasks /\ Low(r)
      BY <2>12, CalmMoves DEF Quiet, SameLists, Moves
    <3>2. QED
      BY <3>1, ActiveFacts DEF Low
  <2>14. v.stack = r.stack /\ v.mAllTasks = r.mAllTasks /\ v.act = r.act
    <3>1. CASE t = w.mHomeTask /\ r.stack[t] = <<>>
      BY <3>1, <2>2, <2>13, HomeSet
    <3>2. CASE ~(t = w.mHomeTask /\ r.stack[t] = <<>>)
      BY <3>2, <2>2
    <3>3. QED
      BY <3>1, <3>2
  <2>15. Shown(v) = next
    BY <2>13, <2>14 DEF Shown, Top, Active
  <2>16. \A y \in Activity : Stacked(v, y) => Stacked(w, y) /\ y # x
    BY <2>5, <2>7, <2>13, <2>14 DEF Stacked, On
  <2>17. Tame(w, v, {Shown(v)}, {})
    BY <2>4, <2>7, <2>12, <2>14, <2>15 DEF Tame, Eager, Wanted
  <2>18. \/ Shown(w) = Shown(v)
         \/ Shown(w) \in Activity /\ Stacked(v, Shown(w)) => ~Wanted(v, Shown(w))
    <3>1. CASE t # Active(w)
      <4>1. Active(w) \in Task \union {0}
        BY <1>1, ActiveFacts
      <4>2. Active(w) # 0 => l.stack[Active(w)] = w.stack[Active(w)]
        BY <4>1, <3>1, <2>3, <2>7
      <4>3. Shown(l) = Shown(w)
        BY <4>2, <3>1, <2>8 DEF Shown, Top
      <4>4. QED
        BY <4>3, <2>15
    <3>2. CASE t = Active(w) /\ x \notin On(w, t)
      BY <3>2, <2>4, <2>9, <2>15
    <3>3. CASE t = Active(w) /\ x \in On(w, t)
      <4>1. Shown(w) = Top(w, t) /\ Top(w, t) \notin On(p, t)
        BY <3>3, <2>4 DEF Shown
      <4>2. Shown(w) \in On(w, t)
        <5>1. w.stack[t] # <<>>
          BY <3>3, <2>1, ElementsFacts
        <5>2. QED
          BY <5>1, <4>1, <1>1, <1>4, <2>0, TopFacts
      <4>3. \A s \in Task : Shown(w) \in On(p, s) => s = t
        BY <4>2, <2>0, <2>5, <1>1, BaseFacts
      <4>4. ~Stacked(v, Shown(w))
        BY <4>1, <4>3, <2>7, <2>13, <2>14 DEF Stacked, On
      <4>5. QED
        BY <4>4
    <3>4. QED
      BY <3>1, <3>2, <3>3
  <2>19. NoStray(w, v)
    <3> HIDE DEF next
    <3>1. QED
      BY <2>16, <2>17, <2>18, Handover
  <2>20. Willing(v, {} \union X)
    BY <2>16, <2>17, WillingKept
  <2>21. QED
    BY <2>16, <2>19, <2>20 DEF Willing, v
<1>5. QED
  BY <1>3, <1>4

\* The tasks are sound then, and all activities are the standard manager's.
LEMMA AloneFacts ==
    ASSUME Alone, NEW w, NEW X, Fine(w, X)
    PROVE  Sound(w) /\ Low(w) /\ w \in HeapType /\ \A x : ~IsSystemUI(w, x)
BY BaseFacts DEF Alone, Fine, Tidy, Sound, IsSystemUI

\* Both managers' deletions are one.
LEMMA AloneDeletes ==
    ASSUME Alone, NEW w, NEW x
    PROVE  Delete(w, x) = DeleteActivity(w, x)
BY DEF Alone, Delete, IsSystemUI

\* What leaves the tasks, the statuses and the targets alone.
LEMMA SameFields ==
    ASSUME NEW w, NEW v, SameTasks(w, v),
           \A x \in Activity : /\ v.act[x].mStatus = w.act[x].mStatus
                               /\ v.act[x].mTargetStatus = w.act[x].mTargetStatus,
           NEW X, Willing(w, X)
    PROVE  NoStray(w, v) /\ Willing(v, X)
<1>1. Tame(w, v, {}, {})
  BY DEF Tame, Eager, Wanted
<1>2. Willing(v, {} \union X) /\ NoStray(w, v)
  BY <1>1, CalmHandover
<1>3. QED
  BY <1>2

\* A field of an activity that is neither the status nor the target.
LEMMA FieldStrays ==
    ASSUME NEW w \in HeapType, NEW x \in Activity, NEW a \in ActivityType,
           a.mStatus = w.act[x].mStatus, a.mTargetStatus = w.act[x].mTargetStatus,
           NEW X, Willing(w, X)
    PROVE  LET v == [w EXCEPT !.act[x] = a] IN NoStray(w, v) /\ Willing(v, X)
<1> DEFINE v == [w EXCEPT !.act[x] = a]
<1>1. /\ SameButAct(w, v) /\ v.act[x] = a
      /\ \A y \in Activity : y # x => v.act[y] = w.act[y]
  BY ActSet
<1> HIDE DEF v
<1>2. SameTasks(w, v)
  BY <1>1 DEF SameButAct, SameTasks
<1>3. \A y \in Activity : /\ v.act[y].mStatus = w.act[y].mStatus
                          /\ v.act[y].mTargetStatus = w.act[y].mTargetStatus
  BY <1>1
<1>4. QED
  BY <1>2, <1>3, SameFields DEF v

\* The client forgets the activity.
LEMMA UnmappedStrays ==
    ASSUME NEW w \in HeapType, NEW x \in Activity, NEW X, Willing(w, X)
    PROVE  LET v == [w EXCEPT !.act[x].mapped = FALSE] IN NoStray(w, v) /\ Willing(v, X)
<1> DEFINE a == [w.act[x] EXCEPT !.mapped = FALSE]
<1>1. w.act[x] \in ActivityType
  BY HeapParts
<1>2. a \in ActivityType /\ a.mStatus = w.act[x].mStatus /\ a.mTargetStatus = w.act[x].mTargetStatus
  BY <1>1 DEF ActivityType
<1>3. [w EXCEPT !.act[x].mapped = FALSE] = [w EXCEPT !.act[x] = a]
  OBVIOUS
<1> HIDE DEF a
<1>4. QED
  BY <1>2, <1>3, FieldStrays

\* The client reports.
LEMMA ClientStrays ==
    ASSUME NEW w \in HeapType, NEW x \in Activity, NEW s \in Reports, NEW X, Willing(w, X)
    PROVE  LET v == [w EXCEPT !.act[x].client = s] IN NoStray(w, v) /\ Willing(v, X)
<1> DEFINE a == [w.act[x] EXCEPT !.client = s]
<1>1. w.act[x] \in ActivityType
  BY HeapParts
<1>2. a \in ActivityType /\ a.mStatus = w.act[x].mStatus /\ a.mTargetStatus = w.act[x].mTargetStatus
  BY <1>1 DEF ActivityType
<1>3. [w EXCEPT !.act[x].client = s] = [w EXCEPT !.act[x] = a]
  OBVIOUS
<1> HIDE DEF a
<1>4. QED
  BY <1>2, <1>3, FieldStrays

\* The status of one activity.
LEMMA StatusTame ==
    ASSUME NEW w \in HeapType, NEW x \in Activity, NEW s \in Status
    PROVE  LET v == [w EXCEPT !.act[x].mStatus = s]
           IN /\ Tame(w, v, {}, {x}) /\ SameTasks(w, v) /\ v.act[x].mStatus = s
              /\ v.act[x].mTargetStatus = w.act[x].mTargetStatus
<1> DEFINE v == [w EXCEPT !.act[x].mStatus = s]
<1>1. w.act[x] \in ActivityType
  BY HeapParts
<1>2. /\ SameButAct(w, v) /\ v.act[x] = [w.act[x] EXCEPT !.mStatus = s]
      /\ \A y \in Activity : y # x => v.act[y] = w.act[y]
  BY StatusSet
<1> HIDE DEF v
<1>3. v.act[x].mStatus = s /\ v.act[x].mTargetStatus = w.act[x].mTargetStatus
  BY <1>1, <1>2 DEF ActivityType
<1>4. SameTasks(w, v)
  BY <1>2 DEF SameButAct, SameTasks
<1>5. QED
  BY <1>2, <1>3, <1>4 DEF Tame, Eager, Wanted, v

\* ... and of one that reports an error.
LEMMA ErrorTame ==
    ASSUME NEW w \in HeapType, NEW x \in Activity
    PROVE  LET v == [w EXCEPT !.act[x].mIsError = TRUE, !.act[x].mStatus = @ - 1]
           IN Tame(w, v, {}, {x}) /\ SameTasks(w, v)
<1> DEFINE v == [w EXCEPT !.act[x].mIsError = TRUE, !.act[x].mStatus = @ - 1]
<1>1. w.act \in [Activity -> ActivityType] /\ w.act[x] \in ActivityType
  BY HeapParts
<1>2. SameTasks(w, v)
  BY DEF SameTasks, HeapType
<1>3. \A y \in Activity : y # x => v.act[y] = w.act[y]
  BY <1>1 DEF HeapType
<1>4. v.act[x].mTargetStatus = w.act[x].mTargetStatus
  BY <1>1 DEF HeapType, ActivityType
<1> HIDE DEF v
<1>5. QED
  BY <1>2, <1>3, <1>4 DEF Tame, Eager, Wanted, v

\* There is nothing on the tasks of the system UI.
LEMMA UiOnStartNothing ==
    ASSUME NEW w, Sound(w)
    PROVE  UiOnStartActivity(w) = w
<1> DEFINE s == w.mSystemUITasks
           T == [k \in 0..Len(s) |-> {w}]
<1>1. /\ s \in Seq(Task) /\ Len(s) \in Nat /\ ToSet(s) \subseteq Task /\ STOPPED \in Status
      /\ \A k \in 1..Len(s) : s[k] \in ToSet(s)
  BY SoundFacts, HeapParts, ElementsFacts DEF Status
<1>2. ASSUME NEW t \in ToSet(s) PROVE UiChangeTask(w, t, STOPPED) = w
  <2> DEFINE q == <<>>
             R == [k \in 0..0 |-> {w}]
  <2>1. t \notin Listed(w) /\ t \in Task
    BY <1>1, <1>2 DEF Sound, Base, Kinds, UiListed
  <2>2. w.stack[t] = q
    BY <2>1 DEF Sound, AllListed
  <2>3. q \in Seq(Activity) /\ Len(q) = 0 /\ ToSet(q) = {}
    BY DEF ToSet
  <2> HIDE DEF q
  <2>4. w \in {w} /\ w \in R[0] /\ R[Len(q)] = {w}
    BY <2>3
  <2> HIDE DEF R
  <2>5. UiChanges(w, q, STOPPED) \in {w} \intersect R[Len(q)]
    <3> DEFINE V == {w}
    <3>1. \A v \in V, x \in ToSet(q) : UiChange(v, x, STOPPED) \in V
      BY <2>3
    <3>2. \A k \in 1..Len(q) : \A v \in V : v \in R[k - 1] => UiChange(v, q[k], STOPPED) \in R[k]
      BY <2>3
    <3>3. w \in V
      OBVIOUS
    <3> HIDE DEF V
    <3>0. q \in Seq(Activity) /\ w \in R[0]
      BY <2>3, <2>4
    <3>4. UiChanges(w, q, STOPPED) \in V \intersect R[Len(q)]
      BY <3>0, <3>1, <3>2, <3>3, UiLoop
    <3>5. QED
      BY <3>4 DEF V
  <2>6. QED
    BY <2>2, <2>5 DEF UiChangeTask, UiChanges
<1>3. w \in {w} /\ w \in T[0] /\ T[Len(s)] = {w} /\ \A k \in 1..Len(s) : T[k] = {w}
  BY <1>1
<1>4. \A v \in {w}, t \in ToSet(s) : UiChangeTask(v, t, STOPPED) \in {w}
  BY <1>2
<1> HIDE DEF T, s
<1>5. UiTaskChanges(w, s, STOPPED) \in {w} \intersect T[Len(s)]
  BY <1>1, <1>3, <1>4, UiTaskLoop
<1>6. QED
  BY <1>5 DEF UiOnStartActivity, UiTaskChanges, s

\* A transition that is executed goes on to its own target.
LEMMA ExecuteStrays ==
    ASSUME Alone, NEW w, Fine(w, {}), Willing(w, {}), NEW x \in Activity, AppOf(w, x) # 0,
           NEW status \in Reports \union {ERROR}, status = ERROR => Answered(w, x)
    PROVE  LET v == ExecuteTask(w, x, status)
           IN NoStray(w, v) /\ Willing(v, IF status = DESTROYED THEN {x} ELSE {})
<1> DEFINE v == ExecuteTask(w, x, status)
<1>0. w \in HeapType /\ Low(w)
  BY AloneFacts
<1>1. CASE status = ERROR
  <2> DEFINE u == [w EXCEPT !.act[x].mIsError = TRUE, !.act[x].mStatus = @ - 1]
  <2>1. Fine(u, {})
    BY <1>1, ErrorFine
  <2>2. v = Delete(u, x)
    BY <1>1 DEF ExecuteTask
  <2>3. Tame(w, u, {}, {x}) /\ SameTasks(w, u)
    BY <1>0, ErrorTame
  <2> HIDE DEF u, v
  <2>4. NoStray(w, u) /\ Willing(u, {x} \union {})
    BY <2>3, CalmHandover
  <2> DEFINE X == {x} \union {}
  <2>5. Sound(u) /\ Willing(u, X) /\ v = DeleteActivity(u, x)
    BY <2>1, <2>2, <2>4, AloneFacts, AloneDeletes
  <2>6. X \ {x} = {}
    OBVIOUS
  <2> HIDE DEF X
  <2>7. NoStray(u, v) /\ Willing(v, X \ {x})
    BY <2>5, DeleteStrays
  <2>8. NoStray(w, v) /\ Willing(v, {})
    BY <2>4, <2>6, <2>7, NoStrayTransitive
  <2>9. QED
    BY <2>8, <1>1 DEF v
<1>2. CASE status # ERROR
  <2> DEFINE u == [w EXCEPT !.act[x].mStatus = status]
             s == w.act[x].mTargetStatus
  <2>1. status \in Status /\ status > INIT /\ ~Busy(status)
    BY <1>2 DEF Reports, Status, Busy
  <2>2. Fine(u, {}) /\ Loose(w, u, {})
    BY <2>1, StatusFine
  <2>3. v = LifecycleTransition(u, x, s)
    BY <1>2 DEF ExecuteTask
  <2>4. s \in Status /\ x # 0
    BY <1>0, HeapParts, ActParts DEF Activity
  <2>5. /\ Tame(w, u, {}, {x}) /\ SameTasks(w, u) /\ u.act[x].mStatus = status
        /\ u.act[x].mTargetStatus = s
    BY <1>0, <2>1, StatusTame
  <2> HIDE DEF u, s, v
  <2>6. AppOf(u, x) # 0 /\ Low(u)
    BY <2>2, LooseKeepsApp, AloneFacts
  <2>7. v = Turn(u, x, s)
    BY <2>3, <2>4, <2>5 DEF LifecycleTransition
  <2>8. Quiet(u, v)
    BY <2>4, <2>6, <2>7, TurnQuiet
  <2> DEFINE R == IF s = RESUMED THEN {x} ELSE {}
  <2>9. /\ Tame(u, v, R, {})
        /\ status # DESTROYED => Eager(v, x) \/ s # RESUMED
        /\ s # RESUMED /\ ~Wanted(u, x) => ~Wanted(v, x)
    <3> HIDE DEF RESUMED, DESTROYED
    <3>1. QED
      BY <2>1, <2>4, <2>5, <2>6, <2>7, TurnTame
  <2>10. Wanted(w, x) <=> s = RESUMED
    BY DEF Wanted, s
  <2>11. Wanted(u, x) <=> s = RESUMED
    BY <2>5 DEF Wanted
  <2>12. Tame(w, v, {}, {x})
    BY <2>5, <2>9, <2>10 DEF Tame
  <2>13. status # DESTROYED => Eager(v, x)
    BY <2>9, <2>11 DEF Eager
  <2>14. SameTasks(w, v)
    BY <2>5, <2>8 DEF Quiet, Calm, SameTasks
  <2>15. NoStray(w, v) /\ Willing(v, {x} \union {})
    BY <2>12, <2>14, CalmHandover
  <2>16. QED
    BY <2>13, <2>15 DEF Willing, v
<1>3. QED
  BY <1>1, <1>2

\* ... by the report it waits for.
LEMMA TriggerReportStrays ==
    ASSUME Alone, NEW w, Fine(w, {}), Willing(w, {}), NEW x \in Activity, AppOf(w, x) # 0,
           NEW status \in Reports \union {ERROR}, status = ERROR => Answered(w, x)
    PROVE  LET v == TriggerReport(w, x, status)
           IN NoStray(w, v) /\ Willing(v, IF status = DESTROYED THEN {x} ELSE {})
<1> DEFINE i == Waiting(w, "LIFECYCLE", x)
           u == Taken(w, i)
           v == TriggerReport(w, x, status)
<1>1. Low(w) /\ w \in HeapType
  BY AloneFacts
<1>2. CASE i = 0
  <2>1. v = w
    BY <1>2 DEF TriggerReport
  <2>2. QED
    BY <2>1 DEF NoStray, Willing
<1>3. CASE i # 0
  <2>1. i \in 1..Len(w.pend)
    BY <1>1, <1>3, WaitingFacts
  <2>2. v = ExecuteTask(u, x, status)
    BY <1>3 DEF TriggerReport
  <2> HIDE DEF i
  <2>3. Quiet(w, u) /\ u.act = w.act /\ u.proc = w.proc
    BY <1>1, <2>1, TakenQuiet
  <2> HIDE DEF u, v
  <2>4. Fine(u, {})
    BY <2>3, QuietFine
  <2>5. AppOf(u, x) # 0 /\ (status = ERROR => Answered(u, x))
    BY <2>3 DEF AppOf, Answered
  <2>6. NoStray(w, u) /\ Willing(u, {})
    BY <2>3, SameFields DEF Quiet, Calm
  <2>7. NoStray(u, v) /\ Willing(v, IF status = DESTROYED THEN {x} ELSE {})
    BY <2>2, <2>4, <2>5, <2>6, ExecuteStrays
  <2>8. QED
    BY <2>6, <2>7, NoStrayTransitive DEF v
<1>4. QED
  BY <1>2, <1>3

\* A destroyed activity leaves its task, whatever it was asked for.
LEMMA ReportDestroyedStrays ==
    ASSUME Alone, NEW w, Fine(w, {}), NEW x \in Activity, AppOf(w, x) # 0, Willing(w, {x})
    PROVE  LET v == ReportDestroyed(w, x) IN NoStray(w, v) /\ Willing(v, {})
<1> DEFINE p == w.act[x].mApp
           dead == [w EXCEPT !.act[x].mStatus = DESTROYED]
           u == Unwatched(dead, x)
           d == DeleteActivity(u, x)
           f == Forget(d, x)
           s == IF f.proc[p].mExistActivity = <<>> THEN StopApplication(f, p) ELSE f
           e == IF Freed(w, x) THEN dead ELSE s
           v == ReportDestroyed(w, x)
<1>1. p \in Proc /\ DESTROYED \in Status /\ DESTROYED > INIT /\ p = AppOf(w, x) /\ p # 0
  BY AppFacts, BaseFacts DEF Fine, AppOf, Status
<1>2. v = [e EXCEPT !.act[x].mapped = FALSE]
  BY AloneFacts, AloneDeletes DEF ReportDestroyed
<1>3. Sound(w) /\ w \in HeapType
  BY AloneFacts
<1> HIDE DEF p, v
<1>4. Fine(dead, {}) /\ Loose(w, dead, {})
  BY <1>1, StatusFine
<1>5. Tame(w, dead, {}, {x}) /\ SameTasks(w, dead)
  <2> HIDE DEF DESTROYED
  <2>1. QED
    BY <1>1, <1>3, StatusTame
<1> HIDE DEF dead
<1>6. NoStray(w, dead) /\ Willing(dead, {x})
  <2>1. NoStray(w, dead) /\ Willing(dead, {x} \union {x})
    BY <1>5, CalmHandover
  <2>2. QED
    BY <2>1
<1>7. NoStray(w, e) /\ Willing(e, {}) /\ e \in HeapType
  <2>1. Low(dead) /\ AppOf(dead, x) = p /\ dead \in HeapType
    BY <1>1, <1>4, LooseKeepsApp, AloneFacts
  <2>2. CASE Freed(w, x)
    <3>1. ~Stacked(w, x)
      <4>1. ASSUME Stacked(w, x) PROVE FALSE
        <5>1. Kept(w, TaskOf(w, x)) /\ TaskOf(w, x) \in Task /\ x \in On(w, TaskOf(w, x))
          BY <4>1, <1>3, OwnTask DEF Kept
        <5>2. ~Freed(w, x)
          BY <5>1, KeptFacts DEF Fine
        <5>3. QED
          BY <5>2, <2>2
      <4>2. QED
        BY <4>1
    <3>2. ~Stacked(dead, x)
      BY <3>1, <1>5 DEF Stacked, On, SameTasks
    <3>3. QED
      BY <3>2, <2>1, <2>2, <1>6 DEF Willing
  <2>3. CASE ~Freed(w, x)
    <3>1. Quiet(dead, u) /\ u.act = dead.act
      BY <2>1, UnwatchedQuiet
    <3> HIDE DEF u
    <3>2. Fine(u, {})
      BY <3>1, <1>4, QuietFine
    <3>3. NoStray(dead, u) /\ Willing(u, {x})
      BY <3>1, <1>6, SameFields DEF Quiet, Calm
    <3>4. Sound(u)
      BY <3>2, AloneFacts
    <3>5. NoStray(u, d) /\ Willing(d, {x} \ {x})
      BY <3>3, <3>4, DeleteStrays
    <3>6. Fine(d, {} \ {x}) /\ Loose(u, d, {})
      BY <3>2, DeleteActivityFine
    <3>7. Low(d) /\ AppOf(d, x) = p /\ Willing(d, {})
      <4>1. AppOf(u, x) = p /\ {x} \ {x} = {}
        BY <2>1, <3>1 DEF AppOf
      <4>2. QED
        BY <4>1, <3>5, <3>6, LooseKeepsApp, AloneFacts
    <3> HIDE DEF d
    <3>8. Low(f) /\ SameTasks(d, f) /\ f.act = d.act
      BY <3>7, <1>1, ForgetLoose, ForgetActs
    <3> HIDE DEF f
    <3>9. NoStray(d, f) /\ Willing(f, {})
      BY <3>7, <3>8, SameFields
    <3>10. Quiet(f, s) /\ s.act = f.act
      BY <3>8, <1>1, StopApplicationQuiet, StopActs, QuietReflexive
    <3> HIDE DEF s
    <3>11. NoStray(f, s) /\ Willing(s, {}) /\ s \in HeapType
      BY <3>9, <3>10, SameFields DEF Quiet, Calm, Low
    <3>12. NoStray(w, s)
      BY <1>6, <3>3, <3>5, <3>9, <3>11, NoStrayTransitive
    <3>13. QED
      BY <2>3, <3>11, <3>12
  <2>4. QED
    BY <2>2, <2>3
<1> HIDE DEF e
<1>8. NoStray(e, v) /\ Willing(v, {})
  BY <1>2, <1>7, UnmappedStrays
<1>9. QED
  BY <1>7, <1>8, NoStrayTransitive DEF v

\* reportActivityStatus()
LEMMA ReportStrays ==
    ASSUME Alone, NEW w, Fine(w, {}), Willing(w, {}), NEW x \in Activity, AppOf(w, x) # 0,
           NEW status \in Reports \union {ERROR}, status = ERROR => Answered(w, x)
    PROVE  LET v == ReportActivityStatus(w, x, status) IN NoStray(w, v) /\ Willing(v, {})
<1> DEFINE r == TriggerReport(w, x, status)
           a == TriggerWaitResume(r, x)
           d == TriggerDelayDestroy(a, x)
           v == ReportActivityStatus(w, x, status)
           X == IF status = DESTROYED THEN {x} ELSE {}
<1>1. Fine(r, {}) /\ AppOf(r, x) # 0 /\ Low(r)
  <2>1. Fine(r, {}) /\ Loose(w, r, {})
    BY TriggerReportFine
  <2>2. QED
    BY <2>1, LooseKeepsApp, AloneFacts
<1>2. NoStray(w, r) /\ Willing(r, X)
  BY TriggerReportStrays
<1>3. \/ v = w
      \/ v \in {r, d} /\ status # DESTROYED
      \/ v = ReportDestroyed(r, x) /\ status = DESTROYED
  BY DEF ReportActivityStatus
<1> HIDE DEF r, v
<1>4. CASE status # DESTROYED
  <2>1. Willing(r, {})
    BY <1>2, <1>4
  <2>2. Quiet(r, a) /\ Tame(r, a, {}, {})
    BY <1>1, TriggerWaitResumeQuiet, TriggerWaitResumeTame
  <2> HIDE DEF a
  <2>3. NoStray(r, a) /\ Willing(a, {} \union {})
    BY <2>1, <2>2, CalmHandover DEF Quiet, Calm
  <2>4. Quiet(a, d) /\ Tame(a, d, {}, {})
    BY <2>2, TriggerDelayDestroyQuiet, TriggerDelayDestroyTame DEF Quiet, Calm
  <2> HIDE DEF d
  <2>5. Willing(a, {})
    BY <2>3
  <2>6. NoStray(a, d) /\ Willing(d, {} \union {})
    BY <2>4, <2>5, CalmHandover DEF Quiet, Calm
  <2>7. NoStray(w, d) /\ Willing(d, {})
    BY <1>2, <2>3, <2>6, NoStrayTransitive
  <2>8. NoStray(w, w)
    BY DEF NoStray
  <2>9. QED
    BY <1>2, <1>3, <1>4, <2>1, <2>7, <2>8 DEF v
<1>5. CASE status = DESTROYED
  <2>1. Willing(r, {x})
    BY <1>2, <1>5
  <2>2. NoStray(r, ReportDestroyed(r, x)) /\ Willing(ReportDestroyed(r, x), {})
    BY <1>1, <2>1, ReportDestroyedStrays
  <2>3. NoStray(w, ReportDestroyed(r, x)) /\ NoStray(w, w)
    BY <1>2, <2>2, NoStrayTransitive DEF NoStray
  <2>4. QED
    BY <1>3, <1>5, <2>2, <2>3 DEF v
<1>6. QED
  BY <1>4, <1>5

\* A callback and its report.
LEMMA PerformStrays ==
    ASSUME Alone, NEW w, Fine(w, {}), Willing(w, {}), NEW x \in Activity, AppOf(w, x) # 0,
           NEW status \in Reports
    PROVE  LET v == Perform(w, x, status) IN NoStray(w, v) /\ Willing(v, {})
<1> DEFINE u == [w EXCEPT !.act[x].client = status]
           v == Perform(w, x, status)
<1>1. Fine(u, {}) /\ Loose(w, u, {}) /\ w \in HeapType
  BY ClientFine, AloneFacts
<1>2. v = ReportActivityStatus(u, x, status)
  BY DEF Perform
<1>3. NoStray(w, u) /\ Willing(u, {})
  BY <1>1, ClientStrays
<1> HIDE DEF u, v
<1>4. AppOf(u, x) # 0 /\ status \in Reports \union {ERROR} /\ status # ERROR
  BY <1>1, LooseKeepsApp DEF Reports
<1>5. NoStray(u, v) /\ Willing(v, {})
  BY <1>1, <1>2, <1>3, <1>4, ReportStrays
<1>6. QED
  BY <1>3, <1>5, NoStrayTransitive DEF v

\* ... and several.
LEMMA PerformsStrays ==
    ASSUME Alone, NEW w, Fine(w, {}), Willing(w, {}), NEW x \in Activity, AppOf(w, x) # 0,
           NEW s \in Seq(Reports)
    PROVE  LET v == Performs(w, s, x) IN NoStray(w, v) /\ Willing(v, {})
<1> DEFINE V == {v \in HeapType : Fine(v, {}) /\ AppOf(v, x) # 0 /\ Willing(v, {}) /\ NoStray(w, v)}
           T == [k \in 0..Len(s) |-> V]
<1>1. Len(s) \in Nat /\ ToSet(s) \subseteq Reports /\ \A k \in 1..Len(s) : s[k] \in ToSet(s)
  BY ElementsFacts
<1>2. \A v : Fine(v, {}) => v \in HeapType
  BY DEF Fine, Base, Low
<1>3. w \in V
  BY <1>2 DEF NoStray
<1>4. ASSUME NEW v \in V, NEW status \in ToSet(s) PROVE Perform(v, x, status) \in V
  <2> DEFINE u == Perform(v, x, status)
  <2>1. status \in Reports
    BY <1>1
  <2>2. Fine(u, {}) /\ AppOf(u, x) # 0
    BY <2>1, PerformFine
  <2>3. NoStray(v, u) /\ Willing(u, {})
    BY <2>1, PerformStrays
  <2> HIDE DEF u
  <2>4. NoStray(w, u)
    BY <2>3, NoStrayTransitive
  <2>5. QED
    BY <2>2, <2>3, <2>4, <1>2 DEF u
<1> HIDE DEF V
<1>5. w \in T[0] /\ T[Len(s)] = V /\ \A k \in 1..Len(s) : T[k] = V
  BY <1>1, <1>3
<1> HIDE DEF T
<1>6. Performs(w, s, x) \in V \intersect T[Len(s)]
  BY <1>1, <1>3, <1>4, <1>5, PerformLoop
<1>7. QED
  BY <1>6 DEF V

\* timeout(): an ActivityWaitResume resumes its activity wherever it is, and no other does.
LEMMA TimeoutStrays ==
    ASSUME Alone, NEW w, Fine(w, {}), Willing(w, {}), NEW e \in PendType, AppOf(w, e.of) # 0,
           e.kind # "LIFECYCLE" => e.other # 0 /\ AppOf(w, e.other) # 0
    PROVE  LET v == Timeout(w, e)
           IN /\ Willing(v, {})
              /\ \A x \in Activity : Stray(v, x) =>
                     Stray(w, x) \/ (e.kind = "WAIT_RESUME" /\ x = e.other)
<1> DEFINE v == Timeout(w, e)
<1>1. /\ Low(w) /\ e.of \in Activity /\ e.kind \in {"LIFECYCLE", "WAIT_RESUME", "DELAY_DESTROY"}
      /\ e.other # 0 => e.other \in Activity
  BY AloneFacts, BoundsAssumption DEF PendType, Activity
<1>2. CASE e.kind = "LIFECYCLE"
  <2> DEFINE x == e.of
             u == AbnormalExit(w, x)
  <2>1. CASE w.act[x].mStatus = w.act[x].mTargetStatus
    <3>1. Timeout(w, e) = w
      BY <2>1, <1>2 DEF Timeout
    <3>2. QED
      BY <3>1
  <2>2. CASE w.act[x].mStatus # w.act[x].mTargetStatus
    <3>1. v = DeleteActivity(u, x)
      BY <2>2, <1>2, AloneDeletes DEF Timeout
    <3>2. Low(u) /\ Loose(w, u, {x}) /\ SameTasks(w, u) /\ u.undefined = w.undefined
      BY <1>1, AbnormalExitLoose
    <3>3. Tame(w, u, {}, {x})
      BY <1>1, AbnormalExitTame
    <3> HIDE DEF u, v
    <3>4. Careful(u)
      BY <3>2 DEF Careful, Fine
    <3>5. Fine(u, {x} \union {})
      BY <3>2, <3>4, LooseFine
    <3>6. Sound(u)
      BY <3>5, AloneFacts
    <3>7. NoStray(w, u) /\ Willing(u, {x} \union {})
      BY <3>2, <3>3, CalmHandover
    <3> DEFINE X == {x} \union {}
    <3>8. X \ {x} = {} /\ Willing(u, X)
      BY <3>7
    <3> HIDE DEF X
    <3>9. NoStray(u, v) /\ Willing(v, X \ {x})
      BY <1>1, <3>1, <3>6, <3>8, DeleteStrays
    <3>10. NoStray(w, v) /\ Willing(v, {})
      BY <3>7, <3>8, <3>9, NoStrayTransitive
    <3>11. QED
      BY <3>10 DEF NoStray, v
  <2>3. QED
    BY <2>1, <2>2
<1>3. CASE e.kind = "WAIT_RESUME"
  <2> DEFINE y == e.other
  <2>1. y \in Activity /\ AppOf(w, y) # 0 /\ RESUMED \in Status
    BY <1>1, <1>3 DEF Status
  <2>2. v = LifecycleTransition(w, y, RESUMED)
    BY <1>3 DEF Timeout
  <2> HIDE DEF y, v
  <2>3. SameTasks(w, v)
    BY <1>1, <2>1, <2>2, TransitionQuiet DEF Quiet, Calm
  <2>4. Tame(w, v, {y}, {})
    <3> HIDE DEF RESUMED
    <3>1. QED
      BY <1>1, <2>1, <2>2, TransitionTame
  <2>5. Shown(v) = Shown(w) /\ \A x \in Activity : Stacked(v, x) <=> Stacked(w, x)
    BY <2>3 DEF SameTasks, Shown, Active, Top, Stacked, On
  <2>6. Willing(v, {} \union {})
    BY <2>4, <2>5, WillingKept
  <2>7. \A x \in Activity : Stray(v, x) => Stray(w, x) \/ x = y
    BY <2>4, <2>5 DEF Stray, Tame
  <2>8. QED
    BY <1>3, <2>6, <2>7 DEF v, y
<1>4. CASE e.kind = "DELAY_DESTROY"
  <2> DEFINE y == e.other
  <2>1. y \in Activity /\ AppOf(w, y) # 0 /\ DESTROYED \in Status /\ DESTROYED # RESUMED
    BY <1>1, <1>4 DEF Status
  <2>2. v = LifecycleTransition(w, y, DESTROYED)
    BY <1>4 DEF Timeout
  <2> HIDE DEF y, v
  <2>3. SameTasks(w, v)
    BY <1>1, <2>1, <2>2, TransitionQuiet DEF Quiet, Calm
  <2>4. Tame(w, v, {}, {})
    <3> HIDE DEF RESUMED, DESTROYED
    <3>1. QED
      BY <1>1, <2>1, <2>2, TransitionTame
  <2>5. NoStray(w, v) /\ Willing(v, {} \union {})
    BY <2>3, <2>4, CalmHandover
  <2>6. QED
    BY <2>5 DEF NoStray, v
<1>5. QED
  BY <1>1, <1>2, <1>3, <1>4

\* Marking activities: they alone are not willing then.
LEMMA MarkedStrays ==
    ASSUME NEW w, Low(w), NEW s \in Seq(Activity), Willing(w, {}),
           \A x \in ToSet(s) : Freed(w, x) /\ AppOf(w, x) # 0
    PROVE  LET v == FoldLeft(AbnormalExit, w, s)
           IN NoStray(w, v) /\ Willing(v, ToSet(s))
<1> DEFINE M == {x \in Activity : x \in ToSet(s)}
           V == {v \in HeapType : Quiet(w, v) /\ Tame(w, v, {}, M)}
           T == [k \in 0..Len(s) |-> V]
<1>1. w \in HeapType
  BY DEF Low
<1>2. /\ Len(s) \in Nat /\ ToSet(s) \subseteq Activity /\ \A k \in 1..Len(s) : s[k] \in ToSet(s)
      /\ M = ToSet(s)
  BY ElementsFacts
<1>3. w \in V
  BY <1>1, QuietReflexive, SameTame
<1>4. ASSUME NEW v \in V, NEW x \in ToSet(s) PROVE AbnormalExit(v, x) \in V
  <2> DEFINE u == AbnormalExit(v, x)
  <2>1. Quiet(w, v) /\ Low(v) /\ AppOf(v, x) # 0 /\ x \in Activity /\ AppOf(v, x) = AppOf(w, x)
    BY <1>2, QuietKeepsApp DEF Quiet
  <2>2. Freed(v, x)
    <3>1. AppOf(w, x) \in Proc
      BY <1>1, <1>2, AppFacts
    <3>2. QED
      BY <2>1, <3>1 DEF Quiet, Calm, Steady, Freed, AppOf
  <2>3. Quiet(v, u)
    BY <2>1, <2>2, AbnormalExitLoose
  <2>4. Tame(v, u, {}, {x})
    BY <2>1, AbnormalExitTame
  <2> HIDE DEF u
  <2>5. Quiet(w, u)
    BY <1>1, <2>1, <2>3, QuietTransitive
  <2>6. Tame(w, u, {} \union {}, M \union {x}) /\ M \union {x} = M
    <3>1. Tame(w, v, {}, M)
      OBVIOUS
    <3> HIDE DEF M
    <3>2. Tame(w, u, {} \union {}, M \union {x})
      BY <3>1, <2>4, TameTransitive
    <3>3. QED
      BY <3>2, <1>2
  <2>7. Tame(w, u, {}, M)
    BY <2>6
  <2>8. QED
    BY <2>5, <2>7 DEF Quiet, Calm, Low, u
<1> HIDE DEF V
<1>5. w \in T[0] /\ T[Len(s)] = V /\ \A k \in 1..Len(s) : T[k] = V
  BY <1>2, <1>3
<1> HIDE DEF T
<1>6. FoldLeft(AbnormalExit, w, s) \in V \intersect T[Len(s)]
  BY <1>2, <1>3, <1>4, <1>5, ExitLoop
<1> DEFINE z == FoldLeft(AbnormalExit, w, s)
<1>7. Quiet(w, z) /\ Tame(w, z, {}, M)
  BY <1>6 DEF V
<1> HIDE DEF z, M
<1>8. NoStray(w, z) /\ Willing(z, M \union {})
  BY <1>7, CalmHandover DEF Quiet, Calm
<1>9. M \union {} = ToSet(s)
  BY <1>2
<1>10. QED
  BY <1>8, <1>9 DEF z

\* Each of them leaves its task.
LEMMA ErasedStrays ==
    ASSUME Alone, NEW w, NEW s \in Seq(Activity), Fine(w, ToSet(s)), \A x \in ToSet(s) : AppOf(w, x) # 0,
           Willing(w, ToSet(s))
    PROVE  LET v == FoldLeft(Erased, w, s) IN NoStray(w, v) /\ Willing(v, {})
<1> DEFINE rest(k) == {s[j] : j \in (k + 1)..Len(s)}
           V == {v \in HeapType : /\ Fine(v, ToSet(s)) /\ NoStray(w, v)
                                  /\ \A x \in ToSet(s) : AppOf(v, x) # 0}
           T == [k \in 0..Len(s) |-> {v \in V : Willing(v, rest(k))}]
<1>1. /\ Len(s) \in Nat /\ ToSet(s) \subseteq Activity /\ \A k \in 1..Len(s) : s[k] \in ToSet(s)
      /\ DOMAIN s = 1..Len(s)
  BY ElementsFacts
<1>2. /\ rest(0) = ToSet(s) /\ rest(Len(s)) = {}
      /\ \A k \in 1..Len(s) : rest(k - 1) \ {s[k]} \subseteq rest(k)
  <2>1. rest(0) = ToSet(s)
    <3>1. (0 + 1)..Len(s) = 1..Len(s)
      BY <1>1
    <3>2. QED
      BY <3>1, <1>1 DEF ToSet
  <2>2. rest(Len(s)) = {}
    BY <1>1
  <2>3. \A k \in 1..Len(s) : \A j \in ((k - 1) + 1)..Len(s) : j = k \/ j \in (k + 1)..Len(s)
    BY <1>1
  <2>4. \A k \in 1..Len(s) : rest(k - 1) \ {s[k]} \subseteq rest(k)
    BY <2>3
  <2>5. QED
    BY <2>1, <2>2, <2>4
<1> HIDE DEF rest
<1>3. w \in V
  BY DEF Fine, Base, Low, NoStray
<1>4. ASSUME NEW v \in V, NEW x \in ToSet(s), NEW X, Willing(v, X)
      PROVE  Erased(v, x) \in V /\ Willing(Erased(v, x), X \ {x})
  <2> DEFINE d == Delete(v, x)
             u == Erased(v, x)
             Y == ToSet(s) \ {x}
  <2>1. x \in Activity /\ AppOf(v, x) # 0 /\ Fine(v, ToSet(s)) /\ NoStray(w, v)
    BY <1>1
  <2>2. Fine(d, Y) /\ Loose(v, d, {})
    BY <2>1, DeleteFine
  <2>3. NoStray(v, d) /\ Willing(d, X \ {x})
    <3>1. d = DeleteActivity(v, x) /\ Sound(v)
      BY <2>1, AloneDeletes, AloneFacts
    <3> HIDE DEF d, V
    <3>2. QED
      BY <3>1, <2>1, <1>4, DeleteStrays
  <2>4. u = [d EXCEPT !.act[x].mapped = FALSE]
    BY DEF Erased
  <2> HIDE DEF d, u, V, T
  <2>5. AppOf(d, x) # 0 /\ d \in HeapType
    BY <2>1, <2>2, LooseKeepsApp, AloneFacts
  <2>6. Fine(u, Y) /\ Loose(d, u, {})
    <3> HIDE DEF Y
    <3>1. Fine([d EXCEPT !.act[x].mapped = FALSE], Y)
                  /\ Loose(d, [d EXCEPT !.act[x].mapped = FALSE], {})
      BY <2>1, <2>2, <2>5, UnmappedFine
    <3>2. QED
      BY <3>1, <2>4
  <2>7. NoStray(d, u) /\ Willing(u, X \ {x})
    <3> DEFINE Z == X \ {x}
    <3>1. Willing(d, Z)
      BY <2>3
    <3> HIDE DEF Z
    <3>2. NoStray(d, u) /\ Willing(u, Z)
      BY <3>1, <2>1, <2>4, <2>5, UnmappedStrays
    <3>3. QED
      BY <3>2 DEF Z
  <2>8. \A y \in Activity : AppOf(u, y) = AppOf(v, y)
    BY <2>2, <2>6, LooseKeepsApp
  <2>9. NoStray(w, u)
    BY <2>1, <2>3, <2>7, NoStrayTransitive
  <2>10. Fine(u, ToSet(s)) /\ u \in HeapType
    BY <2>6, FineMore, AloneFacts
  <2>11. QED
    BY <1>1, <2>7, <2>8, <2>9, <2>10 DEF V, u
<1>5. ASSUME NEW v \in V, NEW x \in ToSet(s) PROVE Erased(v, x) \in V
  <2>1. Willing(v, Activity)
    BY DEF Willing
  <2>2. QED
    BY <1>4, <2>1
<1>6. ASSUME NEW k \in 1..Len(s), NEW v \in V, v \in T[k - 1] PROVE Erased(v, s[k]) \in T[k]
  <2>1. k \in 0..Len(s) /\ k - 1 \in 0..Len(s) /\ s[k] \in ToSet(s)
    BY <1>1
  <2>2. Willing(v, rest(k - 1))
    BY <2>1, <1>6
  <2>3. Erased(v, s[k]) \in V /\ Willing(Erased(v, s[k]), rest(k - 1) \ {s[k]})
    BY <2>1, <2>2, <1>4
  <2>4. Willing(Erased(v, s[k]), rest(k))
    BY <2>3, <1>2 DEF Willing
  <2>5. QED
    BY <2>1, <2>3, <2>4
<1>7. w \in T[0] /\ T[Len(s)] = {v \in V : Willing(v, {})}
  <2>1. 0 \in 0..Len(s) /\ Len(s) \in 0..Len(s)
    BY <1>1
  <2>2. QED
    BY <2>1, <1>2, <1>3
<1> HIDE DEF T
<1>8. FoldLeft(Erased, w, s) \in V \intersect T[Len(s)]
  <2> HIDE DEF V
  <2>1. QED
    BY <1>3, <1>5, <1>6, <1>7, EraseLoop
<1>9. QED
  BY <1>7, <1>8

\* The end of a process.
LEMMA TerminatedStrays ==
    ASSUME Alone, NEW w, Fine(w, {}), Willing(w, {}), NEW p \in Proc,
           w.proc[p].mStatus \in {"RUNNING", "STOPPING"}
    PROVE  LET v == ProcAppTerminated(w, p) IN NoStray(w, v) /\ Willing(v, {})
<1> DEFINE s == w.proc[p].mExistActivity
           stopped == [w EXCEPT !.proc[p].mStatus = "STOPPED", !.proc[p].mExistActivity = <<>>,
                                !.proc[p].sent = <<>>, !.proc[p].terminating = FALSE]
           marked == FoldLeft(AbnormalExit, stopped, s)
           v == FoldLeft(Erased, marked, s)
<1>1. /\ s \in Seq(Activity) /\ ToSet(s) \subseteq Activity
      /\ (\A x \in ToSet(s) : AppOf(w, x) = p) /\ p # 0
  <2>1. Low(w) /\ w.proc[p] \in ProcType /\ ProcOK(w, p)
    BY BaseFacts, HeapParts DEF Fine, Low
  <2>2. QED
    BY <2>1, ProcParts, ElementsFacts, BoundsAssumption DEF ProcOK, Exist, Proc
<1>2. ProcAppTerminated(w, p) = v
  BY DEF ProcAppTerminated, Erased
<1>3. /\ Fine(stopped, ToSet(s)) /\ stopped.proc[p].mStatus = "STOPPED"
      /\ \A x \in Activity : AppOf(stopped, x) = AppOf(w, x)
  BY EndedFine DEF Exist
<1>4. stopped.act = w.act /\ SameTasks(w, stopped)
  BY AloneFacts DEF SameTasks, HeapType
<1> HIDE DEF stopped, s
<1>5. NoStray(w, stopped) /\ Willing(stopped, {})
  BY <1>4, SameFields
<1>6. Low(stopped) /\ \A x \in ToSet(s) : Freed(stopped, x) /\ AppOf(stopped, x) # 0
  BY <1>1, <1>3, AloneFacts DEF Freed, AppOf
<1>7. Fine(marked, ToSet(s)) /\ \A x \in Activity : AppOf(marked, x) = AppOf(stopped, x)
  BY <1>1, <1>3, MarkedFine
<1>8. NoStray(stopped, marked) /\ Willing(marked, ToSet(s))
  BY <1>1, <1>5, <1>6, MarkedStrays
<1> HIDE DEF marked
<1>9. NoStray(marked, v) /\ Willing(v, {})
  BY <1>1, <1>3, <1>7, <1>8, ErasedStrays
<1>10. NoStray(w, v)
  BY <1>5, <1>8, <1>9, NoStrayTransitive
<1>11. QED
  BY <1>2, <1>9, <1>10

\* A new activity is on no stack yet.
LEMMA GrownStrays ==
    ASSUME NEW w, Base(w), Willing(w, {}), NEW v, NEW t, NEW x, Grows(w, v, t, x)
    PROVE  NoStray(w, v) /\ Willing(v, {})
<1>1. /\ x \in Activity /\ x = w.activities + 1 /\ SameTasks(w, v)
      /\ \A y \in Activity : y # x => v.act[y] = w.act[y]
  BY DEF Grows
<1>2. Shown(v) = Shown(w) /\ \A y \in Activity : Stacked(v, y) <=> Stacked(w, y)
  BY <1>1 DEF SameTasks, Shown, Active, Top, Stacked, On
<1>3. ~Stacked(w, x)
  BY <1>1, UnmadeFacts DEF Stacked
<1>4. \A y \in Activity : y # x => (Eager(v, y) <=> Eager(w, y)) /\ (Wanted(v, y) <=> Wanted(w, y))
  BY <1>1 DEF Eager, Wanted
<1>5. QED
  BY <1>2, <1>3, <1>4 DEF NoStray, Stray, Willing

\* A launch puts the new activity on top at once, or leaves it for later.
LEMMA LaunchStrays ==
    ASSUME Alone, NEW w, Fine(w, {}), Willing(w, {}), NEW n \in Name, NEW made, NEW t,
           Fits(w, made, n, t), NEW clear \in BOOLEAN,
           w.activities < MaxActivities, w.procs < MaxProcs
    PROVE  LET v == LaunchActivity(w, made, n, t, clear) IN NoStray(w, v) /\ Willing(v, {})
<1> DEFINE u == NewActivity(made, n, t)
           x == w.activities + 1
           p == FindProc(w, Package[n], {"RUNNING"})
           r == [u EXCEPT !.act[x].mApp = p]
           s == [Spawn(u, Package[n]) EXCEPT !.launch =
                    Append(@, [proc |-> w.procs + 1, activity |-> x, task |-> t, clear |-> clear])]
           v == LaunchActivity(w, made, n, t, clear)
<1>1. u.activities = x
  BY FitsFacts
<1>2. \/ p # 0 /\ v = Push(r, t, x, clear)
      \/ v = w
      \/ v = s
  BY <1>1 DEF LaunchActivity
<1>3. Base(w)
  BY DEF Fine
<1>4. CASE p # 0 /\ v = Push(r, t, x, clear)
  <2>1. p \in Proc /\ w.proc[p].mStatus = "RUNNING"
    BY <1>4, FindProcFacts
  <2>2. Grows(w, r, t, x)
    <3> HIDE DEF p
    <3>1. QED
      BY <2>1, RunningGrows
  <2>3. r.act[x].mApp = p /\ p # 0
    <3>1. u \in HeapType /\ x \in Activity /\ u.act[x] \in ActivityType
      BY FitsFacts
    <3> HIDE DEF u, x, p
    <3>2. QED
      BY <3>1, <1>4, HeapParts DEF ActivityType
  <2> HIDE DEF r, x, v
  <2>4. Fine(r, {}) /\ Pushable(r, t, x)
    BY <2>2, <2>3, GrownFine DEF AppOf
  <2>5. NoStray(w, r) /\ Willing(r, {})
    BY <2>2, <1>3, GrownStrays
  <2>6. v = PushNewActivity(r, t, x, clear) /\ Sound(r)
    BY <1>4, <2>4, AloneFacts DEF Push
  <2>7. NoStray(r, v) /\ Willing(v, {})
    BY <2>4, <2>5, <2>6, PushNewStrays
  <2>8. QED
    BY <2>5, <2>7, NoStrayTransitive DEF v
<1>5. CASE v = s
  <2>1. Grows(w, s, t, x)
    BY SpawnedGrows
  <2> HIDE DEF s, x, v
  <2>2. NoStray(w, v) /\ Willing(v, {})
    BY <2>1, <1>3, <1>5, GrownStrays
  <2>3. QED
    BY <2>2 DEF v
<1>6. CASE v = w
  BY <1>6 DEF NoStray
<1>7. QED
  BY <1>2, <1>4, <1>5, <1>6

\* startActivityReal()
LEMMA StartRealStrays ==
    ASSUME Alone, NEW w, Fine(w, {}), Willing(w, {}), NEW n \in Name, NEW anew \in BOOLEAN,
           NEW clearTask \in BOOLEAN, NEW clearTop \in BOOLEAN, HasRoom(w)
    PROVE  LET v == StartActivityReal(w, n, anew, clearTask, clearTop)
           IN NoStray(w, v) /\ Willing(v, {})
<1> DEFINE isEntry == n = Entry[Package[n]]
           ui == Package[n] \in SystemUI
           tag == IF isEntry THEN Package[n] ELSE Affinity[n]
           mode == IF isEntry /\ Mode[n] # "SINGLE_TASK" THEN "SINGLE_INSTANCE" ELSE Mode[n]
           newTask == anew \/ isEntry \/ mode = "SINGLE_INSTANCE"
           single == mode \in {"SINGLE_TASK", "SINGLE_INSTANCE"}
           found == IF newTask THEN Find(w, ui, tag) ELSE ActiveOf(w, ui)
           isNew == newTask /\ found = 0
           made == IF isNew THEN NewTask(w, tag) ELSE w
           t == IF isNew THEN made.tasks ELSE found
           among == IF mode = "SINGLE_TOP" THEN <<Top(w, t)>>
                    ELSE IF single THEN w.stack[t]
                    ELSE <<>>
           named == SelectInSeq(among, LAMBDA x : w.act[x].name = n)
           bad == t = 0 \/ (mode = "SINGLE_TOP" /\ ~isNew /\ Top(w, t) = 0)
           v == StartActivityReal(w, n, anew, clearTask, clearTop)
<1>0. ~ui
  BY DEF Alone
<1>1. v = IF bad THEN Undefined(w)
          ELSE IF isNew \/ named = 0 THEN LaunchActivity(w, made, n, t, clearTask)
          ELSE TurnToActivity(w, t, among[named], clearTop \/ single)
  BY <1>0 DEF StartActivityReal
<1>2. w \in HeapType /\ Sound(w)
  BY AloneFacts
<1>3. tag \in Tags /\ ui \in BOOLEAN /\ single \in BOOLEAN /\ w.tasks \in Nat
  BY <1>2, HeapParts DEF Tags, Packages
<1>4. found # 0 => found \in Task /\ found \in Listed(w)
  <2> HIDE DEF tag
  <2>1. ui = FALSE
    BY <1>0
  <2> HIDE DEF ui
  <2>2. QED
    BY <2>1, <1>2, <1>3, FindFacts, ActiveOfFacts
<1>6. isNew => made = NewTask(w, tag) /\ t = w.tasks + 1
  BY <1>2 DEF NewTask, HeapType
<1>7. ~isNew => made = w /\ t = found
  OBVIOUS
<1>11. /\ mode = "SINGLE_TOP" => among = <<Top(w, t)>>
       /\ mode # "SINGLE_TOP" => among = <<>> \/ (among = w.stack[t] /\ single)
  OBVIOUS
<1> HIDE DEF ui, tag, mode, newTask, single, found, isNew, made, t, v
<1>12. CASE bad
  <2>1. v = Undefined(w)
    BY <1>1, <1>12
  <2>2. v.act = w.act /\ SameTasks(w, v)
    BY <2>1, <1>2 DEF Undefined, SameTasks, HeapType
  <2>3. QED
    BY <2>2, SameFields DEF v
<1>13. CASE ~bad /\ (isNew \/ named = 0)
  <2>1. Fits(w, made, n, t)
    <3>1. CASE isNew
      BY <3>1, <1>3, <1>6 DEF Fits, HasRoom
    <3>2. CASE ~isNew
      <4>1. made = w /\ t # 0 /\ t = found
        BY <3>2, <1>7, <1>13
      <4>2. QED
        BY <4>1, <1>4, <1>0 DEF Fits, ui
    <3>3. QED
      BY <3>1, <3>2
  <2>2. w.activities < MaxActivities /\ w.procs < MaxProcs
    BY DEF HasRoom
  <2>3. v = LaunchActivity(w, made, n, t, clearTask)
    BY <1>1, <1>13
  <2>4. QED
    BY <2>1, <2>2, <2>3, LaunchStrays DEF v
<1>14. CASE ~bad /\ ~isNew /\ named # 0
  <2>1. t \in Task /\ t = found /\ t \in Listed(w)
    BY <1>14, <1>4, <1>7
  <2>2. /\ w.stack[t] \in Seq(Activity) /\ On(w, t) \subseteq Activity
        /\ mode = "SINGLE_TOP" => Top(w, t) \in Activity /\ Top(w, t) \in On(w, t)
    BY <2>1, <1>2, <1>14, OnFacts, TopFacts
  <2>3. /\ among \in Seq(Activity) /\ ToSet(among) \subseteq On(w, t)
        /\ \A x \in ToSet(among) : x = Top(w, t) \/ single
    <3>1. CASE mode = "SINGLE_TOP"
      BY <3>1, <2>2, <1>11 DEF ToSet
    <3>2. CASE mode # "SINGLE_TOP"
      BY <3>2, <2>2, <1>11 DEF ToSet, On
    <3>3. QED
      BY <3>1, <3>2
  <2> HIDE DEF among
  <2>4. among[named] \in ToSet(among)
    <3>1. named = FirstNamed(w, among, n)
      BY DEF FirstNamed
    <3> HIDE DEF named
    <3>2. QED
      BY <2>3, <3>1, <1>14, NamedFacts
  <2> DEFINE y == among[named]
             c == clearTop \/ single
  <2>5. y \in On(w, t) /\ (c \/ y = Top(w, t)) /\ c \in BOOLEAN
    BY <2>3, <2>4, <1>3
  <2>6. v = TurnToActivity(w, t, y, c)
    BY <1>1, <1>14
  <2> HIDE DEF y, c
  <2>7. QED
    BY <2>1, <2>5, <2>6, <1>2, TurnStrays DEF v
<1>15. QED
  BY <1>12, <1>13, <1>14

\* There is no system UI to make room.
LEMMA StartedNothing ==
    ASSUME Alone, NEW w, Fine(w, {}), NEW package
    PROVE  Started(w, package) = w
BY AloneFacts, UiOnStartNothing DEF Started

\* startActivity() of an activity
LEMMA StartNameStrays ==
    ASSUME Alone, NEW w, Fine(w, {}), Willing(w, {}), NEW n \in Name, NEW anew \in BOOLEAN,
           NEW clearTask \in BOOLEAN, NEW clearTop \in BOOLEAN, HasRoom(w), Askable(w, n, anew)
    PROVE  LET v == StartName(w, n, anew, clearTask, clearTop)
           IN NoStray(w, v) /\ Willing(v, {})
<1> DEFINE v == StartActivityReal(w, n, anew, clearTask, clearTop)
<1>1. Fine(v, {})
  BY StartRealFine
<1>2. NoStray(w, v) /\ Willing(v, {})
  BY StartRealStrays
<1> HIDE DEF v
<1>3. Started(v, Package[n]) = v
  BY <1>1, StartedNothing
<1>4. StartName(w, n, anew, clearTask, clearTop) = v
  BY <1>3 DEF StartName, v
<1>5. QED
  BY <1>2, <1>4

\* startActivity() of a package
LEMMA StartPackageStrays ==
    ASSUME Alone, NEW w, Fine(w, {}), Willing(w, {}), NEW package \in DOMAIN Entry,
           NEW clearTask \in BOOLEAN, HasRoom(w)
    PROVE  LET v == StartPackage(w, package, clearTask) IN NoStray(w, v) /\ Willing(v, {})
<1> DEFINE ui == package \in SystemUI
           t == Find(w, ui, package)
           shown == IF t = 0 THEN StartActivityReal(w, Entry[package], TRUE, clearTask, FALSE)
                    ELSE SwitchTaskToActive(w, t)
<1>1. w \in HeapType /\ Sound(w) /\ ui = FALSE
  BY AloneFacts DEF Alone
<1>2. StartPackage(w, package, clearTask) = Started(shown, package)
  BY <1>1 DEF StartPackage
<1>3. t # 0 => t \in Listed(w)
  <2> HIDE DEF ui
  <2>1. QED
    BY <1>1, FindFacts
<1>4. Fine(shown, {}) /\ NoStray(w, shown) /\ Willing(shown, {})
  <2>1. CASE t = 0
    <3>1. Entry[package] \in Name /\ Askable(w, Entry[package], TRUE)
      BY NameAssumption DEF Askable
    <3>2. shown = StartActivityReal(w, Entry[package], TRUE, clearTask, FALSE)
      BY <2>1
    <3> HIDE DEF shown
    <3>3. QED
      BY <3>1, <3>2, StartRealFine, StartRealStrays
  <2>2. CASE t # 0
    <3>1. shown = SwitchTaskToActive(w, t) /\ t \in Listed(w)
      BY <2>2, <1>3
    <3> HIDE DEF shown, t
    <3>2. QED
      BY <3>1, <1>1, SwitchFine, SwitchStrays
  <2>3. QED
    BY <2>1, <2>2
<1> HIDE DEF shown
<1>5. Started(shown, package) = shown
  BY <1>4, StartedNothing
<1>6. QED
  BY <1>2, <1>4, <1>5

\* startHomeActivity()
LEMMA StartHomeStrays ==
    ASSUME Alone, NEW w, Fine(w, {}), Willing(w, {}), Active(w) = 0 => HasRoom(w)
    PROVE  LET v == StartHomeActivity(w) IN NoStray(w, v) /\ Willing(v, {})
<1>1. CASE Active(w) = 0
  BY <1>1, StartPackageStrays, HomeAssumption DEF StartHomeActivity
<1>2. CASE Active(w) # 0
  BY <1>2 DEF StartHomeActivity, NoStray
<1>3. QED
  BY <1>1, <1>2

\* moveTaskToBackground()
LEMMA MoveStrays ==
    ASSUME Alone, NEW w, Fine(w, {}), Willing(w, {}), NEW t \in Task, NEW b, b = FALSE
    PROVE  LET v == MoveToBackground(w, b, t) IN NoStray(w, v) /\ Willing(v, {})
BY AloneFacts, MoveTaskStrays DEF MoveToBackground

\* A process that is asked to end.
LEMMA StopStrays ==
    ASSUME NEW w, Low(w), NEW p \in Proc, Willing(w, {})
    PROVE  LET v == StopApplication(w, p) IN NoStray(w, v) /\ Willing(v, {})
<1> DEFINE v == StopApplication(w, p)
<1>1. Quiet(w, v) /\ v.act = w.act
  BY StopApplicationQuiet, StopActs
<1> HIDE DEF v
<1>2. NoStray(w, v) /\ Willing(v, {})
  BY <1>1, SameFields DEF Quiet, Calm
<1>3. QED
  BY <1>2 DEF v

\* systemReady()
LEMMA BootStrays ==
    ASSUME Alone, Fine(am, {}), Willing(am, {}), Boot
    PROVE  NoStray(am, am') /\ Willing(am', {})
<1>1. am.procs = 0 /\ am.activities = 0 /\ am.tasks = 0
  BY DEF Boot, Fine, Base, Numbered
<1>2. HasRoom(am)
  BY <1>1, BoundsAssumption DEF HasRoom
<1>3. QED
  BY <1>2, StartHomeStrays DEF Boot

\* startActivity()
LEMMA StartStrays ==
    ASSUME Alone, Fine(am, {}), Willing(am, {}), Start
    PROVE  NoStray(am, am') /\ Willing(am', {})
<1>1. HasRoom(am) /\ (HomeStays => am.mHomeTask # 0)
  BY DEF Start
<1>2. ASSUME NEW clearTask \in BOOLEAN, NEW package \in DOMAIN Entry, am' = StartPackage(am, package, clearTask)
      PROVE  NoStray(am, am') /\ Willing(am', {})
  BY <1>1, <1>2, StartPackageStrays
<1>3. ASSUME NEW clearTask \in BOOLEAN, NEW n \in Name, NEW anew \in BOOLEAN, NEW clearTop \in BOOLEAN,
             ~anew => (UiNewTask => Package[n] \notin SystemUI),
             am' = StartName(am, n, anew, clearTask, clearTop)
      PROVE  NoStray(am, am') /\ Willing(am', {})
  <2>1. Askable(am, n, anew)
    BY <1>1, <1>3 DEF Askable
  <2>2. QED
    BY <1>1, <1>3, <2>1, StartNameStrays
<1>4. QED
  BY <1>2, <1>3 DEF Start

\* finishActivity()
LEMMA FinishActionStrays ==
    ASSUME Alone, Fine(am, {}), Willing(am, {}), NEW x \in Activity, Finish(x)
    PROVE  NoStray(am, am') /\ Willing(am', {})
<1>1. AppOf(am, x) # 0
  BY TokenFacts DEF Finish
<1>2. am \in HeapType /\ Sound(am) /\ ~IsSystemUI(am, x)
  BY AloneFacts
<1>3. Stacked(am, x)
  BY <1>2, HeapParts, ElementsFacts DEF Finish, Alone, Stacked, On
<1>4. am' = FinishActivity(am, x)
  BY <1>2 DEF Finish
<1>5. QED
  BY <1>1, <1>2, <1>3, <1>4, FinishStrays

\* moveActivityTaskToBackground()
LEMMA MoveActionStrays ==
    ASSUME Alone, Fine(am, {}), Willing(am, {}), NEW x \in Activity, MoveActivityTaskToBackground(x)
    PROVE  NoStray(am, am') /\ Willing(am', {})
<1>1. am \in HeapType /\ TaskOf(am, x) # 0 /\ ~IsSystemUI(am, x)
  BY AloneFacts DEF MoveActivityTaskToBackground
<1>2. TaskOf(am, x) \in Task /\ IsSystemUI(am, x) = FALSE
  BY <1>1, TaskOfFacts DEF IsSystemUI
<1>3. am' = MoveToBackground(am, FALSE, TaskOf(am, x))
  BY <1>2 DEF MoveActivityTaskToBackground
<1>4. QED
  BY <1>2, <1>3, MoveStrays

\* stopActivity() of a package
LEMMA StopPackageStrays ==
    ASSUME Alone, Fine(am, {}), Willing(am, {}), NEW p \in Proc, StopPackage(p)
    PROVE  NoStray(am, am') /\ Willing(am', {})
<1> DEFINE active == Active(am)
           left == IF active # 0 /\ am.tag[active] = am.proc[p].package
                   THEN MoveToBackground(am, FALSE, active) ELSE am
<1>1. (am.proc[p].package \in SystemUI) = FALSE /\ am \in HeapType
  BY AloneFacts DEF Alone
<1>2. am' = left \/ am' = StopApplication(left, p)
  BY <1>1 DEF StopPackage, ActiveOf
<1>3. NoStray(am, left) /\ Willing(left, {}) /\ Low(left)
  <2>1. CASE left = am
    BY <2>1, AloneFacts DEF NoStray
  <2>2. CASE active # 0 /\ left = MoveToBackground(am, FALSE, active)
    <3>1. active \in Task /\ Kept(am, active)
      BY <1>1, <2>2, ActiveFacts DEF Kept
    <3> HIDE DEF left
    <3>2. Fine(left, {})
      BY <2>2, <3>1, MoveFine
    <3>3. QED
      BY <2>2, <3>1, <3>2, MoveStrays, AloneFacts
  <2>3. QED
    BY <2>1, <2>2
<1> HIDE DEF left
<1>4. NoStray(left, StopApplication(left, p)) /\ Willing(StopApplication(left, p), {})
  BY <1>3, StopStrays
<1>5. QED
  BY <1>2, <1>3, <1>4, NoStrayTransitive

\* stopApplication()
LEMMA StopByTokenStrays ==
    ASSUME Alone, Fine(am, {}), Willing(am, {}), NEW x \in Activity, StopByToken(x)
    PROVE  NoStray(am, am') /\ Willing(am', {})
<1> DEFINE t == TaskOf(am, x)
           left == IF t # 0 /\ t = Active(am) THEN MoveToBackground(am, FALSE, t) ELSE am
           p == AppOf(am, x)
<1>1. IsSystemUI(am, x) = FALSE /\ am \in HeapType
  BY AloneFacts DEF IsSystemUI
<1>2. am' = StopApplication(left, p) /\ p \in Proc
  BY <1>1, TokenFacts DEF StopByToken, ActiveOf, AppOf
<1>3. NoStray(am, left) /\ Willing(left, {}) /\ Low(left)
  <2>1. CASE left = am
    BY <2>1, AloneFacts DEF NoStray
  <2>2. CASE Active(am) # 0 /\ left = MoveToBackground(am, FALSE, Active(am))
    <3>1. Active(am) \in Task /\ Kept(am, Active(am))
      BY <1>1, <2>2, ActiveFacts DEF Kept
    <3> HIDE DEF left
    <3>2. Fine(left, {})
      BY <2>2, <3>1, MoveFine
    <3>3. QED
      BY <2>2, <3>1, <3>2, MoveStrays, AloneFacts
  <2>3. QED
    BY <2>1, <2>2
<1> HIDE DEF left, p
<1>4. NoStray(left, StopApplication(left, p)) /\ Willing(StopApplication(left, p), {})
  BY <1>2, <1>3, StopStrays
<1>5. QED
  BY <1>2, <1>3, <1>4, NoStrayTransitive

\* postIntent() to a system target
LEMMA PostStrays ==
    ASSUME Alone, Fine(am, {}), Willing(am, {}), PostIntent
    PROVE  NoStray(am, am') /\ Willing(am', {})
<1>1. am' = am \/ am' = Undefined(am)
  BY DEF PostIntent, FindSystemTarget
<1>2. am'.act = am.act /\ SameTasks(am, am')
  BY <1>1, AloneFacts DEF Undefined, SameTasks, HeapType
<1>3. QED
  BY <1>2, SameFields

\* attachApplication(): the launch that waited goes on.
LEMMA AppAttachedStrays ==
    ASSUME Alone, Fine(am, {}), Willing(am, {}), NEW p \in Proc, AppAttached(p)
    PROVE  NoStray(am, am') /\ Willing(am', {})
<1>1. PICK i \in DOMAIN am.launch :
          LET l == am.launch[i]
              attached == [am EXCEPT !.proc[p].mStatus = "RUNNING",
                                     !.launch = RemoveAt(@, i),
                                     !.act[l.activity].mApp = p]
          IN am' = Push(attached, l.task, l.activity, l.clear)
  BY DEF AppAttached
<1> DEFINE l == am.launch[i]
           x == l.activity
           a == [am.act[x] EXCEPT !.mApp = p]
           attached == [am EXCEPT !.proc[p].mStatus = "RUNNING",
                                  !.launch = RemoveAt(@, i),
                                  !.act[l.activity].mApp = p]
<1>2. Fine(attached, {}) /\ Pushable(attached, l.task, l.activity)
  BY AttachedFine DEF AppAttached
<1>3. l \in LaunchType /\ l.clear \in BOOLEAN /\ x \in Activity
  BY LaunchRemoved DEF Fine, LaunchType
<1>4. am' = Push(attached, l.task, l.activity, l.clear)
  BY <1>1
<1>5. am \in HeapType /\ am.act \in [Activity -> ActivityType]
  BY AloneFacts, HeapParts
<1>6. a.mStatus = am.act[x].mStatus /\ a.mTargetStatus = am.act[x].mTargetStatus
  <2>1. am.act[x] \in ActivityType
    BY <1>3, <1>5
  <2> HIDE DEF x
  <2>2. QED
    BY <2>1 DEF ActivityType
<1>7. attached.act = [am.act EXCEPT ![x] = a] /\ SameTasks(am, attached)
  BY <1>5 DEF SameTasks, HeapType
<1> HIDE DEF attached, l, a, x
<1>8. \A y \in Activity : /\ attached.act[y].mStatus = am.act[y].mStatus
                          /\ attached.act[y].mTargetStatus = am.act[y].mTargetStatus
  BY <1>3, <1>5, <1>6, <1>7
<1>9. NoStray(am, attached) /\ Willing(attached, {})
  BY <1>7, <1>8, SameFields
<1>10. am' = PushNewActivity(attached, l.task, l.activity, l.clear) /\ Sound(attached)
  BY <1>2, <1>4, AloneFacts DEF Push
<1>11. NoStray(attached, am') /\ Willing(am', {})
  BY <1>2, <1>3, <1>9, <1>10, PushNewStrays
<1>12. QED
  BY <1>9, <1>11, NoStrayTransitive

\* A client takes a call.
LEMMA DeliverStrays ==
    ASSUME Alone, Fine(am, {}), Willing(am, {}), NEW p \in Proc, Deliver(p)
    PROVE  NoStray(am, am') /\ Willing(am', {})
<1> DEFINE c == Head(am.proc[p].sent)
           step == c[1]
           x == c[2]
           taken == [am EXCEPT !.proc[p].sent = Tail(@)]
<1>1. \/ step \in Steps /\ (am' = Perform(taken, x, Done(step)) \/ am' = taken)
      \/ step = "CREATE" /\ (am' = ReportActivityStatus(taken, x, ERROR) \/ am' = taken)
      \/ am' = [taken EXCEPT !.proc[p].terminating = TRUE]
  BY DEF Deliver
<1>2. /\ Fine(taken, {})
      /\ step \in Steps => x \in Activity /\ AppOf(taken, x) # 0
      /\ step = "CREATE" => Answered(taken, x)
  BY TakenCall DEF Deliver
<1>3. step \in Steps => Done(step) \in Reports
  BY DEF Steps, Done, Doing, Reports
<1>4. "CREATE" \in Steps
  BY DEF Steps
<1>5. NoStray(am, taken) /\ Willing(taken, {})
  <2>1. taken.act = am.act /\ SameTasks(am, taken)
    BY AloneFacts DEF SameTasks, HeapType
  <2> HIDE DEF taken
  <2>2. QED
    BY <2>1, SameFields
<1> HIDE DEF c, taken
<1>6. NoStray(taken, am') /\ Willing(am', {})
  <2>1. CASE step \in Steps /\ am' = Perform(taken, x, Done(step))
    BY <1>2, <1>3, <1>5, <2>1, PerformStrays
  <2>2. CASE step = "CREATE" /\ am' = ReportActivityStatus(taken, x, ERROR)
    BY <1>2, <1>4, <1>5, <2>2, ReportStrays
  <2>3. CASE am' = [taken EXCEPT !.proc[p].terminating = TRUE]
    <3>1. am'.act = taken.act /\ SameTasks(taken, am')
      BY <1>2, <2>3, AloneFacts DEF SameTasks, HeapType
    <3>2. QED
      BY <3>1, <1>5, SameFields
  <2>4. CASE am' = taken
    BY <1>5, <2>4 DEF NoStray
  <2>5. QED
    BY <1>1, <2>1, <2>2, <2>3, <2>4
<1>7. QED
  BY <1>5, <1>6, NoStrayTransitive

\* A client destroys one of its activities when it ends.
LEMMA TeardownStrays ==
    ASSUME Alone, Fine(am, {}), Willing(am, {}), NEW p \in Proc, Teardown(p)
    PROVE  NoStray(am, am') /\ Willing(am', {})
<1>1. PICK x \in Clients(p) :
          LET left == IF am.act[x].client \in STARTED..PAUSED THEN <<STOPPED, DESTROYED>>
                      ELSE <<DESTROYED>>
          IN am' = Performs(am, left, x)
  BY DEF Teardown, Performs
<1> DEFINE left == IF am.act[x].client \in STARTED..PAUSED THEN <<STOPPED, DESTROYED>>
                   ELSE <<DESTROYED>>
<1>2. left \in Seq(Reports)
  <2>1. \A a, b \in Reports : <<a, b>> \in Seq(Reports) /\ <<a>> \in Seq(Reports)
    OBVIOUS
  <2>2. STOPPED \in Reports /\ DESTROYED \in Reports
    BY DEF Reports
  <2>3. QED
    BY <2>1, <2>2
<1>3. x \in Activity /\ AppOf(am, x) # 0
  BY BoundsAssumption DEF Clients, AppOf, Proc
<1>4. am' = Performs(am, left, x)
  BY <1>1
<1> HIDE DEF left
<1>5. QED
  BY <1>2, <1>3, <1>4, PerformsStrays

\* A process ends.
LEMMA AppTerminatedStrays ==
    ASSUME Alone, Fine(am, {}), Willing(am, {}), NEW p \in Proc, AppTerminated(p)
    PROVE  NoStray(am, am') /\ Willing(am', {})
<1> DEFINE ended == IF Alive(p) THEN ProcAppTerminated(am, p)
                    ELSE [am EXCEPT !.proc[p].mStatus = "STOPPED"]
<1>1. Active(ended) = 0 => HasRoom(ended)
  BY DEF AppTerminated
<1>2. am' = StartHomeActivity(ended)
  BY DEF AppTerminated
<1>3. Fine(ended, {})
  BY TerminatedFine, UnattachedFine DEF AppTerminated, Alive
<1>4. NoStray(am, ended) /\ Willing(ended, {})
  <2>1. CASE Alive(p)
    BY <2>1, TerminatedStrays DEF Alive
  <2>2. CASE ~Alive(p)
    <3>1. ended.act = am.act /\ SameTasks(am, ended)
      BY <2>2, AloneFacts DEF SameTasks, HeapType
    <3> HIDE DEF ended
    <3>2. QED
      BY <3>1, SameFields
  <2>3. QED
    BY <2>1, <2>2
<1> HIDE DEF ended
<1>5. NoStray(ended, am') /\ Willing(am', {})
  BY <1>1, <1>2, <1>3, <1>4, StartHomeStrays
<1>6. QED
  BY <1>4, <1>5, NoStrayTransitive

\* A pending task is over its time.
LEMMA PendTimeoutStrays ==
    ASSUME Alone, Fine(am, {}), Willing(am, {}), PendTimeout
    PROVE  /\ Willing(am', {})
           /\ \A x \in Activity : Stray(am', x) =>
                  Stray(am, x) \/ (Head(am.pend).kind = "WAIT_RESUME" /\ x = Head(am.pend).other)
<1>1. Low(am) /\ am.pend \in Seq(PendType) /\ am.pend # <<>>
  BY BaseFacts, HeapParts DEF Fine, PendTimeout
<1>2. Head(am.pend) \in ToSet(am.pend) /\ Head(am.pend) \in PendType /\ 1 \in 1..Len(am.pend)
  BY <1>1, ElementsFacts
<1> DEFINE e == Head(am.pend)
           w == Taken(am, 1)
<1>3. Quiet(am, w) /\ w.act = am.act
  BY <1>1, <1>2, TakenQuiet
<1>4. Fine(w, {})
  BY <1>3, QuietFine
<1>5. AppOf(w, e.of) # 0 /\ (e.kind # "LIFECYCLE" => e.other # 0 /\ AppOf(w, e.other) # 0)
  BY <1>1, <1>2, <1>3 DEF Low, PendOK, AppOf
<1>6. am' = Timeout(w, e)
  BY DEF PendTimeout
<1> HIDE DEF w, e
<1>7. NoStray(am, w) /\ Willing(w, {})
  BY <1>3, SameFields DEF Quiet, Calm
<1>8. e \in PendType
  BY <1>2 DEF e
<1>9. /\ Willing(am', {})
      /\ \A x \in Activity : Stray(am', x) => Stray(w, x) \/ (e.kind = "WAIT_RESUME" /\ x = e.other)
  BY <1>4, <1>5, <1>6, <1>7, <1>8, TimeoutStrays
<1>10. QED
  BY <1>7, <1>9 DEF NoStray, e

\* Every step hands the screen over, but for a timeout.
LEMMA NextStrays ==
    ASSUME Alone, Fine(am, {}), Willing(am, {}), [Next]_vars
    PROVE  /\ Willing(am', {})
           /\ \A x \in Activity : Stray(am', x) => \/ Stray(am, x)
                                                   \/ /\ am.pend # <<>>
                                                      /\ Head(am.pend).kind = "WAIT_RESUME"
                                                      /\ Head(am.pend).other = x
<1>1. CASE PendTimeout
  <2>1. am.pend # <<>>
    BY <1>1 DEF PendTimeout
  <2>2. QED
    BY <1>1, <2>1, PendTimeoutStrays
<1>2. CASE ~PendTimeout
  <2>1. NoStray(am, am') /\ Willing(am', {})
    <3>1. CASE Boot
      BY <3>1, BootStrays
    <3>2. CASE Start
      BY <3>2, StartStrays
    <3>3. CASE \E x \in Activity : Finish(x)
      BY <3>3, FinishActionStrays
    <3>4. CASE \E x \in Activity : MoveActivityTaskToBackground(x)
      BY <3>4, MoveActionStrays
    <3>5. CASE \E x \in Activity : StopByToken(x)
      BY <3>5, StopByTokenStrays
    <3>6. CASE \E p \in Proc : StopPackage(p)
      BY <3>6, StopPackageStrays
    <3>7. CASE \E p \in Proc : AppAttached(p)
      BY <3>7, AppAttachedStrays
    <3>8. CASE \E p \in Proc : Deliver(p)
      BY <3>8, DeliverStrays
    <3>9. CASE \E p \in Proc : Teardown(p)
      BY <3>9, TeardownStrays
    <3>10. CASE \E p \in Proc : AppTerminated(p)
      BY <3>10, AppTerminatedStrays
    <3>11. CASE PostIntent
      BY <3>11, PostStrays
    <3>12. CASE UNCHANGED vars
      BY <3>12 DEF vars, NoStray
    <3>13. QED
      BY <1>2, <3>1, <3>2, <3>3, <3>4, <3>5, <3>6, <3>7, <3>8, <3>9, <3>10, <3>11, <3>12 DEF Next
  <2>2. QED
    BY <2>1 DEF NoStray
<1>3. QED
  BY <1>1, <1>2

\* Without a system UI, and if only activities on a stack are finished and the home screen
\* stays, an activity that is not on top of the active task comes to be asked for RESUMED only
\* when the first of the pending tasks is an ActivityWaitResume that was to stop it.
THEOREM OnlyTimeoutsStrayAlways ==
    ASSUME FinishOnce, HomeStays, SystemUI = {}
    PROVE  Spec => OnlyTimeoutsStray
<1> DEFINE WInv == IInv /\ Willing(am, {})
           Step == \A x \in Activity : Astray(x)' /\ ~Astray(x) =>
                       /\ am.pend # <<>>
                       /\ Head(am.pend).kind = "WAIT_RESUME"
                       /\ Head(am.pend).other = x
<1>1. Alone
  BY DEF Alone
<1>2. ASSUME Init PROVE WInv
  <2>1. IInv
    BY <1>2, InitFine
  <2>2. \A x \in Activity : ~Wanted(am, x)
    BY <1>2 DEF Init, NoObjects, NoActivity, Wanted
  <2>3. QED
    BY <2>1, <2>2 DEF Willing, Eager
<1>3. ASSUME WInv, [Next]_vars PROVE WInv' /\ [Step]_vars
  <2>1. Fine(am, {}) /\ IInv' /\ Fine(am', {})
    <3>1. IInv'
      BY <1>3, NextFine
    <3>2. QED
      BY <3>1, <1>3 DEF IInv, Inv
  <2>2. /\ Willing(am', {})
        /\ \A x \in Activity : Stray(am', x) => \/ Stray(am, x)
                                                \/ /\ am.pend # <<>>
                                                   /\ Head(am.pend).kind = "WAIT_RESUME"
                                                   /\ Head(am.pend).other = x
    BY <1>1, <1>3, <2>1, NextStrays
  <2>3. \A x \in Activity : Astray(x) <=> Stray(am, x)
    <3>1. am \in HeapType
      BY <1>1, <2>1, AloneFacts
    <3>2. \A x \in Activity, t \in Task : Contains(am.stack[t], x) <=> x \in On(am, t)
      BY <3>1, HeapParts, ElementsFacts DEF On
    <3>3. QED
      BY <3>2 DEF Astray, OnStack, Stray, Stacked, Wanted, Shown
  <2>4. \A x \in Activity : Astray(x)' <=> Stray(am', x)
    <3>1. am' \in HeapType
      BY <1>1, <2>1, AloneFacts
    <3>2. \A x \in Activity, t \in Task : Contains(am'.stack[t], x) <=> x \in On(am', t)
      BY <3>1, HeapParts, ElementsFacts DEF On
    <3>3. QED
      BY <3>2 DEF Astray, OnStack, Stray, Stacked, Wanted, Shown, Active, Top
  <2>5. Step
    BY <2>2, <2>3, <2>4
  <2>6. QED
    BY <2>1, <2>2, <2>5
<1>4. QED
  BY <1>2, <1>3, PTL DEF Spec, OnlyTimeoutsStray
=============================================================================

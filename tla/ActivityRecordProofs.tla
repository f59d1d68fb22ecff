------------------------ MODULE ActivityRecordProofs ------------------------
(***************************************************************************)
(* Proofs about ActivityRecord, for any number of requests, as long as     *)
(* turnToActivity() meets the activity at rest: one lifecycle task waits   *)
(* exactly while a report is awaited, an activity rests only where it was  *)
(* sent, and what is destroyed stays destroyed.                            *)
(***************************************************************************)
EXTENDS ActivityRecord, SequenceTheorems, TLAPS

(* The numbers of the enum.                                                 *)
USE DEF ERROR, INIT, CREATING, CREATED, STARTING, STARTED, RESUMING, RESUMED,
        PAUSING, PAUSED, STOPPING, STOPPED, DESTROYING, DESTROYED

(* The status and the request pick a row and a column of the table.         *)
LEMMA RestingStatus ==
    ASSUME NEW s \in Status, ~Busy(s)
    PROVE  s \in {0, 2, 4, 6, 8, 10, 12}
BY DEF Status, Busy

LEMMA Column ==
    ASSUME NEW t \in Status
    PROVE  ((t + 1) \div 2) + 1 \in {1, 2, 3, 4, 5, 6, 7}
BY DEF Status

LEMMA Row ==
    ASSUME NEW s \in Status, ~Busy(s)
    PROVE  ((s + 1) \div 2) + 1 = (s \div 2) + 1
BY RestingStatus

(* The steps that are possible in each status at rest.                      *)
LEMMA Allowed ==
    /\ Allows("CREATE", 0)
    /\ Allows("START", 2) /\ Allows("STOP", 2) /\ Allows("DESTROY", 2)
    /\ Allows("RESUME", 4) /\ Allows("PAUSE", 4) /\ Allows("STOP", 4)
    /\ Allows("START", 6) /\ Allows("PAUSE", 6)
    /\ Allows("START", 8) /\ Allows("RESUME", 8) /\ Allows("STOP", 8)
    /\ Allows("START", 10) /\ Allows("DESTROY", 10)
BY DEF Allows

LEMMA StepStatuses ==
    ASSUME NEW step \in Steps
    PROVE  Doing(step) \in {1, 3, 5, 7, 9, 11}
<1>1. /\ Doing("CREATE") = 1 /\ Doing("START") = 3 /\ Doing("RESUME") = 5
      /\ Doing("PAUSE") = 7 /\ Doing("STOP") = 9 /\ Doing("DESTROY") = 11
  BY DEF Doing
<1>2. QED
  BY <1>1 DEF Steps

(* The table only asks for steps that create() ... destroy() take, and for  *)
(* none once the activity is destroyed.                                     *)
LEMMA TableMatchesGuards ==
    ASSUME NEW s \in Status, ~Busy(s), NEW t \in Status
    PROVE  /\ TurnTo(s, t) # "NONE" => TurnTo(s, t) \in Steps /\ Allows(TurnTo(s, t), s)
           /\ s = DESTROYED => TurnTo(s, t) = "NONE"
<1> DEFINE c == ((t + 1) \div 2) + 1
<1>1. c \in {1, 2, 3, 4, 5, 6, 7}
  BY Column
<1>2. CASE s = 0
  <2>1. TurnTo(s, t) = lifeCycleTable[1][c]
    BY <1>2 DEF TurnTo
  <2>2. TurnTo(s, t) \in {"NONE", "CREATE"}
    BY <1>1, <2>1 DEF lifeCycleTable
  <2>3. QED
    BY <1>2, <2>2, Allowed DEF Steps
<1>3. CASE s = 2
  <2>1. TurnTo(s, t) = lifeCycleTable[2][c]
    BY <1>3 DEF TurnTo
  <2>2. TurnTo(s, t) \in {"NONE", "START", "STOP", "DESTROY"}
    BY <1>1, <2>1 DEF lifeCycleTable
  <2>3. QED
    BY <1>3, <2>2, Allowed DEF Steps
<1>4. CASE s = 4
  <2>1. TurnTo(s, t) = lifeCycleTable[3][c]
    BY <1>4 DEF TurnTo
  <2>2. TurnTo(s, t) \in {"NONE", "RESUME", "PAUSE", "STOP"}
    BY <1>1, <2>1 DEF lifeCycleTable
  <2>3. QED
    BY <1>4, <2>2, Allowed DEF Steps
<1>5. CASE s = 6
  <2>1. TurnTo(s, t) = lifeCycleTable[4][c]
    BY <1>5 DEF TurnTo
  <2>2. TurnTo(s, t) \in {"NONE", "START", "PAUSE"}
    BY <1>1, <2>1 DEF lifeCycleTable
  <2>3. QED
    BY <1>5, <2>2, Allowed DEF Steps
<1>6. CASE s = 8
  <2>1. TurnTo(s, t) = lifeCycleTable[5][c]
    BY <1>6 DEF TurnTo
  <2>2. TurnTo(s, t) \in {"NONE", "START", "RESUME", "STOP"}
    BY <1>1, <2>1 DEF lifeCycleTable
  <2>3. QED
    BY <1>6, <2>2, Allowed DEF Steps
<1>7. CASE s = 10
  <2>1. TurnTo(s, t) = lifeCycleTable[6][c]
    BY <1>7 DEF TurnTo
  <2>2. TurnTo(s, t) \in {"NONE", "START", "DESTROY"}
    BY <1>1, <2>1 DEF lifeCycleTable
  <2>3. QED
    BY <1>7, <2>2, Allowed DEF Steps
<1>8. CASE s = 12
  <2>1. TurnTo(s, t) = lifeCycleTable[7][c]
    BY <1>8 DEF TurnTo
  <2>2. TurnTo(s, t) \in {"NONE"}
    BY <1>1, <2>1 DEF lifeCycleTable
  <2>3. QED
    BY <1>8, <2>2
<1>9. QED
  BY RestingStatus, <1>2, <1>3, <1>4, <1>5, <1>6, <1>7, <1>8

LEMMA BusyStatus ==
    ASSUME NEW s \in Status
    PROVE  Busy(s) <=> s \in {1, 3, 5, 7, 9, 11}
BY DEF Status, Busy

LEMMA ReportsRest ==
    ASSUME NEW s \in Reports
    PROVE  s \in Status /\ ~Busy(s)
BY DEF Reports, Status, Busy

-----------------------------------------------------------------------------
(* The invariant, on a record.                                              *)
Typed(r) == r \in RecordType /\ r.mStatus \in Status

Watched(r) ==
    /\ r.tasks <= 1
    /\ Busy(r.mStatus) => r.tasks = 1
    /\ ~Busy(r.mStatus) /\ r.mStatus # DESTROYED => r.tasks = 0

\* A destroyed activity the server can still look up has no task to trigger.
Closed(r) == r.mapped /\ r.mStatus = DESTROYED => r.tasks = 0

Settled(r) ==
    ~Busy(r.mStatus) /\ ~r.mIsError => TurnTo(r.mStatus, r.mTargetStatus) = "NONE"

Good(r) == Typed(r) /\ Watched(r) /\ Closed(r) /\ Settled(r)

LEMMA Scheduled ==
    ASSUME NEW r, Typed(r), NEW step \in Steps, Allows(step, r.mStatus)
    PROVE  \E d \in {1, 3, 5, 7, 9, 11}, q \in Seq(Commands), e \in BOOLEAN :
               Schedule(r, step) = [r EXCEPT !.mStatus = d, !.sent = q, !.exists = e]
<1>1. Doing(step) \in {1, 3, 5, 7, 9, 11}
  BY StepStatuses
<1> DEFINE q == IF r.app # "STOPPED" THEN Append(r.sent, step) ELSE r.sent
           e == r.exists \/ (step = "CREATE" /\ r.app # "STOPPED")
<1>2. r.sent \in Seq(Commands) /\ r.exists \in BOOLEAN
  BY DEF Typed, RecordType
<1>3. step \in Commands
  BY DEF Commands
<1>4. Append(r.sent, step) \in Seq(Commands)
  BY <1>2, <1>3
<1>5. q \in Seq(Commands)
  BY <1>2, <1>4
<1>6. e \in BOOLEAN
  BY <1>2
<1>7. Schedule(r, step) = [r EXCEPT !.mStatus = Doing(step), !.sent = q, !.exists = e]
  BY DEF Schedule
<1> HIDE DEF q, e
<1>8. QED
  BY <1>1, <1>5, <1>6, <1>7

(* lifecycleTransition() remembers a request while it waits, does nothing   *)
(* where the table has nothing to do, or sends one command and waits.       *)
LEMMA Transition ==
    ASSUME NEW r, Typed(r), NEW t \in Targets
    PROVE  \/ /\ Busy(r.mStatus)
              /\ LifecycleTransition(r, t) = [r EXCEPT !.mTargetStatus = t]
           \/ /\ ~Busy(r.mStatus)
              /\ TurnTo(r.mStatus, t) = "NONE"
              /\ LifecycleTransition(r, t) = r
           \/ /\ ~Busy(r.mStatus)
              /\ TurnTo(r.mStatus, t) # "NONE"
              /\ r.mStatus # DESTROYED
              /\ \E d \in {1, 3, 5, 7, 9, 11}, q \in Seq(Commands), e \in BOOLEAN :
                   LifecycleTransition(r, t) =
                     [r EXCEPT !.mStatus = d, !.sent = q, !.exists = e,
                               !.mTargetStatus = t, !.tasks = r.tasks + 1]
<1>1. r.mStatus \in Status /\ t \in Status
  BY DEF Typed, Targets, Status
<1>2. CASE Busy(r.mStatus)
  BY <1>2 DEF LifecycleTransition
<1>3. CASE ~Busy(r.mStatus) /\ TurnTo(r.mStatus, t) = "NONE"
  BY <1>3 DEF LifecycleTransition
<1>4. CASE ~Busy(r.mStatus) /\ TurnTo(r.mStatus, t) # "NONE"
  <2> DEFINE step == TurnTo(r.mStatus, t)
  <2>1. step \in Steps /\ Allows(step, r.mStatus) /\ r.mStatus # DESTROYED
    BY <1>1, <1>4, TableMatchesGuards
  <2>2. LifecycleTransition(r, t) =
            [Schedule(r, step) EXCEPT !.mTargetStatus = t, !.tasks = @ + 1]
    BY <1>4 DEF LifecycleTransition
  <2> HIDE DEF step
  <2>3. PICK d \in {1, 3, 5, 7, 9, 11}, q \in Seq(Commands), e \in BOOLEAN :
            Schedule(r, step) = [r EXCEPT !.mStatus = d, !.sent = q, !.exists = e]
    BY ZenonT(30), <2>1, Scheduled
  <2>4. LifecycleTransition(r, t) =
            [r EXCEPT !.mStatus = d, !.sent = q, !.exists = e,
                      !.mTargetStatus = t, !.tasks = r.tasks + 1]
    BY <2>2, <2>3 DEF Typed, RecordType
  <2>5. QED
    BY <1>4, <2>1, <2>4
<1>5. QED
  BY <1>2, <1>3, <1>4

(* What holds of a record after any transition of it.                       *)
LEMMA TransitionKeeps ==
    ASSUME NEW r, Typed(r), NEW t \in Targets
    PROVE  LET n == LifecycleTransition(r, t)
           IN /\ Typed(n)
              /\ Watched(r) => Watched(n)
              /\ Closed(r) => Closed(n)
              /\ Settled(r) \/ t = r.mTargetStatus \/ r.mIsError => Settled(n)
              /\ ~Busy(r.mStatus) /\ TurnTo(r.mStatus, t) # "NONE" => Settled(n)
              /\ r.mStatus = DESTROYED <=> n.mStatus = DESTROYED
              /\ n.onStack = r.onStack /\ n.mapped = r.mapped /\ n.app = r.app
<1> DEFINE n == LifecycleTransition(r, t)
<1>1. r \in RecordType /\ r.mStatus \in Status
  BY DEF Typed
<1>2. CASE Busy(r.mStatus) /\ n = [r EXCEPT !.mTargetStatus = t]
  <2> HIDE DEF n
  <2>1. n \in RecordType /\ n.mStatus = r.mStatus /\ n.tasks = r.tasks
        /\ n.onStack = r.onStack /\ n.mapped = r.mapped /\ n.app = r.app
    BY <1>1, <1>2 DEF RecordType
  <2>2. QED
    BY <1>1, <1>2, <2>1 DEF n, Typed, Watched, Closed, Settled
<1>3. CASE ~Busy(r.mStatus) /\ TurnTo(r.mStatus, t) = "NONE" /\ n = r
  <2> HIDE DEF n
  <2>1. QED
    BY <1>3 DEF n, Settled
<1>4. CASE /\ ~Busy(r.mStatus)
           /\ r.mStatus # DESTROYED
           /\ \E d \in {1, 3, 5, 7, 9, 11}, q \in Seq(Commands), e \in BOOLEAN :
                n = [r EXCEPT !.mStatus = d, !.sent = q, !.exists = e,
                              !.mTargetStatus = t, !.tasks = r.tasks + 1]
  <2> HIDE DEF n
  <2>1. PICK d \in {1, 3, 5, 7, 9, 11}, q \in Seq(Commands), e \in BOOLEAN :
            n = [r EXCEPT !.mStatus = d, !.sent = q, !.exists = e,
                          !.mTargetStatus = t, !.tasks = r.tasks + 1]
    BY <1>4
  <2>2. d \in Status /\ d \in -1..DESTROYED /\ d # DESTROYED
    BY DEF Status
  <2>3. Busy(d)
    BY <2>2, BusyStatus
  <2>4. n \in RecordType
    <3>1. r.tasks + 1 \in Nat
      BY <1>1 DEF RecordType
    <3>2. QED
      BY <1>1, <2>1, <2>2, <3>1 DEF RecordType
  <2>5. n.mStatus = d /\ n.tasks = r.tasks + 1
        /\ n.onStack = r.onStack /\ n.mapped = r.mapped /\ n.app = r.app
    BY <1>1, <2>1 DEF RecordType
  <2>6. r.tasks \in Nat
    BY <1>1 DEF RecordType
  <2>7. Watched(r) => Watched(n)
    BY <1>4, <2>2, <2>3, <2>5, <2>6 DEF Watched
  <2>8. Closed(n) /\ Settled(n) /\ Typed(n)
    BY <2>2, <2>3, <2>4, <2>5 DEF Closed, Settled, Typed
  <2>9. QED
    BY <1>4, <2>5, <2>7, <2>8 DEF n
<1>5. QED
  BY <1>2, <1>3, <1>4, Transition

(* The same of taking the activity off its stack.                           *)
LEMMA DeleteKeeps ==
    ASSUME NEW r, Typed(r)
    PROVE  LET n == DeleteActivity(r)
           IN /\ Typed(n)
              /\ Watched(r) => Watched(n)
              /\ Closed(r) => Closed(n)
              /\ Settled(r) \/ r.mIsError => Settled(n)
              /\ r.mStatus = DESTROYED => n.mStatus = DESTROYED
              /\ n.mapped = r.mapped /\ n.app = r.app
<1> DEFINE l == LifecycleTransition(r, DESTROYED)
           n == [l EXCEPT !.onStack = FALSE]
<1>1. DESTROYED \in Targets
  BY DEF Targets
<1>2. /\ Typed(l)
      /\ Watched(r) => Watched(l)
      /\ Closed(r) => Closed(l)
      /\ Settled(r) \/ r.mIsError => Settled(l)
      /\ r.mStatus = DESTROYED => l.mStatus = DESTROYED
      /\ l.mapped = r.mapped /\ l.app = r.app
  BY <1>1, TransitionKeeps
<1> HIDE DEF l
<1>3. /\ Typed(n) /\ n.mStatus = l.mStatus /\ n.tasks = l.tasks
      /\ n.mIsError = l.mIsError /\ n.mTargetStatus = l.mTargetStatus
      /\ n.mapped = l.mapped /\ n.app = l.app
  BY <1>2 DEF Typed, RecordType
<1> HIDE DEF n
<1>4. /\ Watched(l) => Watched(n)
      /\ Closed(l) => Closed(n)
      /\ Settled(l) => Settled(n)
  BY <1>3 DEF Watched, Closed, Settled
<1>5. DeleteActivity(r) = IF r.onStack THEN n ELSE r
  BY DEF DeleteActivity, n, l
<1>6. CASE r.onStack
  BY <1>2, <1>3, <1>4, <1>5, <1>6
<1>7. CASE ~r.onStack
  BY <1>5, <1>7 DEF Settled
<1>8. QED
  BY <1>6, <1>7

LEMMA StopKeeps ==
    ASSUME NEW r, Typed(r)
    PROVE  LET n == StopApplication(r)
           IN /\ Typed(n) /\ n.mStatus = r.mStatus /\ n.tasks = r.tasks
              /\ n.mTargetStatus = r.mTargetStatus /\ n.mIsError = r.mIsError
              /\ n.mapped = r.mapped
<1>1. r.sent \in Seq(Commands) /\ "TERMINATE" \in Commands
  BY DEF Typed, RecordType, Commands
<1>2. Append(r.sent, "TERMINATE") \in Seq(Commands)
  BY <1>1
<1>3. QED
  BY <1>2 DEF StopApplication, Typed, RecordType

\* A destroyed activity is at rest wherever it was sent.
LEMMA DestroyedSettled ==
    ASSUME NEW r, Typed(r), r.mStatus = DESTROYED
    PROVE  Settled(r) /\ (r.tasks <= 1 => Watched(r))
<1>1. r.mTargetStatus \in Status /\ r.mStatus \in Status
  BY DEF Typed, RecordType, Targets, Status
<1>2. ~Busy(DESTROYED)
  BY DEF Busy
<1>3. QED
  BY <1>1, <1>2, TableMatchesGuards DEF Settled, Watched

LEMMA AbnormalExitKeeps ==
    ASSUME NEW r, Typed(r), r.tasks <= 1
    PROVE  LET n == AbnormalExit(r)
           IN /\ Typed(n) /\ Watched(n) /\ Settled(n)
              /\ n.mStatus = DESTROYED /\ n.tasks = r.tasks /\ n.mapped = r.mapped
<1> DEFINE n == AbnormalExit(r)
<1>1. DESTROYED \in Status
  BY DEF Status
<1>2. CASE r.app = "STOPPED"
  <2>1. /\ Typed(n) /\ n.mStatus = DESTROYED /\ n.tasks = r.tasks /\ n.mapped = r.mapped
    BY <1>1, <1>2 DEF AbnormalExit, Typed, RecordType
  <2>2. QED
    BY <2>1, DestroyedSettled
<1>3. CASE r.app # "STOPPED"
  <2> DEFINE d == [r EXCEPT !.mStatus = DESTROYED, !.exists = FALSE]
  <2>1. Typed(d) /\ d.mStatus = DESTROYED /\ d.tasks = r.tasks /\ d.mapped = r.mapped
    <3>1. DESTROYED \in -1..DESTROYED
      OBVIOUS
    <3>2. d \in RecordType
      BY <3>1 DEF Typed, RecordType
    <3>3. d.mStatus = DESTROYED /\ d.tasks = r.tasks /\ d.mapped = r.mapped
      BY DEF Typed, RecordType
    <3>4. QED
      BY <1>1, <3>2, <3>3 DEF Typed
  <2> HIDE DEF d
  <2>2. /\ Typed(StopApplication(d)) /\ StopApplication(d).mStatus = DESTROYED
        /\ StopApplication(d).tasks = r.tasks /\ StopApplication(d).mapped = r.mapped
    BY <2>1, StopKeeps
  <2>3. n = StopApplication(d)
    BY <1>3 DEF AbnormalExit, d
  <2> HIDE DEF n
  <2>4. QED
    BY <2>2, <2>3, DestroyedSettled DEF n
<1>4. QED
  BY <1>2, <1>3

(* The end of the one task that waits, in a report or by its timeout.       *)
\* The record without the task that is called.
Taken(r) == [r EXCEPT !.tasks = @ - 1]

LEMMA TakenTyped ==
    ASSUME NEW r, Good(r), r.tasks > 0
    PROVE  /\ Typed(Taken(r)) /\ Taken(r).tasks = 0
           /\ Taken(r).mStatus = r.mStatus /\ Taken(r).mIsError = r.mIsError
           /\ Taken(r).mTargetStatus = r.mTargetStatus /\ Taken(r).mapped = r.mapped
<1>1. r.tasks \in Nat /\ r.tasks <= 1
  BY DEF Good, Typed, RecordType, Watched
<1>2. r.tasks - 1 = 0
  BY <1>1
<1>3. QED
  BY <1>2 DEF Good, Typed, RecordType, Taken

LEMMA RestingTarget ==
    ASSUME NEW t \in Targets
    PROVE  ~Busy(t)
BY DEF Targets, Busy

LEMMA TimeoutKeeps ==
    ASSUME NEW r, Good(r), r.tasks > 0
    PROVE  /\ Good(TimeoutTask(Taken(r)))
           /\ r.mStatus = DESTROYED => TimeoutTask(Taken(r)).mStatus = DESTROYED
<1> DEFINE k == Taken(r)
<1>1. /\ Typed(k) /\ k.tasks = 0 /\ k.mStatus = r.mStatus
      /\ k.mTargetStatus = r.mTargetStatus /\ k.mapped = r.mapped
  BY TakenTyped
<1> HIDE DEF k
<1>2. CASE k.mStatus = k.mTargetStatus
  <2>1. k.mTargetStatus \in Targets
    BY <1>1 DEF Typed, RecordType
  <2>2. ~Busy(k.mStatus)
    BY <1>2, <2>1, RestingTarget
  <2>3. k.mStatus = DESTROYED
    BY <1>1, <2>2 DEF Good, Watched
  <2>4. Watched(k) /\ Settled(k) /\ Closed(k)
    BY <1>1, <2>3, DestroyedSettled DEF Closed
  <2>5. TimeoutTask(k) = k
    BY <1>2 DEF TimeoutTask
  <2>6. QED
    BY <1>1, <2>3, <2>4, <2>5 DEF Good, k
<1>3. CASE k.mStatus # k.mTargetStatus
  <2> DEFINE a == AbnormalExit(k)
  <2>1. Typed(a) /\ Watched(a) /\ Settled(a) /\ a.mStatus = DESTROYED /\ a.tasks = 0
    BY <1>1, AbnormalExitKeeps
  <2>2. Closed(a)
    BY <2>1 DEF Closed
  <2> HIDE DEF a
  <2>3. Good(DeleteActivity(a)) /\ DeleteActivity(a).mStatus = DESTROYED
    BY <2>1, <2>2, DeleteKeeps DEF Good
  <2>4. TimeoutTask(k) = DeleteActivity(a)
    BY <1>3 DEF TimeoutTask, a
  <2>5. QED
    BY <2>3, <2>4 DEF k
<1>4. QED
  BY <1>2, <1>3

LEMMA TriggerKeeps ==
    ASSUME NEW r, Good(r), r.mapped, NEW status \in Reports \cup {ERROR}
    PROVE  LET n == TriggerReport(r, status)
           IN Good(n) /\ (r.mStatus = DESTROYED => n.mStatus = DESTROYED)
<1> DEFINE k == Taken(r)
<1>1. CASE r.tasks = 0
  BY <1>1 DEF TriggerReport
<1>2. CASE r.tasks > 0
  <2>1. /\ Typed(k) /\ k.tasks = 0 /\ k.mStatus = r.mStatus
        /\ k.mTargetStatus = r.mTargetStatus /\ k.mapped = r.mapped
    BY <1>2, TakenTyped
  <2>2. r.mStatus \in Status /\ r.mStatus # DESTROYED /\ Busy(r.mStatus)
    BY <1>2 DEF Good, Typed, Watched, Closed
  <2>3. r.mStatus \in {1, 3, 5, 7, 9, 11}
    BY <2>2, BusyStatus
  <2>4. TriggerReport(r, status) = ExecuteTask(k, status)
    BY <1>2 DEF TriggerReport, Taken
  <2> HIDE DEF k
  <2>5. CASE status = ERROR
    <3> DEFINE e == [k EXCEPT !.mIsError = TRUE, !.mStatus = @ - 1]
    <3>1. k.mStatus - 1 \in Status /\ k.mStatus - 1 \in -1..DESTROYED
          /\ k.mStatus - 1 \in {0, 2, 4, 6, 8, 10}
      BY <2>1, <2>3 DEF Status
    <3>2. e \in RecordType /\ e.mStatus = k.mStatus - 1 /\ e.tasks = 0 /\ e.mIsError
      BY <2>1, <3>1 DEF Typed, RecordType
    <3> HIDE DEF e
    <3>3. ~Busy(e.mStatus) /\ e.mStatus # DESTROYED
      BY <3>1, <3>2, BusyStatus
    <3>4. Typed(e) /\ Watched(e) /\ Closed(e)
      BY <3>1, <3>2, <3>3 DEF Typed, Watched, Closed
    <3>5. Good(DeleteActivity(e))
      BY <3>2, <3>4, DeleteKeeps DEF Good
    <3>6. ExecuteTask(k, status) = DeleteActivity(e)
      BY <2>5 DEF ExecuteTask, e
    <3>7. QED
      BY <2>2, <2>4, <3>5, <3>6
  <2>6. CASE status \in Reports
    <3> DEFINE e == [k EXCEPT !.mStatus = status]
    <3>1. status \in Status /\ status \in -1..DESTROYED /\ status # ERROR /\ ~Busy(status)
      BY <2>6, ReportsRest DEF Status, Reports
    <3>2. /\ e \in RecordType /\ e.mStatus = status /\ e.tasks = 0
          /\ e.mTargetStatus = k.mTargetStatus
      BY <2>1, <3>1 DEF Typed, RecordType
    <3> HIDE DEF e
    <3>3. Typed(e) /\ Watched(e) /\ Closed(e)
      BY <3>1, <3>2 DEF Typed, Watched, Closed
    <3>4. e.mTargetStatus \in Targets
      BY <3>2 DEF RecordType
    <3>5. Good(LifecycleTransition(e, e.mTargetStatus))
      BY <3>3, <3>4, TransitionKeeps DEF Good
    <3>6. ExecuteTask(k, status) = LifecycleTransition(e, e.mTargetStatus)
      BY <3>1, <3>2 DEF ExecuteTask, e
    <3>7. QED
      BY <2>2, <2>4, <3>5, <3>6
  <2>7. QED
    BY <2>5, <2>6
<1>3. QED
  BY <1>1, <1>2 DEF Good, Typed, RecordType

LEMMA DestroyedKeeps ==
    ASSUME NEW r, Good(r), NEW alone \in BOOLEAN
    PROVE  Good(Destroyed(r, alone)) /\ Destroyed(r, alone).mStatus = DESTROYED
<1> DEFINE dead == [r EXCEPT !.mStatus = DESTROYED]
           deleted == DeleteActivity(dead)
           gone == IF r.app = "STOPPED" THEN dead ELSE [deleted EXCEPT !.exists = FALSE]
           last == IF alone /\ r.app # "STOPPED" THEN StopApplication(gone) ELSE gone
           n == [last EXCEPT !.mapped = FALSE]
<1>1. DESTROYED \in Status /\ DESTROYED \in -1..DESTROYED
  BY DEF Status
<1>2. dead \in RecordType /\ dead.mStatus = DESTROYED /\ dead.tasks = r.tasks
  BY <1>1 DEF Good, Typed, RecordType
<1>3. Typed(dead) /\ r.tasks <= 1
  BY <1>1, <1>2 DEF Typed, Good, Watched
<1>4. Watched(dead)
  BY <1>2, <1>3, DestroyedSettled
<1> HIDE DEF dead
<1>5. Typed(deleted) /\ Watched(deleted) /\ deleted.mStatus = DESTROYED
  BY <1>2, <1>3, <1>4, DeleteKeeps
<1> HIDE DEF deleted
<1>6. Typed(gone) /\ gone.mStatus = DESTROYED /\ gone.tasks <= 1
  BY <1>2, <1>3, <1>5 DEF Typed, Watched, RecordType
<1> HIDE DEF gone
<1>7. Typed(last) /\ last.mStatus = DESTROYED /\ last.tasks <= 1
  BY <1>6, StopKeeps
<1> HIDE DEF last
<1>8. Typed(n) /\ n.mStatus = DESTROYED /\ n.tasks <= 1 /\ ~n.mapped
  BY <1>7 DEF Typed, RecordType
<1>9. Good(n)
  BY <1>8, DestroyedSettled DEF Good, Closed
<1>10. Destroyed(r, alone) = n
  BY DEF Destroyed, n, last, gone, deleted, dead
<1>11. QED
  BY <1>8, <1>9, <1>10

LEMMA ReportKeeps ==
    ASSUME NEW r, Good(r), NEW status \in Reports \cup {ERROR}, NEW alone \in BOOLEAN
    PROVE  LET n == ReportActivityStatus(r, status, alone)
           IN Good(n) /\ (r.mStatus = DESTROYED => n.mStatus = DESTROYED)
<1> DEFINE n == ReportActivityStatus(r, status, alone)
           t == TriggerReport(r, status)
<1>1. CASE ~r.mapped
  BY <1>1 DEF ReportActivityStatus
<1>2. CASE r.mapped
  <2>1. Good(t) /\ (r.mStatus = DESTROYED => t.mStatus = DESTROYED)
    BY <1>2, TriggerKeeps
  <2>2. n = IF status = DESTROYED THEN Destroyed(t, alone) ELSE t
    BY <1>2 DEF ReportActivityStatus
  <2> HIDE DEF t, n
  <2>3. Good(n) /\ (r.mStatus = DESTROYED => n.mStatus = DESTROYED)
    BY <2>1, <2>2, DestroyedKeeps
  <2>4. QED
    BY <2>3 DEF n
<1>3. QED
  BY <1>1, <1>2

LEMMA TerminatedKeeps ==
    ASSUME NEW r, Good(r)
    PROVE  LET n == ProcAppTerminated(r)
           IN Good(n) /\ (r.mStatus = DESTROYED => n.mStatus = DESTROYED)
<1> DEFINE stopped == [r EXCEPT !.app = "STOPPED", !.sent = <<>>]
           a == AbnormalExit(stopped)
           d == DeleteActivity(a)
           n == [d EXCEPT !.exists = FALSE, !.mapped = FALSE]
<1>1. <<>> \in Seq(Commands)
  OBVIOUS
<1>2. /\ Typed(stopped) /\ stopped.mStatus = r.mStatus /\ stopped.tasks = r.tasks
      /\ stopped.mTargetStatus = r.mTargetStatus /\ stopped.mIsError = r.mIsError
      /\ stopped.mapped = r.mapped
  BY <1>1 DEF Good, Typed, RecordType
<1> HIDE DEF stopped
<1>3. Good(stopped)
  BY <1>2 DEF Good, Watched, Closed, Settled
<1>4. Typed(a) /\ Watched(a) /\ a.mStatus = DESTROYED
  BY <1>3, AbnormalExitKeeps DEF Good, Watched
<1> HIDE DEF a
<1>5. Typed(d) /\ Watched(d) /\ d.mStatus = DESTROYED
  BY <1>4, DeleteKeeps
<1> HIDE DEF d
<1>6. Typed(n) /\ n.mStatus = DESTROYED /\ n.tasks <= 1 /\ ~n.mapped
  BY <1>5 DEF Typed, RecordType, Watched
<1>7. Good(n)
  BY <1>6, DestroyedSettled DEF Good, Closed
<1>8. ProcAppTerminated(r) = IF r.exists THEN n ELSE stopped
  BY DEF ProcAppTerminated, n, d, a, stopped
<1>9. QED
  BY <1>2, <1>3, <1>6, <1>7, <1>8

-----------------------------------------------------------------------------
(* The steps of the specification.                                          *)
RecordInv ==
    /\ Good(record)
    /\ client \in ClientType
    /\ requests \in 0..MaxRequests

\* What every step does to the record.
StaysGood == Good(record') /\ (record.mStatus = DESTROYED => record'.mStatus = DESTROYED)

LEMMA NewRecordGood == Good(NewRecord)
<1>1. NewRecord.mStatus = 0 /\ NewRecord.tasks = 0 /\ NewRecord.mTargetStatus = 0
  BY DEF NewRecord
<1>2. <<>> \in Seq(Commands)
  OBVIOUS
<1>3. NewRecord \in RecordType
  BY <1>2 DEF NewRecord, RecordType, Targets
<1>4. ~Busy(0) /\ 0 \in Status
  BY DEF Busy, Status
<1>5. TurnTo(0, 0) = "NONE"
  <2>1. ((0 + 1) \div 2) + 1 = 1
    OBVIOUS
  <2>2. QED
    BY <2>1 DEF TurnTo, lifeCycleTable
<1>6. QED
  BY <1>1, <1>3, <1>4, <1>5 DEF Good, Typed, Watched, Closed, Settled

LEMMA InitGood == Init => RecordInv
<1> SUFFICES ASSUME Init PROVE RecordInv
  OBVIOUS
<1>1. client \in ClientType
  BY DEF Init, ClientType
<1>2. requests \in 0..MaxRequests
  BY RequestsAssumption DEF Init
<1>3. QED
  BY <1>1, <1>2, NewRecordGood DEF Init, RecordInv

\* A transition and the end on a stack, as the task managers ask for them.
LEMMA RequestKeeps ==
    ASSUME NEW r, Good(r), NEW t \in Targets, NEW b \in BOOLEAN
    PROVE  LET n == LifecycleTransition(r, t)
               o == [n EXCEPT !.onStack = b]
           IN /\ Good(n) /\ (r.mStatus = DESTROYED <=> n.mStatus = DESTROYED)
              /\ Good(o) /\ (r.mStatus = DESTROYED <=> o.mStatus = DESTROYED)
<1> DEFINE n == LifecycleTransition(r, t)
           o == [n EXCEPT !.onStack = b]
<1>1. Good(n) /\ (r.mStatus = DESTROYED <=> n.mStatus = DESTROYED)
  BY TransitionKeeps DEF Good
<1> HIDE DEF n
<1>2. /\ Typed(o) /\ o.mStatus = n.mStatus /\ o.tasks = n.tasks /\ o.mIsError = n.mIsError
      /\ o.mTargetStatus = n.mTargetStatus /\ o.mapped = n.mapped
  BY <1>1 DEF Good, Typed, RecordType
<1> HIDE DEF o
<1>3. Good(o)
  BY <1>1, <1>2 DEF Good, Watched, Closed, Settled
<1>4. QED
  BY <1>1, <1>2, <1>3 DEF n, o

LEMMA PushStays == RecordInv /\ PushNewActivity => StaysGood
<1> SUFFICES ASSUME RecordInv, PushNewActivity PROVE StaysGood
  OBVIOUS
<1> DEFINE o == [LifecycleTransition(record, RESUMED) EXCEPT !.onStack = TRUE]
<1>1. RESUMED \in Targets /\ TRUE \in BOOLEAN /\ Good(record)
  BY DEF Targets, RecordInv
<1>2. Good(o)
  BY <1>1, RequestKeeps
<1>3. record' = [o EXCEPT !.mapped = TRUE]
  BY DEF PushNewActivity
<1>4. record.mStatus # DESTROYED
  BY DEF PushNewActivity, NewRecord
<1>5. o.mStatus # DESTROYED
  BY <1>1, <1>4, RequestKeeps
<1> HIDE DEF o
<1>6. /\ Typed(record') /\ record'.mStatus = o.mStatus /\ record'.tasks = o.tasks
      /\ record'.mIsError = o.mIsError /\ record'.mTargetStatus = o.mTargetStatus
  BY <1>2, <1>3 DEF Good, Typed, RecordType
<1>7. Good(record')
  BY <1>2, <1>5, <1>6 DEF Good, Watched, Closed, Settled
<1>8. QED
  BY <1>4, <1>7 DEF StaysGood

LEMMA TurnToActivityStays ==
    ASSUME ~TurnWhileBusy
    PROVE  RecordInv /\ TurnToActivity => StaysGood
<1> SUFFICES ASSUME RecordInv, TurnToActivity PROVE StaysGood
  OBVIOUS
<1> DEFINE p == [record EXCEPT !.mStatus = PAUSED]
           n == LifecycleTransition(p, RESUMED)
<1>1. Typed(record) /\ record.mStatus \in {6, 8} /\ record.tasks = 0
  BY DEF RecordInv, Good, Watched, Typed, TurnToActivity, Busy
<1>2. PAUSED \in Status /\ PAUSED \in -1..DESTROYED /\ RESUMED \in Targets /\ ~Busy(PAUSED)
  BY DEF Status, Targets, Busy
<1>3. p \in RecordType /\ p.mStatus = PAUSED /\ p.tasks = 0
  BY <1>1, <1>2 DEF Typed, RecordType
<1>4. TurnTo(PAUSED, RESUMED) # "NONE"
  <2>1. ((PAUSED + 1) \div 2) + 1 = 5 /\ ((RESUMED + 1) \div 2) + 1 = 4
    OBVIOUS
  <2>2. QED
    BY <2>1 DEF TurnTo, lifeCycleTable
<1> HIDE DEF p
<1>5. Typed(p) /\ Watched(p) /\ Closed(p)
  BY <1>2, <1>3 DEF Typed, Watched, Closed
<1>6. Typed(n) /\ Watched(n) /\ Closed(n) /\ Settled(n)
  BY <1>2, <1>3, <1>4, <1>5, TransitionKeeps
<1> HIDE DEF n
<1>7. record' = n
  BY DEF TurnToActivity, n, p
<1>8. QED
  BY <1>1, <1>6, <1>7 DEF StaysGood, Good

LEMMA ServerStays ==
    /\ \A to \in Targets \ {INIT} : RecordInv /\ Request(to) => StaysGood
    /\ \A to \in {PAUSED, DESTROYED} : RecordInv /\ Pop(to) => StaysGood
    /\ RecordInv /\ StopApp => StaysGood
    /\ RecordInv /\ LifecycleTimeout => StaysGood
    /\ RecordInv /\ AppTerminated => StaysGood
<1>1. ASSUME NEW to \in Targets, RecordInv, Request(to) PROVE StaysGood
  BY <1>1, RequestKeeps DEF RecordInv, Request, StaysGood
<1>2. ASSUME NEW to \in {PAUSED, DESTROYED}, RecordInv, Pop(to) PROVE StaysGood
  <2>1. to \in Targets /\ FALSE \in BOOLEAN
    BY <1>2 DEF Targets
  <2> DEFINE o == [LifecycleTransition(record, to) EXCEPT !.onStack = FALSE]
  <2>2. record' = o /\ Good(record)
    BY <1>2 DEF Pop, RecordInv
  <2>3. Good(o) /\ (record.mStatus = DESTROYED <=> o.mStatus = DESTROYED)
    BY <2>1, <2>2, RequestKeeps
  <2> HIDE DEF o
  <2>4. QED
    BY <2>2, <2>3 DEF StaysGood
<1>3. ASSUME RecordInv, StopApp PROVE StaysGood
  <2>1. /\ Typed(record') /\ record'.mStatus = record.mStatus /\ record'.tasks = record.tasks
        /\ record'.mTargetStatus = record.mTargetStatus /\ record'.mIsError = record.mIsError
        /\ record'.mapped = record.mapped
    BY <1>3, StopKeeps DEF RecordInv, Good, StopApp
  <2>2. QED
    BY <1>3, <2>1 DEF RecordInv, Good, Watched, Closed, Settled, StaysGood
<1>4. ASSUME RecordInv, LifecycleTimeout PROVE StaysGood
  BY <1>4, TimeoutKeeps DEF RecordInv, LifecycleTimeout, StaysGood, Taken
<1>5. ASSUME RecordInv, AppTerminated PROVE StaysGood
  BY <1>5, TerminatedKeeps DEF RecordInv, AppTerminated, StaysGood
<1>6. QED
  BY <1>1, <1>2, <1>3, <1>4, <1>5

LEMMA DoneReports ==
    ASSUME NEW step \in Steps
    PROVE  Done(step) \in Reports
BY StepStatuses DEF Done, Reports

LEMMA DeliverStays == RecordInv /\ Deliver => StaysGood /\ client' \in ClientType
<1> SUFFICES ASSUME RecordInv, Deliver PROVE StaysGood /\ client' \in ClientType
  OBVIOUS
<1> DEFINE command == Head(record.sent)
<1>1. Good(record) /\ client \in ClientType
  BY DEF RecordInv
<1>2. record.sent # <<>> /\ record.sent \in Seq(Commands)
  BY <1>1 DEF Deliver, Good, Typed, RecordType
<1>3. Tail(record.sent) \in Seq(Commands)
  BY <1>2
<1>4. /\ Typed(Received) /\ Received.mStatus = record.mStatus
      /\ Received.tasks = record.tasks /\ Received.mapped = record.mapped
      /\ Received.mTargetStatus = record.mTargetStatus /\ Received.mIsError = record.mIsError
  BY <1>1, <1>3 DEF Received, Good, Typed, RecordType
<1>5. Good(Received)
  BY <1>1, <1>4 DEF Good, Watched, Closed, Settled
<1>6. FALSE \in BOOLEAN /\ CREATED \in Reports \cup {ERROR} /\ ERROR \in Reports \cup {ERROR}
  BY DEF Reports
<1>7. ASSUME NEW status \in {CREATED, ERROR}, Launch(status)
      PROVE  StaysGood /\ client' \in ClientType
  <2>1. StaysGood
    BY <1>4, <1>5, <1>6, <1>7, ReportKeeps DEF Launch, StaysGood
  <2>2. status \in -1..DESTROYED
    BY <1>7
  <2>3. (client.known \/ status = CREATED) \in BOOLEAN
    BY <1>1 DEF ClientType
  <2>4. client' \in ClientType
    BY <1>1, <1>7, <2>2, <2>3 DEF Launch, ClientType
  <2>5. QED
    BY <2>1, <2>4
<1>8. ASSUME LaunchUnregistered
      PROVE  StaysGood /\ client' \in ClientType
  BY <1>1, <1>4, <1>5, <1>8 DEF LaunchUnregistered, StaysGood
<1>9. ASSUME command \in Steps \ {"CREATE"}, NEW alone \in BOOLEAN, Perform(command, alone)
      PROVE  StaysGood /\ client' \in ClientType
  <2> HIDE DEF command
  <2>1. Done(command) \in Reports /\ Done(command) \in Reports \cup {ERROR}
    BY <1>9, DoneReports
  <2>2. CASE client.known
    <3>1. StaysGood
      BY <1>4, <1>5, <1>9, <2>1, <2>2, ReportKeeps DEF Perform, StaysGood
    <3>2. Done(command) \in -1..DESTROYED
      BY <2>1 DEF Reports
    <3>3. (command # "DESTROY") \in BOOLEAN
      OBVIOUS
    <3>4. client' \in ClientType
      BY <1>1, <1>9, <2>2, <3>2, <3>3 DEF Perform, ClientType
    <3>5. QED
      BY <3>1, <3>4
  <2>3. CASE ~client.known
    BY <1>1, <1>4, <1>5, <1>9, <2>3 DEF Perform, StaysGood
  <2>4. QED
    BY <2>2, <2>3
<1>10. ASSUME client' = [client EXCEPT !.terminating = TRUE], record' = Received
       PROVE  StaysGood /\ client' \in ClientType
  BY <1>1, <1>4, <1>5, <1>10 DEF StaysGood, ClientType
<1>11. QED
  BY <1>7, <1>8, <1>9, <1>10 DEF Deliver

LEMMA TerminateStays == RecordInv /\ TerminateDelayEnds => StaysGood /\ client' \in ClientType
<1> SUFFICES ASSUME RecordInv, TerminateDelayEnds PROVE StaysGood /\ client' \in ClientType
  OBVIOUS
<1> DEFINE visible == client.mStatus \in STARTED..PAUSED
           stopped == IF visible THEN ReportActivityStatus(record, STOPPED, FALSE) ELSE record
<1>1. Good(record) /\ client \in ClientType
  BY DEF RecordInv
<1>2. STOPPED \in Reports \cup {ERROR} /\ DESTROYED \in Reports \cup {ERROR}
      /\ FALSE \in BOOLEAN /\ TRUE \in BOOLEAN
  BY DEF Reports
<1>3. Good(stopped) /\ (record.mStatus = DESTROYED => stopped.mStatus = DESTROYED)
  BY <1>1, <1>2, ReportKeeps
<1>4. CASE client.known /\ client.mStatus < DESTROYING
  <2>1. record' = ReportActivityStatus(stopped, DESTROYED, TRUE)
    BY <1>4 DEF TerminateDelayEnds, ClearActivity
  <2> HIDE DEF stopped
  <2>2. StaysGood
    BY <1>2, <1>3, <2>1, ReportKeeps DEF StaysGood
  <2>3. DESTROYED \in -1..DESTROYED
    OBVIOUS
  <2>4. client' = [client EXCEPT !.known = FALSE, !.mStatus = DESTROYED, !.alive = FALSE]
    BY <1>4 DEF TerminateDelayEnds, ClearActivity
  <2>5. client' \in ClientType
    BY <1>1, <2>3, <2>4 DEF ClientType
  <2>6. QED
    BY <2>2, <2>5
<1>5. CASE ~(client.known /\ client.mStatus < DESTROYING)
  <2>1. record' = record /\ client' = [client EXCEPT !.alive = FALSE]
    BY <1>5 DEF TerminateDelayEnds, ClearActivity
  <2>2. QED
    BY <1>1, <2>1 DEF StaysGood, ClientType
<1>6. QED
  BY <1>4, <1>5

LEMMA NextStays ==
    ASSUME ~TurnWhileBusy
    PROVE  RecordInv /\ [Next]_vars => RecordInv' /\ StaysGood
<1> SUFFICES ASSUME RecordInv, [Next]_vars PROVE RecordInv' /\ StaysGood
  OBVIOUS
<1>1. Good(record) /\ client \in ClientType /\ requests \in 0..MaxRequests
  BY DEF RecordInv
<1>2. StaysGood /\ client' \in ClientType
  <2>1. CASE PushNewActivity
    BY <1>1, <2>1, PushStays DEF PushNewActivity
  <2>2. CASE \E to \in Targets \ {INIT} : Request(to)
    BY <1>1, <2>2, ServerStays DEF Request
  <2>3. CASE \E to \in {PAUSED, DESTROYED} : Pop(to)
    BY <1>1, <2>3, ServerStays DEF Pop
  <2>4. CASE TurnToActivity
    BY <1>1, <2>4, TurnToActivityStays DEF TurnToActivity
  <2>5. CASE StopApp
    BY <1>1, <2>5, ServerStays DEF StopApp
  <2>6. CASE LifecycleTimeout
    BY <1>1, <2>6, ServerStays DEF LifecycleTimeout
  <2>7. CASE Deliver
    BY <2>7, DeliverStays
  <2>8. CASE TerminateDelayEnds
    BY <2>8, TerminateStays
  <2>9. CASE Crash
    BY <1>1, <2>9 DEF Crash, StaysGood, ClientType
  <2>10. CASE AppTerminated
    BY <1>1, <2>10, ServerStays DEF AppTerminated
  <2>11. CASE UNCHANGED vars
    BY <1>1, <2>11 DEF vars, StaysGood
  <2>12. QED
    BY <2>1, <2>2, <2>3, <2>4, <2>5, <2>6, <2>7, <2>8, <2>9, <2>10, <2>11 DEF Next
<1>3. requests' \in 0..MaxRequests
  <2>1. Counted \/ requests' = requests
    BY DEF Next, vars, PushNewActivity, Request, Pop, TurnToActivity, StopApp,
           LifecycleTimeout, Deliver, TerminateDelayEnds, Crash, AppTerminated
  <2>2. QED
    BY <1>1, <2>1, RequestsAssumption DEF Counted
<1>4. QED
  BY <1>2, <1>3 DEF RecordInv, StaysGood
-----------------------------------------------------------------------------
(* The invariant of the record holds in every behaviour in which            *)
(* turnToActivity() only meets an activity at rest.                         *)
THEOREM RecordInvariant == ~TurnWhileBusy => (Spec => []RecordInv)
<1> SUFFICES ASSUME ~TurnWhileBusy PROVE Spec => []RecordInv
  OBVIOUS
<1>1. RecordInv /\ [Next]_vars => RecordInv'
  BY NextStays
<1>2. QED
  BY InitGood, <1>1, PTL DEF Spec

(* Every variable of the record and of its client keeps its type.           *)
THEOREM RecordTypeCorrect == ~TurnWhileBusy => (Spec => []TypeOK)
<1> SUFFICES ASSUME ~TurnWhileBusy PROVE Spec => []TypeOK
  OBVIOUS
<1>1. RecordInv => TypeOK
  BY DEF RecordInv, Good, Typed, TypeOK
<1>2. Spec => []RecordInv
  BY RecordInvariant
<1>3. QED
  BY <1>1, <1>2, PTL

(* lifecycleTransition() arms exactly one ActivityLifeCycleTask while a     *)
(* report is awaited, and none is left behind while the activity rests.     *)
THEOREM OneTaskWaits == ~TurnWhileBusy => (Spec => []OneWatchdog)
<1> SUFFICES ASSUME ~TurnWhileBusy PROVE Spec => []OneWatchdog
  OBVIOUS
<1>1. RecordInv => OneWatchdog
  BY DEF RecordInv, Good, Watched, OneWatchdog
<1>2. Spec => []RecordInv
  BY RecordInvariant
<1>3. QED
  BY <1>1, <1>2, PTL

(* No request of a task manager is forgotten: an activity rests only where  *)
(* lifecycleTransition() has nothing left to do.                            *)
THEOREM NoRequestForgotten == ~TurnWhileBusy => (Spec => []RestMeansDone)
<1> SUFFICES ASSUME ~TurnWhileBusy PROVE Spec => []RestMeansDone
  OBVIOUS
<1>1. RecordInv => RestMeansDone
  BY DEF RecordInv, Good, Settled, RestMeansDone
<1>2. Spec => []RecordInv
  BY RecordInvariant
<1>3. QED
  BY <1>1, <1>2, PTL

(* No late report, request, timeout or death of the process moves an        *)
(* activity out of DESTROYED.                                               *)
THEOREM DestroyedStays == ~TurnWhileBusy => (Spec => DestroyedIsFinal)
<1> SUFFICES ASSUME ~TurnWhileBusy PROVE Spec => DestroyedIsFinal
  OBVIOUS
<1>1. RecordInv /\ [Next]_vars => [record.mStatus = DESTROYED => record'.mStatus = DESTROYED]_vars
  BY NextStays DEF StaysGood
<1>2. Spec => []RecordInv
  BY RecordInvariant
<1>3. QED
  BY <1>1, <1>2, PTL DEF Spec, DestroyedIsFinal

-----------------------------------------------------------------------------
(* What the two sides know of each other while the process lives: at most  *)
(* one step is on its way, the client is in a status from which it may     *)
(* take it, and the server waits for it unless it has given the activity   *)
(* up; where nothing is on its way both are in the same status.            *)
Ready(step, c) ==
    IF step = "CREATE" THEN ~c.known /\ c.mStatus \in {INIT, ERROR}
    ELSE c.known /\ (c.mStatus = Done(step) \/ <<c.mStatus, Done(step)>> \in Callbacks!Follows)

Agrees(status, c) ==
    IF status = INIT THEN ~c.known /\ c.mStatus \in {INIT, ERROR}
    ELSE c.known /\ c.mStatus = status

Knows(c) == IF c.known THEN c.mStatus \in Reports \ {DESTROYED}
            ELSE c.mStatus \in {ERROR, INIT, DESTROYED}

Quiet(r) == \A i \in DOMAIN r.sent : r.sent[i] \notin Steps

Sync(r, c) ==
    /\ r.app # "STOPPED"
    /\ Knows(c)
    /\ Busy(r.mStatus) \/ r.onStack => r.mapped \/ r.mStatus = DESTROYED
    /\ \A i, j \in DOMAIN r.sent : r.sent[i] \in Steps /\ r.sent[j] \in Steps => i = j
    /\ \A i \in DOMAIN r.sent : r.sent[i] \in Steps =>
          Ready(r.sent[i], c) /\ r.mStatus \in {Doing(r.sent[i]), DESTROYED}
    /\ ~Busy(r.mStatus) /\ r.mStatus # DESTROYED => Agrees(r.mStatus, c)

InSync == client.alive => Sync(record, client)

LEMMA FollowsNumbers ==
    Callbacks!Follows =
      {<<0, 2>>, <<2, 4>>, <<2, 10>>, <<2, 12>>, <<4, 6>>, <<4, 8>>, <<4, 10>>, <<6, 8>>,
       <<8, 6>>, <<8, 10>>, <<10, 4>>, <<10, 12>>}
BY DEF Callbacks!Follows, Callbacks!INIT, Callbacks!CREATED, Callbacks!STARTED,
       Callbacks!RESUMED, Callbacks!PAUSED, Callbacks!STOPPED, Callbacks!DESTROYED

LEMMA DoneNumbers ==
    /\ Doing("CREATE") = 1 /\ Doing("START") = 3 /\ Doing("RESUME") = 5
    /\ Doing("PAUSE") = 7 /\ Doing("STOP") = 9 /\ Doing("DESTROY") = 11
    /\ Done("CREATE") = 2 /\ Done("START") = 4 /\ Done("RESUME") = 6
    /\ Done("PAUSE") = 8 /\ Done("STOP") = 10 /\ Done("DESTROY") = 12
BY DEF Doing, Done

\* A record that has not been created is created, and not for its end.
LEMMA CreatedFirst ==
    ASSUME NEW t \in Targets
    PROVE  TurnTo(INIT, t) \in {"NONE", "CREATE"} /\ TurnTo(INIT, DESTROYED) = "NONE"
<1> DEFINE c == ((t + 1) \div 2) + 1
<1>1. c \in {1, 2, 3, 4, 5, 6, 7}
  BY Column DEF Targets, Status
<1>2. TurnTo(INIT, t) = lifeCycleTable[1][c]
  BY DEF TurnTo
<1> HIDE DEF c
<1>3. TurnTo(INIT, t) \in {"NONE", "CREATE"}
  BY <1>1, <1>2 DEF lifeCycleTable
<1>4. TurnTo(INIT, DESTROYED) = lifeCycleTable[1][7]
  <2>1. ((0 + 1) \div 2) + 1 = 1 /\ ((12 + 1) \div 2) + 1 = 7
    OBVIOUS
  <2>2. QED
    BY <2>1 DEF TurnTo
<1>5. QED
  BY <1>3, <1>4 DEF lifeCycleTable

\* Between the statuses the task managers ask for, the table only asks for
\* callbacks in an order the activity may rely on.
LEMMA TableFollows ==
    ASSUME NEW s \in {2, 4, 6, 8, 10}, NEW t \in Targets, TurnTo(s, t) # "NONE"
    PROVE  /\ TurnTo(s, t) \in Steps \ {"CREATE"}
           /\ <<s, Done(TurnTo(s, t))>> \in Callbacks!Follows
<1> DEFINE c == ((t + 1) \div 2) + 1
<1>1. c \in {1, 4, 5, 6, 7}
  BY DEF Targets
<1>2. CASE s = 2
  <2>1. TurnTo(s, t) = lifeCycleTable[2][c]
    BY <1>2 DEF TurnTo
  <2>2. TurnTo(s, t) \in {"START", "STOP", "DESTROY"}
    BY <1>1, <2>1 DEF lifeCycleTable
  <2>3. QED
    BY <1>2, <2>2, DoneNumbers, FollowsNumbers DEF Steps
<1>3. CASE s = 4
  <2>1. TurnTo(s, t) = lifeCycleTable[3][c]
    BY <1>3 DEF TurnTo
  <2>2. TurnTo(s, t) \in {"RESUME", "PAUSE", "STOP"}
    BY <1>1, <2>1 DEF lifeCycleTable
  <2>3. QED
    BY <1>3, <2>2, DoneNumbers, FollowsNumbers DEF Steps
<1>4. CASE s = 6
  <2>1. TurnTo(s, t) = lifeCycleTable[4][c]
    BY <1>4 DEF TurnTo
  <2>2. TurnTo(s, t) \in {"PAUSE"}
    BY <1>1, <2>1 DEF lifeCycleTable
  <2>3. QED
    BY <1>4, <2>2, DoneNumbers, FollowsNumbers DEF Steps
<1>5. CASE s = 8
  <2>1. TurnTo(s, t) = lifeCycleTable[5][c]
    BY <1>5 DEF TurnTo
  <2>2. TurnTo(s, t) \in {"RESUME", "STOP"}
    BY <1>1, <2>1 DEF lifeCycleTable
  <2>3. QED
    BY <1>5, <2>2, DoneNumbers, FollowsNumbers DEF Steps
<1>6. CASE s = 10
  <2>1. TurnTo(s, t) = lifeCycleTable[6][c]
    BY <1>6 DEF TurnTo
  <2>2. TurnTo(s, t) \in {"START", "DESTROY"}
    BY <1>1, <2>1 DEF lifeCycleTable
  <2>3. QED
    BY <1>6, <2>2, DoneNumbers, FollowsNumbers DEF Steps
<1>7. QED
  BY <1>2, <1>3, <1>4, <1>5, <1>6

\* What lifecycleTransition() sends to a process that has not ended.
LEMMA Sends ==
    ASSUME NEW r, Typed(r), r.app # "STOPPED", NEW t \in Targets,
           ~Busy(r.mStatus), TurnTo(r.mStatus, t) # "NONE"
    PROVE  LET n == LifecycleTransition(r, t)
               step == TurnTo(r.mStatus, t)
           IN /\ step \in Steps /\ n.mStatus = Doing(step) /\ n.sent = Append(r.sent, step)
              /\ n.mapped = r.mapped /\ n.app = r.app
<1> DEFINE step == TurnTo(r.mStatus, t)
           s == Schedule(r, step)
<1>1. step \in Steps /\ Allows(step, r.mStatus)
  BY TableMatchesGuards DEF Typed, Targets, Status
<1>2. LifecycleTransition(r, t) = [s EXCEPT !.mTargetStatus = t, !.tasks = @ + 1]
  BY DEF LifecycleTransition
<1> HIDE DEF step
<1>3. s = [r EXCEPT !.mStatus = Doing(step), !.sent = Append(r.sent, step),
                    !.exists = r.exists \/ step = "CREATE"]
  BY <1>1 DEF Schedule
<1>4. /\ s.mStatus = Doing(step) /\ s.sent = Append(r.sent, step)
      /\ s.mapped = r.mapped /\ s.app = r.app
      /\ DOMAIN s = DOMAIN r
  BY <1>3 DEF Typed, RecordType
<1> HIDE DEF s
<1>5. QED
  BY <1>1, <1>2, <1>4 DEF step

\* A step is sent where none is on its way.
LEMMA OneOnItsWay ==
    ASSUME NEW r, r.sent \in Seq(Commands), Quiet(r), NEW c, Knows(c),
           NEW step \in Steps, Ready(step, c),
           NEW n, n.sent = Append(r.sent, step), n.mStatus = Doing(step), n.mapped,
           n.app # "STOPPED"
    PROVE  Sync(n, c)
<1> DEFINE last == Len(r.sent) + 1
<1>1. /\ DOMAIN n.sent = DOMAIN r.sent \cup {last} /\ n.sent[last] = step
      /\ \A i \in DOMAIN r.sent : n.sent[i] = r.sent[i]
  <2>1. step \in Commands
    BY DEF Commands
  <2>2. QED
    BY <2>1
<1> HIDE DEF last
<1>2. \A i \in DOMAIN n.sent : n.sent[i] \in Steps => i = last
  BY <1>1 DEF Quiet
<1>3. Busy(n.mStatus)
  <2>1. n.mStatus \in {1, 3, 5, 7, 9, 11}
    BY StepStatuses
  <2>2. QED
    BY <2>1, BusyStatus DEF Status
<1>4. QED
  BY <1>1, <1>2, <1>3 DEF Sync

\* Only a step the server waits for, or has given up, is on its way.
LEMMA RestIsQuiet ==
    ASSUME NEW r, Typed(r), NEW c, Sync(r, c), ~Busy(r.mStatus), r.mStatus # DESTROYED
    PROVE  Quiet(r)
<1>1. ASSUME NEW i \in DOMAIN r.sent, r.sent[i] \in Steps PROVE FALSE
  <2>1. r.mStatus = Doing(r.sent[i])
    BY <1>1 DEF Sync
  <2>2. r.mStatus \in {1, 3, 5, 7, 9, 11}
    BY <1>1, <2>1, StepStatuses
  <2>3. QED
    BY <2>2, BusyStatus DEF Typed
<1>2. QED
  BY <1>1 DEF Quiet

\* Sync() of a record depends on five of its fields.
LEMMA SyncSame ==
    ASSUME NEW r, NEW n, NEW c, Sync(r, c), n.sent = r.sent, n.app # "STOPPED",
           \/ n.mStatus = r.mStatus /\ n.mapped = r.mapped /\ (n.onStack => r.onStack)
           \/ n.mStatus = DESTROYED
    PROVE  Sync(n, c)
<1>1. ~Busy(DESTROYED)
  BY DEF Busy
<1>2. QED
  BY <1>1 DEF Sync

LEMMA TransitionSyncs ==
    ASSUME NEW r, Typed(r), NEW c, Sync(r, c), NEW t \in Targets,
           r.mapped \/ r.mStatus = DESTROYED
    PROVE  Sync(LifecycleTransition(r, t), c)
<1> DEFINE n == LifecycleTransition(r, t)
<1>1. r.app # "STOPPED" /\ r.mStatus \in Status /\ r.sent \in Seq(Commands)
  BY DEF Sync, Typed, RecordType
<1>2. CASE Busy(r.mStatus)
  <2>1. n = [r EXCEPT !.mTargetStatus = t]
    BY <1>2 DEF LifecycleTransition
  <2>2. /\ n.sent = r.sent /\ n.mStatus = r.mStatus /\ n.mapped = r.mapped /\ n.app = r.app
        /\ n.onStack = r.onStack
    BY <2>1 DEF Typed, RecordType
  <2> HIDE DEF n
  <2>3. Sync(n, c)
    BY <1>1, <2>2, SyncSame
  <2>4. QED
    BY <2>3 DEF n
<1>3. CASE ~Busy(r.mStatus) /\ TurnTo(r.mStatus, t) = "NONE"
  BY <1>3 DEF LifecycleTransition
<1>4. CASE ~Busy(r.mStatus) /\ TurnTo(r.mStatus, t) # "NONE"
  <2> DEFINE step == TurnTo(r.mStatus, t)
  <2>1. /\ step \in Steps /\ n.mStatus = Doing(step) /\ n.sent = Append(r.sent, step)
        /\ n.mapped = r.mapped /\ n.app = r.app
    BY <1>1, <1>4, Sends
  <2>2. r.mStatus # DESTROYED
    BY <1>1, <1>4, TableMatchesGuards DEF Targets, Status
  <2>3. Quiet(r) /\ Agrees(r.mStatus, c) /\ Knows(c) /\ r.mapped
    BY <1>4, <2>2, RestIsQuiet DEF Sync
  <2>4. Ready(step, c)
    <3>1. CASE r.mStatus = INIT
      <4>1. step = "CREATE"
        BY <1>4, <3>1, CreatedFirst
      <4>2. QED
        BY <2>3, <3>1, <4>1 DEF Agrees, Ready
    <3>2. CASE r.mStatus # INIT
      <4>1. r.mStatus \in {2, 4, 6, 8, 10}
        BY <1>1, <1>4, <2>2, <3>2, RestingStatus
      <4>2. step # "CREATE" /\ <<r.mStatus, Done(step)>> \in Callbacks!Follows
        BY <1>4, <4>1, TableFollows
      <4> HIDE DEF step
      <4>3. QED
        BY <2>3, <3>2, <4>2 DEF Agrees, Ready
    <3>3. QED
      BY <3>1, <3>2
  <2> HIDE DEF n, step
  <2>5. Sync(n, c)
    BY <1>1, <2>1, <2>3, <2>4, OneOnItsWay
  <2>6. QED
    BY <2>5 DEF n
<1>5. QED
  BY <1>2, <1>3, <1>4

LEMMA DeleteSyncs ==
    ASSUME NEW r, Typed(r), NEW c, Sync(r, c), r.mapped \/ r.mStatus = DESTROYED
    PROVE  Sync(DeleteActivity(r), c)
<1> DEFINE l == LifecycleTransition(r, DESTROYED)
           n == [l EXCEPT !.onStack = FALSE]
<1>1. DESTROYED \in Targets
  BY DEF Targets
<1>2. Typed(l) /\ Sync(l, c)
  BY <1>1, TransitionSyncs, TransitionKeeps
<1> HIDE DEF l
<1>3. /\ n.sent = l.sent /\ n.mStatus = l.mStatus /\ n.mapped = l.mapped /\ n.app = l.app
      /\ ~n.onStack
  BY <1>2 DEF Typed, RecordType
<1> HIDE DEF n
<1>4. n.app # "STOPPED"
  BY <1>2, <1>3 DEF Sync
<1>5. Sync(n, c)
  BY <1>2, <1>3, <1>4, SyncSame
<1>6. QED
  BY <1>5 DEF DeleteActivity, n, l

\* TERMINATE is no step of the activity.
LEMMA StopSyncs ==
    ASSUME NEW r, Typed(r), NEW c, Sync(r, c)
    PROVE  Sync(StopApplication(r), c)
<1> DEFINE n == [r EXCEPT !.app = "STOPPING", !.sent = Append(@, "TERMINATE")]
           last == Len(r.sent) + 1
<1>1. "TERMINATE" \in Commands /\ "TERMINATE" \notin Steps /\ r.sent \in Seq(Commands)
  BY DEF Commands, Steps, Typed, RecordType
<1>2. /\ n.sent = Append(r.sent, "TERMINATE") /\ n.mStatus = r.mStatus /\ n.mapped = r.mapped
      /\ n.app # "STOPPED" /\ n.onStack = r.onStack
  BY DEF Typed, RecordType
<1> HIDE DEF n
<1>3. /\ DOMAIN n.sent = DOMAIN r.sent \cup {last} /\ n.sent[last] = "TERMINATE"
      /\ \A i \in DOMAIN r.sent : n.sent[i] = r.sent[i]
  BY <1>1, <1>2
<1> HIDE DEF last
<1>4. \A i \in DOMAIN n.sent : n.sent[i] \in Steps => i \in DOMAIN r.sent /\ n.sent[i] = r.sent[i]
  BY <1>1, <1>3
<1>5. Sync(n, c)
  BY <1>2, <1>4 DEF Sync
<1>6. QED
  BY <1>5 DEF StopApplication, n

LEMMA AbnormalSyncs ==
    ASSUME NEW r, Typed(r), NEW c, Sync(r, c)
    PROVE  Sync(AbnormalExit(r), c)
<1> DEFINE d == [r EXCEPT !.mStatus = DESTROYED, !.exists = FALSE]
<1>1. r.app # "STOPPED"
  BY DEF Sync
<1>2. d.sent = r.sent /\ d.mStatus = DESTROYED /\ d.app = r.app
  BY DEF Typed, RecordType
<1>3. d \in RecordType /\ DESTROYED \in Status
  <2>1. DESTROYED \in -1..DESTROYED
    OBVIOUS
  <2>2. d \in RecordType
    BY <2>1 DEF Typed, RecordType
  <2>3. DESTROYED \in Status
    BY DEF Status
  <2>4. QED
    BY <2>2, <2>3
<1> HIDE DEF d
<1>4. Sync(d, c) /\ Typed(d)
  BY <1>1, <1>2, <1>3, SyncSame DEF Typed
<1>5. AbnormalExit(r) = StopApplication(d)
  BY <1>1 DEF AbnormalExit, d
<1>6. QED
  BY <1>4, <1>5, StopSyncs

LEMMA TimeoutSyncs ==
    ASSUME NEW r, Good(r), r.tasks > 0, NEW c, Sync(r, c)
    PROVE  Sync(TimeoutTask(Taken(r)), c)
<1> DEFINE k == Taken(r)
           a == AbnormalExit(k)
<1>1. /\ k.sent = r.sent /\ k.mStatus = r.mStatus /\ k.mapped = r.mapped /\ k.app = r.app
      /\ k.onStack = r.onStack
  BY DEF Taken, Good, Typed, RecordType
<1>2. Typed(k) /\ k.tasks = 0
  BY TakenTyped
<1> HIDE DEF k
<1>3. Sync(k, c)
  BY <1>1, SyncSame DEF Sync
<1>4. Sync(a, c) /\ Typed(a) /\ a.mStatus = DESTROYED
  BY <1>2, <1>3, AbnormalSyncs, AbnormalExitKeeps
<1> HIDE DEF a
<1>5. Sync(DeleteActivity(a), c)
  BY <1>4, DeleteSyncs
<1>6. QED
  BY <1>3, <1>5 DEF TimeoutTask, a, k

LEMMA DestroyedSyncs ==
    ASSUME NEW r, Typed(r), NEW c, Sync(r, c), NEW alone \in BOOLEAN
    PROVE  Sync(Destroyed(r, alone), c)
<1> DEFINE dead == [r EXCEPT !.mStatus = DESTROYED]
           deleted == DeleteActivity(dead)
           gone == [deleted EXCEPT !.exists = FALSE]
           last == IF alone THEN StopApplication(gone) ELSE gone
           n == [last EXCEPT !.mapped = FALSE]
<1>1. r.app # "STOPPED" /\ DESTROYED \in -1..DESTROYED /\ DESTROYED \in Status
  BY DEF Sync, Status
<1>2. dead \in RecordType /\ dead.mStatus = DESTROYED /\ dead.sent = r.sent /\ dead.app = r.app
  BY <1>1 DEF Typed, RecordType
<1> HIDE DEF dead
<1>3. Typed(dead) /\ Sync(dead, c)
  BY <1>1, <1>2, SyncSame DEF Typed
<1>4. /\ Typed(deleted) /\ Sync(deleted, c) /\ deleted.mStatus = DESTROYED
      /\ deleted.app = r.app
  BY <1>2, <1>3, DeleteSyncs, DeleteKeeps
<1> HIDE DEF deleted
<1>5. /\ gone \in RecordType /\ gone.mStatus = DESTROYED
      /\ gone.sent = deleted.sent /\ gone.app = r.app
  BY <1>4 DEF Typed, RecordType
<1> HIDE DEF gone
<1>6. Typed(gone) /\ Sync(gone, c)
  BY <1>1, <1>4, <1>5, SyncSame DEF Typed
<1>7. Typed(last) /\ Sync(last, c) /\ last.mStatus = DESTROYED
  BY <1>5, <1>6, StopKeeps, StopSyncs
<1> HIDE DEF last
<1>8. n.sent = last.sent /\ n.app = last.app /\ n.mStatus = DESTROYED
  BY <1>7 DEF Typed, RecordType
<1> HIDE DEF n
<1>9. Sync(n, c)
  <2>1. n.app # "STOPPED"
    BY <1>7, <1>8 DEF Sync
  <2>2. QED
    BY <1>7, <1>8, <2>1, SyncSame
<1>10. Destroyed(r, alone) = n
  BY <1>1 DEF Destroyed, n, last, gone, deleted, dead
<1>11. QED
  BY <1>9, <1>10

\* The report of a step that was on its way, to a server that waits for it
\* or has given the activity up; c is the client that reports.
LEMMA ReportSyncs ==
    ASSUME NEW r, Good(r), Quiet(r), NEW c, Knows(c),
           r.app # "STOPPED", Busy(r.mStatus) => r.mapped,
           NEW status \in Reports \cup {ERROR}, NEW alone \in BOOLEAN,
           \/ r.mStatus = DESTROYED
           \/ Busy(r.mStatus) /\ status = DESTROYED
           \/ Busy(r.mStatus) /\ status \in Reports /\ Agrees(status, c)
           \/ r.mStatus = CREATING /\ status = ERROR /\ Agrees(INIT, c)
    PROVE  Sync(ReportActivityStatus(r, status, alone), c)
<1> DEFINE k == Taken(r)
           t == TriggerReport(r, status)
<1>1. Typed(r) /\ r.tasks \in Nat /\ r.tasks <= 1
  BY DEF Good, Typed, RecordType, Watched
<1>2. CREATING \in Status /\ Busy(CREATING)
  BY DEF Status, Busy
<1>3. CASE r.mStatus = DESTROYED
  <2>1. ~Busy(r.mStatus)
    BY <1>3 DEF Busy
  <2>2. Sync(r, c)
    BY <1>3, <2>1 DEF Sync, Quiet
  <2>3. r.mapped => t = r
    BY <1>1, <1>3 DEF TriggerReport, Good, Closed
  <2> HIDE DEF t
  <2>4. r.mapped => ReportActivityStatus(r, status, alone) =
                       IF status = DESTROYED THEN Destroyed(r, alone) ELSE r
    BY <2>3 DEF ReportActivityStatus, t
  <2>5. ~r.mapped => ReportActivityStatus(r, status, alone) = r
    BY DEF ReportActivityStatus
  <2>6. QED
    BY <1>1, <2>2, <2>4, <2>5, DestroyedSyncs
<1>4. CASE r.mStatus # DESTROYED
  <2>1. Busy(r.mStatus) /\ r.mapped /\ r.tasks > 0
    BY <1>2, <1>4 DEF Good, Watched
  <2>2. /\ Typed(k) /\ k.tasks = 0 /\ k.mStatus = r.mStatus
        /\ k.mTargetStatus = r.mTargetStatus /\ k.mapped = r.mapped
    BY <2>1, TakenTyped
  <2>3. k.sent = r.sent /\ k.app = r.app
    BY DEF Good, Typed, RecordType, Taken
  <2>4. t = ExecuteTask(k, status)
    BY <2>1 DEF TriggerReport, Taken
  <2> HIDE DEF k, t
  <2>5. Sync(t, c)
    <3>1. CASE status = ERROR
      <4> DEFINE e == [k EXCEPT !.mIsError = TRUE, !.mStatus = @ - 1]
      <4>1. r.mStatus = CREATING /\ Agrees(INIT, c)
        BY <1>4, <3>1 DEF Reports
      <4>2. e \in RecordType /\ e.mStatus = INIT /\ e.sent = r.sent /\ e.app = r.app /\ e.mapped
        <5>1. k.mStatus - 1 = INIT /\ INIT \in -1..DESTROYED
          BY <2>2, <4>1
        <5>2. QED
          BY <2>1, <2>2, <2>3, <5>1 DEF Typed, RecordType
      <4> HIDE DEF e
      <4>3. ~Busy(INIT) /\ INIT \in Status
        BY DEF Busy, Status
      <4>4. Typed(e) /\ Sync(e, c)
        BY <4>1, <4>2, <4>3 DEF Typed, Sync, Quiet
      <4>5. t = DeleteActivity(e)
        BY <2>4, <3>1 DEF ExecuteTask, e
      <4>6. QED
        BY <4>2, <4>4, <4>5, DeleteSyncs
    <3>2. CASE status \in Reports
      <4> DEFINE e == [k EXCEPT !.mStatus = status]
      <4>1. status \in Status /\ status \in -1..DESTROYED /\ status # ERROR /\ ~Busy(status)
        BY <3>2, ReportsRest DEF Status, Reports
      <4>2. /\ e \in RecordType /\ e.mStatus = status /\ e.sent = r.sent /\ e.app = r.app
            /\ e.mTargetStatus = k.mTargetStatus /\ e.mapped
        BY <2>1, <2>2, <2>3, <4>1 DEF Typed, RecordType
      <4> HIDE DEF e
      <4>3. status = DESTROYED \/ Agrees(status, c)
        BY <1>4, <4>1
      <4>4. Typed(e) /\ Sync(e, c)
        BY <4>1, <4>2, <4>3 DEF Typed, Sync, Quiet
      <4>5. e.mTargetStatus \in Targets
        BY <4>2 DEF RecordType
      <4>6. t = LifecycleTransition(e, e.mTargetStatus)
        BY <2>4, <4>1, <4>2 DEF ExecuteTask, e
      <4>7. QED
        BY <4>2, <4>4, <4>5, <4>6, TransitionSyncs
    <3>3. QED
      BY <3>1, <3>2
  <2>6. Good(t)
    BY <2>1, TriggerKeeps DEF t
  <2>7. ReportActivityStatus(r, status, alone) =
           IF status = DESTROYED THEN Destroyed(t, alone) ELSE t
    BY <2>1 DEF ReportActivityStatus, t
  <2>8. QED
    BY <2>5, <2>6, <2>7, DestroyedSyncs DEF Good
<1>5. QED
  BY <1>3, <1>4

-----------------------------------------------------------------------------
(* The steps of both sides.                                                *)

LEMMA InitSync == Init => InSync
<1> SUFFICES ASSUME Init PROVE InSync
  OBVIOUS
<1>1. /\ record.app = "RUNNING" /\ record.mStatus = INIT /\ record.sent = <<>>
      /\ ~record.onStack /\ ~client.known /\ client.mStatus = INIT
  BY DEF Init, NewRecord
<1>2. ~Busy(INIT) /\ DOMAIN record.sent = {}
  BY <1>1 DEF Busy
<1>3. QED
  BY <1>1, <1>2 DEF InSync, Sync, Knows, Agrees

\* The server's steps, except for those that follow a report.
LEMMA ServerSyncs ==
    ASSUME RecordInv, InSync, client.alive, client' = client
    PROVE  /\ PushNewActivity => Sync(record', client)
           /\ \A to \in Targets : Request(to) => Sync(record', client)
           /\ \A to \in {PAUSED, DESTROYED} : Pop(to) => Sync(record', client)
           /\ StopApp => Sync(record', client)
           /\ LifecycleTimeout => Sync(record', client)
<1>1. Typed(record) /\ Sync(record, client) /\ Good(record)
  BY DEF RecordInv, InSync, Good
<1>2. PushNewActivity => Sync(record', client)
  <2>1. SUFFICES ASSUME PushNewActivity PROVE Sync(record', client)
    OBVIOUS
  <2> DEFINE n == LifecycleTransition(record, RESUMED)
  <2>2. /\ record = NewRecord /\ RESUMED \in Targets
        /\ record' = [n EXCEPT !.onStack = TRUE, !.mapped = TRUE]
    BY <2>1 DEF PushNewActivity, Targets
  <2>3. record.mStatus = INIT /\ record.app = "RUNNING" /\ ~Busy(INIT)
    BY <2>2 DEF NewRecord, Busy
  <2>4. TurnTo(INIT, RESUMED) = "CREATE"
    <3>1. ((INIT + 1) \div 2) + 1 = 1 /\ ((RESUMED + 1) \div 2) + 1 = 4
      OBVIOUS
    <3>2. QED
      BY <3>1 DEF TurnTo, lifeCycleTable
  <2>5. /\ "CREATE" \in Steps /\ n.mStatus = Doing("CREATE")
        /\ n.sent = Append(record.sent, "CREATE") /\ n.app = record.app
    BY <1>1, <2>2, <2>3, <2>4, Sends
  <2>6. Typed(n)
    BY <1>1, <2>2, TransitionKeeps
  <2> HIDE DEF n
  <2>7. /\ record'.mStatus = Doing("CREATE") /\ record'.sent = Append(record.sent, "CREATE")
        /\ record'.mapped /\ record'.app # "STOPPED"
    BY <2>2, <2>3, <2>5, <2>6 DEF Typed, RecordType
  <2>8. Quiet(record) /\ Knows(client) /\ Ready("CREATE", client)
    BY <1>1, <2>3, RestIsQuiet DEF Sync, Agrees, Ready
  <2>9. record.sent \in Seq(Commands)
    BY <1>1 DEF Typed, RecordType
  <2>10. QED
    BY <2>5, <2>7, <2>8, <2>9, OneOnItsWay
<1>3. ASSUME NEW to \in Targets, Request(to) PROVE Sync(record', client)
  BY <1>1, <1>3, TransitionSyncs DEF Request
<1>4. ASSUME NEW to \in {PAUSED, DESTROYED}, Pop(to) PROVE Sync(record', client)
  <2> DEFINE n == LifecycleTransition(record, to)
  <2>1. to \in Targets /\ (record.mapped \/ record.mStatus = DESTROYED)
    BY <1>1, <1>4 DEF Targets, Pop, Sync
  <2>2. Sync(n, client) /\ Typed(n)
    BY <1>1, <2>1, TransitionSyncs, TransitionKeeps
  <2>3. record' = [n EXCEPT !.onStack = FALSE]
    BY <1>4 DEF Pop
  <2> HIDE DEF n
  <2>4. /\ record'.sent = n.sent /\ record'.mStatus = n.mStatus
        /\ record'.mapped = n.mapped /\ record'.app = n.app /\ ~record'.onStack
    BY <2>2, <2>3 DEF Typed, RecordType
  <2>5. record'.app # "STOPPED"
    BY <2>2, <2>4 DEF Sync
  <2>6. QED
    BY <2>2, <2>4, <2>5, SyncSame
<1>5. StopApp => Sync(record', client)
  BY <1>1, StopSyncs DEF StopApp
<1>6. LifecycleTimeout => Sync(record', client)
  <2>1. SUFFICES ASSUME LifecycleTimeout PROVE Sync(record', client)
    OBVIOUS
  <2>2. record.tasks > 0 /\ record' = TimeoutTask(Taken(record))
    BY <2>1 DEF LifecycleTimeout, Taken
  <2>3. QED
    BY <1>1, <2>2, TimeoutSyncs
<1>7. QED
  BY <1>2, <1>3, <1>4, <1>5, <1>6

\* turnToActivity(): the client is resumed, or is resumed again.
LEMMA TurnToActivitySyncs ==
    ASSUME ~TurnWhileBusy, RecordInv, InSync, client.alive, TurnToActivity
    PROVE  Sync(record', client)
<1> DEFINE p == [record EXCEPT !.mStatus = PAUSED]
           n == LifecycleTransition(p, RESUMED)
<1>1. Typed(record) /\ Sync(record, client) /\ record.mStatus \in {6, 8}
  BY DEF RecordInv, InSync, Good, TurnToActivity
<1>2. ~Busy(6) /\ ~Busy(8) /\ PAUSED \in Status /\ PAUSED \in -1..DESTROYED
  BY DEF Busy, Status
<1>3. /\ p \in RecordType /\ p.mStatus = PAUSED /\ p.sent = record.sent
      /\ p.mapped = record.mapped /\ p.app = record.app
  BY <1>1, <1>2 DEF Typed, RecordType
<1>4. record' = n /\ RESUMED \in Targets /\ record.onStack
  BY DEF TurnToActivity, Targets
<1> HIDE DEF p
<1>5. Typed(p) /\ ~Busy(p.mStatus) /\ p.app # "STOPPED"
  BY <1>1, <1>2, <1>3 DEF Typed, Sync
<1>6. TurnTo(p.mStatus, RESUMED) = "RESUME"
  <2>1. ((PAUSED + 1) \div 2) + 1 = 5 /\ ((RESUMED + 1) \div 2) + 1 = 4
    OBVIOUS
  <2>2. QED
    BY <1>3, <2>1 DEF TurnTo, lifeCycleTable
<1>7. /\ "RESUME" \in Steps /\ n.mStatus = Doing("RESUME") /\ n.sent = Append(p.sent, "RESUME")
      /\ n.mapped = p.mapped /\ n.app = p.app
  BY <1>4, <1>5, <1>6, Sends
<1>8. Quiet(record) /\ Agrees(record.mStatus, client) /\ Knows(client)
  <2>1. ~Busy(record.mStatus) /\ record.mStatus # DESTROYED
    BY <1>1, <1>2
  <2>2. QED
    BY <1>1, <2>1, RestIsQuiet DEF Sync
<1>9. Ready("RESUME", client)
  BY <1>1, <1>8, DoneNumbers, FollowsNumbers DEF Agrees, Ready
<1>10. Quiet(p) /\ p.sent \in Seq(Commands)
  BY <1>3, <1>5, <1>8 DEF Quiet, Typed, RecordType
<1>11. record.mapped
  BY <1>1, <1>4 DEF Sync
<1> HIDE DEF n
<1>12. n.mapped /\ n.app # "STOPPED"
  BY <1>3, <1>5, <1>7, <1>11
<1>13. Sync(n, client)
  BY <1>7, <1>8, <1>9, <1>10, <1>12, OneOnItsWay
<1>14. QED
  BY <1>4, <1>13

CallbackStep == [Callbacks!Next]_(client.mStatus)

LEMMA DeliverSyncs ==
    ASSUME RecordInv, InSync, Deliver
    PROVE  InSync' /\ CallbackStep
<1> DEFINE command == Head(record.sent)
           q == record.sent
<1>1. /\ Good(record) /\ Typed(record) /\ client \in ClientType /\ client.alive
      /\ Sync(record, client) /\ q # <<>> /\ q \in Seq(Commands)
  BY DEF RecordInv, InSync, Deliver, Good, Typed, RecordType
<1>2. /\ 1 \in DOMAIN q /\ command = q[1] /\ Tail(q) \in Seq(Commands)
      /\ \A i \in DOMAIN Tail(q) : i + 1 \in DOMAIN q /\ i + 1 # 1 /\ Tail(q)[i] = q[i + 1]
  <2> HIDE DEF q
  <2>1. Len(q) \in Nat /\ Len(q) # 0 /\ DOMAIN q = 1..Len(q)
    BY <1>1, EmptySeq
  <2>2. /\ Tail(q) \in Seq(Commands) /\ DOMAIN Tail(q) = 1..(Len(q) - 1)
        /\ \A i \in 1..(Len(q) - 1) : Tail(q)[i] = q[i + 1]
    BY <1>1, <2>1, HeadTailProperties
  <2>3. QED
    BY <2>1, <2>2 DEF q
<1>3. /\ Received.sent = Tail(q) /\ Received.mStatus = record.mStatus
      /\ Received.tasks = record.tasks /\ Received.mapped = record.mapped
      /\ Received.onStack = record.onStack /\ Received.app = record.app
      /\ Received.mTargetStatus = record.mTargetStatus /\ Received.mIsError = record.mIsError
      /\ Typed(Received)
  BY <1>1, <1>2 DEF Received, Typed, RecordType
<1>4. Good(Received)
  BY <1>1, <1>3 DEF Good, Watched, Closed, Settled
<1> HIDE DEF q
<1>5. Sync(Received, client)
  <2>1. \A i \in DOMAIN Tail(q) : Tail(q)[i] \in Steps =>
           Ready(Tail(q)[i], client) /\ record.mStatus \in {Doing(Tail(q)[i]), DESTROYED}
    BY <1>1, <1>2 DEF Sync, q
  <2>2. \A i, j \in DOMAIN Tail(q) : Tail(q)[i] \in Steps /\ Tail(q)[j] \in Steps => i = j
    <3>1. SUFFICES ASSUME NEW i \in DOMAIN Tail(q), NEW j \in DOMAIN Tail(q),
                          Tail(q)[i] \in Steps, Tail(q)[j] \in Steps
                   PROVE  i = j
      OBVIOUS
    <3>2. q[i + 1] \in Steps /\ q[j + 1] \in Steps /\ i + 1 \in DOMAIN q /\ j + 1 \in DOMAIN q
      BY <1>2, <3>1
    <3>3. i + 1 = j + 1
      BY <1>1, <3>2 DEF Sync, q
    <3>4. i \in Nat /\ j \in Nat
      BY <1>2
    <3>5. QED
      BY <3>3, <3>4
  <2>3. QED
    BY <1>1, <1>3, <2>1, <2>2 DEF Sync
<1>6. command \in Steps =>
         /\ Ready(command, client) /\ record.mStatus \in {Doing(command), DESTROYED}
         /\ Quiet(Received)
  <2>1. SUFFICES ASSUME command \in Steps
                 PROVE  /\ Ready(command, client) /\ record.mStatus \in {Doing(command), DESTROYED}
                        /\ Quiet(Received)
    OBVIOUS
  <2>2. q[1] \in Steps /\ 1 \in DOMAIN q
    BY <1>2, <2>1
  <2>3. Ready(command, client) /\ record.mStatus \in {Doing(command), DESTROYED}
    BY <1>1, <1>2, <2>2 DEF Sync, q
  <2>4. ASSUME NEW i \in DOMAIN Tail(q), Tail(q)[i] \in Steps PROVE FALSE
    <3>1. q[i + 1] \in Steps /\ i + 1 \in DOMAIN q /\ i + 1 # 1
      BY <1>2, <2>4
    <3>2. QED
      BY <1>1, <2>2, <3>1 DEF Sync, q
  <2>5. QED
    BY <1>3, <2>3, <2>4 DEF Quiet
<1> HIDE DEF command
<1>7. Received.app # "STOPPED" /\ (Busy(Received.mStatus) => Received.mapped)
  <2>1. ~Busy(DESTROYED)
    BY DEF Busy
  <2>2. QED
    BY <1>5, <2>1 DEF Sync
<1>8. ASSUME command = "CREATE", NEW status \in {CREATED, ERROR}, Launch(status)
      PROVE  InSync' /\ CallbackStep
  <2>1. command \in Steps /\ FALSE \in BOOLEAN
    BY <1>8 DEF Steps
  <2>2. ~client.known /\ client.mStatus \in {INIT, ERROR} /\ Quiet(Received)
    BY <1>6, <1>8, <2>1 DEF Ready
  <2>3. client' = [client EXCEPT !.mStatus = status, !.known = status = CREATED]
    BY <1>1, <1>8, <2>2 DEF Launch, ClientType
  <2>4. /\ client'.mStatus = status /\ client'.known = (status = CREATED) /\ client'.alive
    BY <1>1, <2>3 DEF ClientType
  <2>5. /\ Knows(client') /\ (status = CREATED => Agrees(status, client') /\ status \in Reports)
        /\ (status = ERROR => Agrees(INIT, client'))
        /\ status \in Reports \cup {ERROR}
    <3>1. CASE status = CREATED
      <4>1. client'.known /\ client'.mStatus = 2
        BY <2>4, <3>1
      <4>2. QED
        BY <3>1, <4>1 DEF Knows, Agrees, Reports
    <3>2. CASE status = ERROR
      <4>1. status # CREATED
        BY <3>2
      <4>2. ~client'.known
        BY <2>4, <4>1
      <4>3. client'.mStatus = ERROR
        BY <2>4, <3>2
      <4>4. QED
        BY <3>2, <4>2, <4>3 DEF Knows, Agrees, Reports
    <3>3. QED
      BY <1>8, <3>1, <3>2
  <2>6. Received.mStatus \in {CREATING, DESTROYED} /\ Busy(CREATING)
    BY <1>3, <1>6, <1>8, <2>1, DoneNumbers DEF Busy
  <2>7. Sync(ReportActivityStatus(Received, status, FALSE), client')
    BY <1>4, <1>7, <1>8, <2>1, <2>2, <2>5, <2>6, ReportSyncs
  <2>8. CallbackStep
    <3>1. CASE status = CREATED
      <4>1. Callbacks!Next
        BY <2>2, <2>4, <3>1, FollowsNumbers
           DEF Callbacks!Next, Callbacks!Callback, Callbacks!Retry, Callbacks!ERROR,
               Callbacks!CREATED, Callbacks!Reports
      <4>2. QED
        BY <4>1 DEF CallbackStep
    <3>2. CASE status = ERROR
      <4>1. Callbacks!Next
        BY <2>2, <2>4, <3>2 DEF Callbacks!Next, Callbacks!Fail, Callbacks!ERROR, Callbacks!INIT
      <4>2. QED
        BY <4>1 DEF CallbackStep
    <3>3. QED
      BY <3>1, <3>2
  <2>9. QED
    BY <1>8, <2>7, <2>8 DEF InSync, Launch
<1>9. ASSUME record' = Received, client' = client
      PROVE  InSync' /\ CallbackStep
  BY <1>5, <1>9 DEF InSync, CallbackStep
<1>10. ASSUME command \in Steps \ {"CREATE"}, NEW alone \in BOOLEAN, Perform(command, alone)
       PROVE  InSync' /\ CallbackStep
  <2>1. /\ client.known /\ Quiet(Received)
        /\ client.mStatus = Done(command) \/ <<client.mStatus, Done(command)>> \in Callbacks!Follows
        /\ Received.mStatus \in {Doing(command), DESTROYED}
    BY <1>3, <1>6, <1>10 DEF Ready
  <2>2. Done(command) \in Reports /\ (Done(command) = DESTROYED <=> command = "DESTROY")
    BY <1>10, DoneReports, DoneNumbers DEF Steps
  <2>3. /\ client' = [client EXCEPT !.mStatus = Done(command), !.known = command # "DESTROY"]
        /\ record' = ReportActivityStatus(Received, Done(command), alone)
    BY <1>10, <2>1 DEF Perform
  <2>4. /\ client'.mStatus = Done(command) /\ client'.known = (command # "DESTROY")
        /\ client'.alive
    BY <1>1, <2>3 DEF ClientType
  <2>5. Knows(client') /\ (Done(command) # DESTROYED => Agrees(Done(command), client'))
    <3>1. CASE command = "DESTROY"
      <4>1. ~client'.known /\ client'.mStatus = DESTROYED
        BY <2>2, <2>4, <3>1
      <4>2. QED
        BY <2>2, <3>1, <4>1 DEF Knows
    <3>2. CASE command # "DESTROY"
      <4>1. client'.known /\ client'.mStatus = Done(command) /\ Done(command) # DESTROYED
        BY <2>2, <2>4, <3>2
      <4>2. Done(command) # INIT
        BY <2>2 DEF Reports
      <4>3. QED
        BY <2>2, <4>1, <4>2 DEF Knows, Agrees
    <3>3. QED
      BY <3>1, <3>2
  <2>6. Doing(command) \in {1, 3, 5, 7, 9, 11} /\ Busy(Doing(command))
    BY <1>10, StepStatuses, BusyStatus DEF Status
  <2> DEFINE done == Done(command)
  <2>7. done \in Reports \cup {ERROR} /\ done \in Reports
    BY <2>2
  <2>8. Received.mStatus = DESTROYED \/ Busy(Received.mStatus)
    BY <2>1, <2>6
  <2>9. Sync(ReportActivityStatus(Received, done, alone), client')
    <3> HIDE DEF done
    <3>1. done # DESTROYED => Agrees(done, client')
      BY <2>5 DEF done
    <3>2. QED
      BY <1>4, <1>7, <1>10, <2>1, <2>5, <2>7, <2>8, <3>1, ReportSyncs
  <2>10. CallbackStep
    <3>1. CASE client.mStatus = Done(command)
      BY <2>4, <3>1 DEF CallbackStep
    <3>2. CASE client.mStatus # Done(command)
      <4>1. <<client.mStatus, client'.mStatus>> \in Callbacks!Follows
        BY <2>1, <2>4, <3>2
      <4>2. client'.mStatus \in Callbacks!Reports
        BY <2>2, <2>4 DEF Reports, Callbacks!Reports, Callbacks!CREATED, Callbacks!STARTED,
                          Callbacks!RESUMED, Callbacks!PAUSED, Callbacks!STOPPED,
                          Callbacks!DESTROYED
      <4>3. QED
        BY <4>1, <4>2 DEF CallbackStep, Callbacks!Next, Callbacks!Callback
    <3>3. QED
      BY <3>1, <3>2
  <2>11. QED
    BY <2>3, <2>9, <2>10 DEF InSync
<1>11. ASSUME client' = [client EXCEPT !.terminating = TRUE], record' = Received
       PROVE  InSync' /\ CallbackStep
  <2>1. /\ client'.mStatus = client.mStatus /\ client'.known = client.known
    BY <1>1, <1>11 DEF ClientType
  <2>2. Sync(Received, client')
    BY <1>5, <2>1 DEF Sync, Ready, Knows, Agrees
  <2>3. QED
    BY <1>11, <2>1, <2>2 DEF InSync, CallbackStep
<1>12. QED
  BY <1>8, <1>9, <1>10, <1>11 DEF Deliver, LaunchUnregistered, Perform, command

LEMMA TerminateSyncs ==
    ASSUME RecordInv, InSync, TerminateDelayEnds
    PROVE  InSync' /\ CallbackStep
<1>1. client \in ClientType /\ Knows(client)
  BY DEF RecordInv, InSync, Sync, TerminateDelayEnds
<1>2. CASE client.known /\ client.mStatus < DESTROYING
  <2>1. client' = [client EXCEPT !.known = FALSE, !.mStatus = DESTROYED, !.alive = FALSE]
    BY <1>2 DEF TerminateDelayEnds, ClearActivity
  <2>2. client'.mStatus = DESTROYED /\ ~client'.alive
    BY <1>1, <2>1 DEF ClientType
  <2>3. client.mStatus \in Callbacks!Reports
    BY <1>1, <1>2 DEF Knows, Reports, Callbacks!Reports, Callbacks!CREATED, Callbacks!STARTED,
                      Callbacks!RESUMED, Callbacks!PAUSED, Callbacks!STOPPED, Callbacks!DESTROYED
  <2>4. Callbacks!Teardown
    BY <2>2, <2>3 DEF Callbacks!Teardown, Callbacks!DESTROYED
  <2>5. QED
    BY <2>2, <2>4 DEF InSync, CallbackStep, Callbacks!Next
<1>3. CASE ~(client.known /\ client.mStatus < DESTROYING)
  <2>1. client' = [client EXCEPT !.alive = FALSE]
    BY <1>3 DEF TerminateDelayEnds, ClearActivity
  <2>2. client'.mStatus = client.mStatus /\ ~client'.alive
    BY <1>1, <2>1 DEF ClientType
  <2>3. QED
    BY <2>2 DEF InSync, CallbackStep
<1>4. QED
  BY <1>2, <1>3

LEMMA NextSyncs ==
    ASSUME ~TurnWhileBusy
    PROVE  RecordInv /\ InSync /\ [Next]_vars => InSync' /\ CallbackStep
<1> SUFFICES ASSUME RecordInv, InSync, [Next]_vars PROVE InSync' /\ CallbackStep
  OBVIOUS
<1>1. CASE client' = client /\ (client.alive => Sync(record', client))
  BY <1>1 DEF InSync, CallbackStep
<1>2. CASE client' = client /\ client.alive /\
             \/ PushNewActivity
             \/ \E to \in Targets \ {INIT} : Request(to)
             \/ \E to \in {PAUSED, DESTROYED} : Pop(to)
             \/ StopApp
             \/ LifecycleTimeout
  BY <1>1, <1>2, ServerSyncs
<1>3. CASE client' = client /\ client.alive /\ TurnToActivity
  BY <1>1, <1>3, TurnToActivitySyncs
<1>4. CASE Deliver
  BY <1>4, DeliverSyncs
<1>5. CASE TerminateDelayEnds
  BY <1>5, TerminateSyncs
<1>6. CASE Crash
  <2>1. client' = [client EXCEPT !.alive = FALSE] /\ client \in ClientType
    BY <1>6 DEF Crash, RecordInv
  <2>2. client'.mStatus = client.mStatus /\ ~client'.alive
    BY <2>1 DEF ClientType
  <2>3. QED
    BY <2>2 DEF InSync, CallbackStep
<1>7. CASE AppTerminated
  BY <1>7 DEF AppTerminated, InSync, CallbackStep
<1>8. CASE UNCHANGED vars
  BY <1>8 DEF vars, InSync, CallbackStep
<1>9. CASE client' = client /\ ~client.alive
  BY <1>1, <1>9
<1>10. \/ Deliver \/ TerminateDelayEnds \/ Crash \/ AppTerminated \/ UNCHANGED vars
       \/ client' = client /\
             (\/ PushNewActivity
              \/ \E to \in Targets \ {INIT} : Request(to)
              \/ \E to \in {PAUSED, DESTROYED} : Pop(to)
              \/ StopApp
              \/ LifecycleTimeout
              \/ TurnToActivity)
  BY DEF Next, PushNewActivity, Request, Pop, StopApp, LifecycleTimeout, TurnToActivity
<1>11. QED
  BY <1>2, <1>3, <1>4, <1>5, <1>6, <1>7, <1>8, <1>9, <1>10

\* What the two sides know of each other in every behaviour.
LEMMA SyncInvariant == ~TurnWhileBusy => (Spec => []InSync)
<1> SUFFICES ASSUME ~TurnWhileBusy PROVE Spec => []InSync
  OBVIOUS
<1>1. RecordInv /\ InSync /\ [Next]_vars => InSync'
  BY NextSyncs
<1>2. Spec => []RecordInv
  BY RecordInvariant
<1>3. QED
  BY InitSync, <1>1, <1>2, PTL DEF Spec

(* Where the server believes an activity to be at rest its process has     *)
(* reported just that status, through every report, timeout and failed     *)
(* creation in between.                                                    *)
THEOREM RestAgreesAlways == ~TurnWhileBusy => (Spec => []RestAgrees)
<1> SUFFICES ASSUME ~TurnWhileBusy PROVE Spec => []RestAgrees
  OBVIOUS
<1>1. InSync => RestAgrees
  BY DEF InSync, Sync, Agrees, RestAgrees
<1>2. Spec => []InSync
  BY SyncInvariant
<1>3. QED
  BY <1>1, <1>2, PTL

(* The client side implements ActivityCallbacks: the commands the server   *)
(* sends, however its requests change meanwhile, lead through the          *)
(* callbacks in an order the author of an activity may rely on.            *)
THEOREM CallbacksInOrder == ~TurnWhileBusy => (Spec => CallbackOrder)
<1> SUFFICES ASSUME ~TurnWhileBusy PROVE Spec => CallbackOrder
  OBVIOUS
<1>1. Init => Callbacks!Init
  BY DEF Init, Callbacks!Init, Callbacks!INIT
<1>2. RecordInv /\ InSync /\ [Next]_vars => [Callbacks!Next]_(client.mStatus)
  BY NextSyncs DEF CallbackStep
<1>3. Spec => []RecordInv /\ []InSync
  BY RecordInvariant, SyncInvariant
<1>4. QED
  BY <1>1, <1>2, <1>3, PTL DEF Spec, CallbackOrder, Callbacks!Spec
=============================================================================

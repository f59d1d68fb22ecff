--------------------------- MODULE TaskBoardProofs ---------------------------
(***************************************************************************)
(* Proofs about TaskBoard: the inductive invariant BoardInv, from which    *)
(* the timer covers every deadline and no task is lost or called twice,    *)
(* for every number of commits and every nesting of callbacks.             *)
(***************************************************************************)
EXTENDS TaskBoard, SequenceTheorems, TLAPS

(* Every definition that says what the constants are, as arithmetic.        *)
USE LabelAssumption, LimitsAssumption, MinCheckoutAssumption, DebugAssumption,
    BoundsAssumption DEF Handler, Horizon, Never

(* A frame popped or appended keeps the call stack a sequence of frames.    *)
LEMMA OuterFrames ==
    ASSUME triggers \in Seq(Frame), triggers # <<>>
    PROVE  /\ Outer \in Seq(Frame)
           /\ Innermost \in Frame
BY DEF Outer, Innermost

LEMMA InitInv == Init => BoardInv
<1> SUFFICES ASSUME Init PROVE BoardInv
  OBVIOUS
<1>1. (CHOOSE l \in Label : TRUE) \in Label
  OBVIOUS
<1>2. triggers \in Seq(Frame)
  BY DEF Init
<1>3. TypeOK
  <2> USE DEF Init
  <2>1. label \in [Handler -> Label]
    BY <1>1
  <2>2. now \in 0..Horizon /\ committed \in 0..MaxCommits /\ mTasklist \subseteq 1..committed
    OBVIOUS
  <2>3. mNextCheckTime \in 0..Never
    BY DEF StartTime
  <2>4. mTimer \in [armed : BOOLEAN, at : Nat]
    OBVIOUS
  <2>5. sweep \in [on : BOOLEAN, now : Nat, min : Nat, at : 0..MaxCommits]
    BY DEF NoSweep
  <2>6. QED
    BY <1>2, <2>1, <2>2, <2>3, <2>4, <2>5 DEF TypeOK
<1>4. QED
  BY <1>3 DEF Init, BoardInv, PendingIsListed, TimerBookkeeping, Undone, NoSweep, StartTime

(* TaskTimeoutHandler::doing() on a waiting task settles it, once.          *)
LEMMA DoingInv ==
    ASSUME BoardInv, NEW h \in Handler, Undone(h), Doing(h),
           UNCHANGED <<now, handlerVars, mTasklist, timerVars, sweep>>,
           triggers' \in Seq(Frame)
    PROVE  BoardInv'
<1> USE DEF Doing, Ran, handlerVars, timerVars
<1>1. TypeOK'
  BY DEF BoardInv, TypeOK
<1>2. \A x \in Handler : Undone(x)' <=> Undone(x) /\ x # h
  BY DEF BoardInv, TypeOK, Undone
<1>3. fate[h] = "pending"
  BY DEF BoardInv, PendingIsListed
<1>4. PendingIsListed'
  BY <1>2, <1>3 DEF BoardInv, TypeOK, PendingIsListed
<1>5. ~Debug => TimerBookkeeping'
  BY <1>2 DEF BoardInv, TimerBookkeeping
<1>6. QED
  BY <1>1, <1>3, <1>4, <1>5 DEF BoardInv, TypeOK, Undone

LEMMA CommitInv ==
    ASSUME BoardInv, NEW l \in Label, NEW limit \in Limits, CommitTask(l, limit)
    PROVE  BoardInv'
<1> DEFINE c == committed + 1
           expect == now + limit
<1> USE DEF CommitTask
<1>1. /\ c \in Handler /\ c \notin mTasklist
      /\ limit \in Nat /\ expect \in Nat /\ expect <= MaxTime /\ expect < Never
  BY DEF BoardInv, TypeOK
<1>2. now + CommitDelay(limit) \in Nat /\ now + CommitDelay(limit) <= expect
  BY <1>1 DEF BoardInv, TypeOK, CommitDelay, Smaller
<1>3. ~mIsDone[c] /\ fate[c] = "none"
  BY <1>1 DEF BoardInv, TypeOK
<1>4. TypeOK'
  <2>1. /\ committed' \in 0..MaxCommits
        /\ mTasklist' \subseteq 1..committed'
        /\ label' \in [Handler -> Label]
        /\ mExpectTime' \in [Handler -> Nat]
    BY <1>1 DEF BoardInv, TypeOK
  <2>2. mNextCheckTime' \in 0..Never /\ mTimer' \in [armed : BOOLEAN, at : Nat]
    <3>1. CASE StartsTimer(expect)
      <4>1. mNextCheckTime' = expect /\ mTimer' = [armed |-> TRUE, at |-> now + CommitDelay(limit)]
        BY <3>1
      <4>2. QED
        BY <1>1, <1>2, <4>1
    <3>2. CASE ~StartsTimer(expect)
      BY <3>2 DEF BoardInv, TypeOK, timerVars
    <3>3. QED
      BY <3>1, <3>2
  <2>3. fate' \in [Handler -> {"none", "pending", "executed", "timedout", "cancelled", "again"}]
    BY <1>1 DEF BoardInv, TypeOK
  <2>4. QED
    BY <2>1, <2>2, <2>3 DEF BoardInv, TypeOK
<1>5. \A x \in Handler : Undone(x)' <=> Undone(x) \/ x = c
  BY <1>1, <1>3 DEF BoardInv, TypeOK, Undone
<1>6. PendingIsListed'
  BY <1>1, <1>5 DEF BoardInv, TypeOK, PendingIsListed
<1>7. /\ mExpectTime'[c] = expect
      /\ \A x \in Handler : x # c => mExpectTime'[x] = mExpectTime[x]
  BY <1>1 DEF BoardInv, TypeOK
<1>8. ASSUME ~Debug PROVE TimerBookkeeping'
  <2>1. mTimer'.armed => mTimer'.at <= mNextCheckTime'
    BY <1>1, <1>2, <1>8 DEF BoardInv, TypeOK, TimerBookkeeping, timerVars, StartsTimer
  <2>2. CASE sweep.on
    BY <1>1, <1>5, <1>7, <1>8, <2>1, <2>2 DEF BoardInv, TypeOK, TimerBookkeeping
  <2>3. CASE ~sweep.on
    <3>1. mTimer'.armed
      BY <1>1, <1>8, <2>3 DEF BoardInv, TypeOK, TimerBookkeeping, timerVars, StartsTimer
    <3>2. mNextCheckTime' <= mNextCheckTime /\ mNextCheckTime' <= expect
      BY <1>1 DEF BoardInv, TypeOK, timerVars, StartsTimer
    <3>3. \A x \in Handler : Undone(x)' => mNextCheckTime' <= mExpectTime'[x]
      BY <1>1, <1>5, <1>7, <1>8, <2>3, <3>2 DEF BoardInv, TypeOK, TimerBookkeeping, timerVars
    <3>4. QED
      BY <2>1, <2>3, <3>1, <3>3 DEF TimerBookkeeping
  <2>4. QED
    BY <2>2, <2>3
<1>9. /\ \A x \in Handler : x <= committed' => mExpectTime'[x] <= MaxTime
      /\ \A x \in Handler : x > committed' => fate'[x] = "none" /\ ~mIsDone'[x]
      /\ \A x \in Handler : fate'[x] # "again"
  BY <1>1, <1>7 DEF BoardInv, TypeOK
<1>10. sweep'.on => sweep'.at <= committed' /\ sweep'.min <= Horizon + MinCheckout
  BY DEF BoardInv, TypeOK
<1>11. QED
  BY <1>4, <1>6, <1>8, <1>9, <1>10 DEF BoardInv

LEMMA EventTriggerInv ==
    ASSUME BoardInv, NEW e \in Label, NEW type \in LabelType, EventTrigger(e, type)
    PROVE  BoardInv'
<1>1. PICK h \in Handler :
         /\ IsFirst(h, Matching(e, 0))
         /\ Doing(h)
         /\ triggers' = Append(triggers, [event |-> e, type |-> type, at |-> h])
  BY DEF EventTrigger
<1>2. Undone(h)
  BY <1>1 DEF IsFirst, Matching, Undone
<1>3. triggers' \in Seq(Frame)
  BY <1>1 DEF BoardInv, TypeOK, Frame
<1>4. QED
  BY <1>1, <1>2, <1>3, DoingInv DEF EventTrigger

LEMMA ExecuteReturnsInv ==
    ASSUME BoardInv, ExecuteReturns
    PROVE  BoardInv'
<1> USE DEF ExecuteReturns
<1>0. Outer \in Seq(Frame) /\ Innermost \in Frame
  BY OuterFrames DEF BoardInv, TypeOK
<1>1. CASE TriggerIsOver(Innermost)
  BY <1>0, <1>1 DEF BoardInv, TypeOK, PendingIsListed, TimerBookkeeping, Undone, handlerVars, timerVars
<1>2. CASE ~TriggerIsOver(Innermost)
  <2>1. PICK h \in Handler :
           /\ IsFirst(h, Matching(Innermost.event, Innermost.at))
           /\ Doing(h)
           /\ triggers' = Append(Outer, [Innermost EXCEPT !.at = h])
    BY <1>2
  <2>2. Undone(h)
    BY <2>1 DEF IsFirst, Matching, Undone
  <2>3. triggers' \in Seq(Frame)
    BY SMTT(30), <1>0, <2>1 DEF Frame
  <2>4. QED
    BY <2>1, <2>2, <2>3, DoingInv
<1>3. QED
  BY <1>1, <1>2

LEMMA RemoveTaskInv ==
    ASSUME BoardInv, NEW e \in Label, RemoveTask(e)
    PROVE  BoardInv'
<1> DEFINE gone == {h \in mTasklist : label[h] = e}
<1> USE DEF RemoveTask, Idle, handlerVars, timerVars
<1>1. TypeOK'
  BY DEF BoardInv, TypeOK
<1>2. \A x \in Handler : Undone(x)' <=> Undone(x) /\ x \notin gone
  BY DEF BoardInv, TypeOK, Undone
<1>3. PendingIsListed'
  BY <1>2 DEF BoardInv, TypeOK, PendingIsListed, Undone
<1>4. ASSUME ~Debug PROVE TimerBookkeeping'
  BY <1>2, <1>4 DEF BoardInv, TypeOK, TimerBookkeeping
<1>5. QED
  BY <1>1, <1>3, <1>4 DEF BoardInv, TypeOK

(* One stretch of checkTimeout(), from its iterator to the next timeout()   *)
(* it calls, or to the restart of the timer behind the loop.                *)
LEMMA SweepInv ==
    ASSUME BoardInv, NEW from \in 0..committed, NEW t \in Nat, NEW min \in Nat,
           min <= Horizon + MinCheckout,
           ~Debug => \A x \in Handler : Undone(x) /\ x <= from => min <= mExpectTime[x],
           Sweep(from, t, min)
    PROVE  BoardInv'
<1> USE DEF Sweep
<1>1. PICK next \in CheckTimes(from, t, min) : 
         /\ IsFirst(next, CheckTimes(from, t, min))
         /\ \/ \E h \in Handler :
                 /\ IsFirst(h, Expired(from, t))
                 /\ mIsDone' = [mIsDone EXCEPT ![h] = TRUE]
                 /\ fate' = Ran(h, "timedout")
                 /\ sweep' = [on |-> TRUE, now |-> t, min |-> next, at |-> h]
                 /\ mTimer' = FiredTimer
                 /\ UNCHANGED mNextCheckTime
            \/ /\ Expired(from, t) = {}
               /\ RestartTimer(mTasklist', next)
               /\ sweep' = NoSweep
               /\ UNCHANGED <<mIsDone, fate>>
  OBVIOUS
<1>2. next \in Nat /\ next <= min
  <2>1. \A x \in CheckTimes(from, t, min) : x \in Nat
    BY DEF BoardInv, TypeOK, CheckTimes, Passed
  <2>2. min \in CheckTimes(from, t, min)
    BY DEF CheckTimes
  <2>3. QED
    BY <1>1, <2>1, <2>2 DEF IsFirst
<1>3. \A x \in Passed(from, t) : Undone(x) => next <= mExpectTime[x]
  BY <1>1 DEF CheckTimes, IsFirst, Erased, Undone, Passed
<1>4. \A x \in Handler : x \in mTasklist' /\ ~mIsDone[x] <=> Undone(x)
  BY DEF BoardInv, TypeOK, Erased, Passed, Undone
<1>5. mTasklist' \subseteq mTasklist
  BY DEF Erased
<1>6. CASE Expired(from, t) = {}
  <2>1. /\ RestartTimer(mTasklist', next)
        /\ sweep' = NoSweep
        /\ UNCHANGED <<mIsDone, fate>>
    BY <1>1, <1>6 DEF IsFirst
  <2>2. \A x \in Handler : Undone(x)' <=> Undone(x)
    BY <1>4, <2>1 DEF Undone
  <2>3. mNextCheckTime' \in 0..Never /\ mTimer' \in [armed : BOOLEAN, at : Nat]
    <3>1. CASE mTasklist' # {}
      <4>1. mNextCheckTime' = next /\ mTimer' = [armed |-> TRUE, at |-> next]
        BY <2>1, <3>1 DEF RestartTimer
      <4>2. QED
        BY <1>2, <4>1
    <3>2. CASE mTasklist' = {}
      <4>1. mNextCheckTime' = Never
        BY <2>1, <3>2 DEF RestartTimer
      <4>2. mTimer \in [armed : BOOLEAN, at : Nat] /\ sweep.on \in BOOLEAN
        BY DEF BoardInv, TypeOK
      <4>3. mTimer' = [mTimer EXCEPT !.armed = @ /\ sweep.on]
        BY <2>1, <3>2 DEF RestartTimer, FiredTimer
      <4>4. mTimer' \in [armed : BOOLEAN, at : Nat]
        BY <4>2, <4>3
      <4>5. QED
        BY <4>1, <4>4
    <3>3. QED
      BY <3>1, <3>2
  <2>4. TypeOK'
    <3>1. sweep' \in [on : BOOLEAN, now : Nat, min : Nat, at : 0..MaxCommits]
      BY <2>1 DEF NoSweep
    <3>2. mTasklist' \subseteq 1..committed'
      BY <1>5 DEF BoardInv, TypeOK, handlerVars
    <3>3. QED
      BY <2>1, <2>3, <3>1, <3>2 DEF BoardInv, TypeOK, handlerVars
  <2>5. ASSUME ~Debug PROVE TimerBookkeeping'
    <3>1. \A x \in Handler : Undone(x) => next <= mExpectTime[x]
      <4> TAKE x \in Handler
      <4> HAVE Undone(x)
      <4>1. CASE x <= from
        BY <1>2, <2>5, <4>1 DEF BoardInv, TypeOK
      <4>2. CASE x > from
        <5>1. x \in Passed(from, t)
          BY <1>6, <4>2 DEF Passed, Undone
        <5>2. QED
          BY <1>3, <5>1
      <4>3. QED
        BY <4>1, <4>2 DEF Handler
    <3>2. CASE mTasklist' # {}
      BY <1>2, <2>1, <2>2, <3>1, <3>2 DEF TimerBookkeeping, RestartTimer, NoSweep, handlerVars
    <3>3. CASE mTasklist' = {}
      <4> DEFINE armed == mTimer.armed /\ sweep.on
      <4>6. mTimer \in [armed : BOOLEAN, at : Nat]
        BY DEF BoardInv, TypeOK
      <4>7. mNextCheckTime' = Never /\ mTimer' = [mTimer EXCEPT !.armed = armed]
        BY <2>1, <3>3 DEF RestartTimer, FiredTimer
      <4> HIDE DEF armed
      <4>1. mNextCheckTime' = Never /\ mTimer'.at = mTimer.at /\ mTimer'.armed = armed
        BY <4>6, <4>7
      <4>2. mTimer'.armed => mTimer.armed
        BY <4>1 DEF armed
      <4>3. \A x \in Handler : ~Undone(x)'
        BY <3>3 DEF Undone
      <4>4. mTimer'.armed => mTimer'.at <= mNextCheckTime'
        BY <2>5, <4>1, <4>2 DEF BoardInv, TypeOK, TimerBookkeeping
      <4>5. QED
        BY <2>1, <3>3, <4>1, <4>3, <4>4 DEF TimerBookkeeping, NoSweep
    <3>4. QED
      BY <3>2, <3>3
  <2>6. PendingIsListed'
    BY <2>1, <2>2 DEF BoardInv, PendingIsListed
  <2>7. QED
    BY <2>1, <2>4, <2>5, <2>6 DEF BoardInv, handlerVars, NoSweep
<1>7. CASE Expired(from, t) # {}
  <2>1. PICK h \in Handler :
           /\ IsFirst(h, Expired(from, t))
           /\ mIsDone' = [mIsDone EXCEPT ![h] = TRUE]
           /\ fate' = Ran(h, "timedout")
           /\ sweep' = [on |-> TRUE, now |-> t, min |-> next, at |-> h]
           /\ mTimer' = FiredTimer
           /\ UNCHANGED mNextCheckTime
    BY <1>1, <1>7
  <2>2. Undone(h) /\ h > from /\ h <= committed /\ h \in mTasklist'
    BY <2>1 DEF BoardInv, TypeOK, IsFirst, Expired, Undone, Erased
  <2>3. fate[h] = "pending"
    BY <2>2 DEF BoardInv, PendingIsListed
  <2>4. \A x \in Handler : Undone(x)' <=> Undone(x) /\ x # h
    BY <1>4, <2>1 DEF BoardInv, TypeOK, Undone
  <2>5. TypeOK'
    <3>1. sweep' \in [on : BOOLEAN, now : Nat, min : Nat, at : 0..MaxCommits]
      BY <1>2, <2>1
    <3>2. mTasklist' \subseteq 1..committed'
      BY <1>5 DEF BoardInv, TypeOK, handlerVars
    <3>3. mTimer' \in [armed : BOOLEAN, at : Nat]
      BY <2>1 DEF BoardInv, TypeOK, FiredTimer
    <3>4. /\ mIsDone' \in [Handler -> BOOLEAN]
          /\ fate' \in [Handler -> {"none", "pending", "executed", "timedout", "cancelled", "again"}]
      BY <2>1 DEF BoardInv, TypeOK, Ran
    <3>5. QED
      BY <2>1, <3>1, <3>2, <3>3, <3>4 DEF BoardInv, TypeOK, handlerVars
  <2>6. PendingIsListed'
    BY <2>1, <2>3, <2>4 DEF BoardInv, TypeOK, PendingIsListed, Ran
  <2>7. ASSUME ~Debug PROVE TimerBookkeeping'
    <3>1. \A x \in Handler : Undone(x)' /\ x <= h => next <= mExpectTime[x]
      <4> TAKE x \in Handler
      <4> HAVE Undone(x)' /\ x <= h
      <4>0. Undone(x) /\ x < h
        BY <2>4
      <4>1. CASE x <= from
        BY <1>2, <2>7, <4>0, <4>1 DEF BoardInv, TypeOK
      <4>2. CASE x > from
        <5>1. x \in Passed(from, t)
          BY <2>1, <4>0, <4>2 DEF Passed, Undone, IsFirst, BoardInv, TypeOK, Expired
        <5>2. QED
          BY <1>3, <4>0, <5>1
      <4>3. QED
        BY <4>1, <4>2
    <3>2. mTimer'.armed => mTimer.armed /\ mTimer'.at = mTimer.at
      BY <2>1 DEF FiredTimer, BoardInv, TypeOK
    <3>3. QED
      BY <2>1, <2>7, <3>1, <3>2 DEF BoardInv, TypeOK, TimerBookkeeping, handlerVars, FiredTimer
  <2>8. \A x \in Handler : fate'[x] # "again"
    BY <2>1, <2>3 DEF BoardInv, TypeOK, Ran
  <2>9. \A x \in Handler : x > committed => fate'[x] = "none" /\ ~mIsDone'[x]
    BY <2>1, <2>2 DEF BoardInv, TypeOK, Ran
  <2>10. sweep'.at <= committed' /\ sweep'.min <= Horizon + MinCheckout
    BY <1>2, <2>1, <2>2 DEF BoardInv, TypeOK, handlerVars
  <2>11. \A x \in Handler : x <= committed' => mExpectTime'[x] <= MaxTime
    BY DEF BoardInv, handlerVars
  <2>12. committed' = committed
    BY DEF handlerVars
  <2>13. QED
    BY <2>5, <2>6, <2>7, <2>8, <2>9, <2>10, <2>11, <2>12 DEF BoardInv
<1>8. QED
  BY <1>6, <1>7

LEMMA NextInv == BoardInv /\ [Next]_vars => BoardInv'
<1> SUFFICES ASSUME BoardInv, [Next]_vars PROVE BoardInv'
  OBVIOUS
<1>1. ASSUME NEW l \in Label, NEW limit \in Limits, CommitTask(l, limit) PROVE BoardInv'
  BY <1>1, CommitInv
<1>2. ASSUME NEW e \in Label, NEW type \in LabelType, EventTrigger(e, type) PROVE BoardInv'
  BY <1>2, EventTriggerInv
<1>3. CASE ExecuteReturns
  BY <1>3, ExecuteReturnsInv
<1>4. ASSUME NEW e \in Label, RemoveTask(e) PROVE BoardInv'
  BY <1>4, RemoveTaskInv
<1>5. CASE CheckTimeout
  <2>1. /\ 0 \in 0..committed /\ now \in Nat /\ now + MinCheckout \in Nat
        /\ now + MinCheckout <= Horizon + MinCheckout
    BY DEF BoardInv, TypeOK
  <2>2. \A x \in Handler : ~(x <= 0)
    OBVIOUS
  <2>3. Sweep(0, now, now + MinCheckout)
    BY <1>5 DEF CheckTimeout
  <2>4. QED
    BY <2>1, <2>2, <2>3, SweepInv
<1>6. CASE TimeoutReturns
  <2>1. /\ sweep.at \in 0..committed /\ sweep.now \in Nat /\ sweep.min \in Nat
        /\ sweep.min <= Horizon + MinCheckout
    BY <1>6 DEF TimeoutReturns, BoardInv, TypeOK
  <2>2. ~Debug => \A x \in Handler : Undone(x) /\ x <= sweep.at => sweep.min <= mExpectTime[x]
    BY <1>6 DEF TimeoutReturns, BoardInv, TimerBookkeeping
  <2>3. Sweep(sweep.at, sweep.now, sweep.min)
    BY <1>6 DEF TimeoutReturns
  <2>4. QED
    BY <2>1, <2>2, <2>3, SweepInv
<1>7. CASE Tick
  BY <1>7 DEF Tick, BoardInv, TypeOK, PendingIsListed, TimerBookkeeping, Undone, handlerVars, timerVars
<1>8. CASE UNCHANGED vars
  BY <1>8 DEF vars, BoardInv, TypeOK, PendingIsListed, TimerBookkeeping, Undone, handlerVars, timerVars
<1>9. QED
  BY <1>1, <1>2, <1>3, <1>4, <1>5, <1>6, <1>7, <1>8 DEF Next

(* The board's bookkeeping survives every step (server/TaskBoard.cpp).      *)
THEOREM BoardInvariant == Spec => []BoardInv
BY InitInv, NextInv, PTL DEF Spec

(* The state keeps its type.                                                *)
THEOREM TypeCorrect == Spec => []TypeOK
<1>1. BoardInv => TypeOK
  BY DEF BoardInv
<1>2. QED
  BY <1>1, BoardInvariant, PTL

(* Between two checks the timer covers the deadline of every waiting task:  *)
(* commitTask() and checkTimeout() never leave one to be found late.        *)
THEOREM TimerIsSafe == Spec => []TimerCovers
<1>1. BoardInv => TimerCovers
  <2> SUFFICES ASSUME BoardInv, ~sweep.on, ~Debug, NEW h \in mTasklist, ~mIsDone[h]
               PROVE  mTimer.armed /\ mTimer.at <= mExpectTime[h]
    BY DEF TimerCovers
  <2>1. h \in Handler /\ Undone(h)
    BY DEF BoardInv, TypeOK, Undone
  <2>2. mTimer.armed /\ mTimer.at <= mNextCheckTime /\ mNextCheckTime <= mExpectTime[h]
    BY <2>1 DEF BoardInv, TimerBookkeeping
  <2>3. QED
    BY <2>1, <2>2 DEF BoardInv, TypeOK
<1>2. QED
  BY <1>1, BoardInvariant, PTL

(* No task is lost: it is pending as long as it is listed and not done.     *)
THEOREM NothingIsLost == Spec => []PendingIsListed
<1>1. BoardInv => PendingIsListed
  BY DEF BoardInv
<1>2. QED
  BY <1>1, BoardInvariant, PTL

-----------------------------------------------------------------------------
(* In debug mode the timer is never armed, so no check ever runs.           *)
DebugInv ==
    Debug => /\ mNextCheckTime = 0
             /\ ~mTimer.armed
             /\ ~sweep.on
             /\ \A h \in Handler : fate[h] # "timedout"

LEMMA DebugInit == Init => DebugInv
BY DEF Init, DebugInv, StartTime, NoSweep

LEMMA DebugNext == BoardInv /\ DebugInv /\ [Next]_vars => DebugInv'
<1> SUFFICES ASSUME BoardInv, DebugInv, [Next]_vars, Debug PROVE DebugInv'
  BY DEF DebugInv
<1> USE DEF DebugInv, handlerVars, timerVars
<1>0. fate \in [Handler -> {"none", "pending", "executed", "timedout", "cancelled", "again"}]
  BY DEF BoardInv, TypeOK
<1>1. ASSUME NEW l \in Label, NEW limit \in Limits, CommitTask(l, limit) PROVE DebugInv'
  <2>1. now + limit \in Nat
    BY DEF BoardInv, TypeOK
  <2>2. UNCHANGED timerVars
    BY <1>1, <2>1 DEF CommitTask, StartsTimer
  <2>3. QED
    BY <1>0, <1>1, <2>2 DEF CommitTask
<1>2. ASSUME NEW e \in Label, NEW type \in LabelType, EventTrigger(e, type) PROVE DebugInv'
  BY <1>0, <1>2 DEF EventTrigger, Doing, Ran
<1>3. CASE ExecuteReturns
  BY <1>0, <1>3 DEF ExecuteReturns, Doing, Ran
<1>4. ASSUME NEW e \in Label, RemoveTask(e) PROVE DebugInv'
  BY <1>0, <1>4 DEF RemoveTask
<1>5. CASE CheckTimeout
  BY <1>5 DEF CheckTimeout
<1>6. CASE TimeoutReturns
  BY <1>6 DEF TimeoutReturns
<1>7. CASE Tick
  BY <1>7 DEF Tick
<1>8. CASE UNCHANGED vars
  BY <1>8 DEF vars
<1>9. QED
  BY <1>1, <1>2, <1>3, <1>4, <1>5, <1>6, <1>7, <1>8 DEF Next

(* In debug mode no task ever times out: "This will never start the timer"  *)
(* (TaskBoard.cpp, startWork()).                                            *)
THEOREM DebugNeverTimesOut ==
    Spec => [](Debug => \A h \in Handler : fate[h] # "timedout")
<1>1. DebugInv => (Debug => \A h \in Handler : fate[h] # "timedout")
  BY DEF DebugInv
<1>2. Spec => []DebugInv
  BY DebugInit, DebugNext, BoardInvariant, PTL DEF Spec
<1>3. QED
  BY <1>1, <1>2, PTL

-----------------------------------------------------------------------------
(* TaskTimeoutHandler::doing() is the contract's Execute.                   *)
LEMMA DoingExecutes ==
    ASSUME BoardInv, NEW h \in Handler, NEW S, IsFirst(h, S),
           NEW e, NEW from, S = Matching(e, from), Doing(h)
    PROVE  Contract!Execute(h)
<1>1. fate[h] = "pending"
  BY DEF IsFirst, Matching, BoardInv, PendingIsListed, Undone
<1>2. QED
  BY <1>1 DEF Doing, Ran, Contract!Execute, BoardInv, TypeOK

(* A stretch of checkTimeout() is the contract's Timeout, or invisible.     *)
LEMMA SweepTimesOut ==
    ASSUME BoardInv, NEW from, NEW t, NEW min, Sweep(from, t, min)
    PROVE  UNCHANGED fate \/ \E h \in Handler : Contract!Timeout(h)
<1>1. CASE UNCHANGED fate
  BY <1>1
<1>2. CASE \E h \in Handler : IsFirst(h, Expired(from, t)) /\ fate' = Ran(h, "timedout")
  <2>1. PICK h \in Handler : IsFirst(h, Expired(from, t)) /\ fate' = Ran(h, "timedout")
    BY <1>2
  <2>2. fate[h] = "pending"
    BY <2>1 DEF IsFirst, Expired, BoardInv, PendingIsListed, Undone
  <2>3. Contract!Timeout(h)
    BY <2>1, <2>2 DEF Ran, Contract!Timeout, BoardInv, TypeOK
  <2>4. QED
    BY <2>3
<1>3. QED
  BY <1>1, <1>2 DEF Sweep

LEMMA StepKeepsContract == BoardInv /\ [Next]_vars => [Contract!Next]_fate
<1> SUFFICES ASSUME BoardInv, [Next]_vars PROVE Contract!Next \/ UNCHANGED fate
  OBVIOUS
<1>1. ASSUME NEW l \in Label, NEW limit \in Limits, CommitTask(l, limit) PROVE Contract!Next
  <2>1. committed + 1 \in Handler /\ fate[committed + 1] = "none"
    BY <1>1 DEF CommitTask, BoardInv, TypeOK
  <2>2. Contract!Commit(committed + 1)
    BY <1>1, <2>1 DEF CommitTask, Contract!Commit
  <2>3. QED
    BY <2>1, <2>2 DEF Contract!Next
<1>2. ASSUME NEW e \in Label, NEW type \in LabelType, EventTrigger(e, type) PROVE Contract!Next
  <2>1. PICK h \in Handler : IsFirst(h, Matching(e, 0)) /\ Doing(h)
    BY <1>2 DEF EventTrigger
  <2>2. Contract!Execute(h)
    BY <2>1, DoingExecutes
  <2>3. QED
    BY <2>2 DEF Contract!Next
<1>3. CASE ExecuteReturns
  <2>1. CASE UNCHANGED fate
    BY <2>1
  <2>2. CASE \E h \in Handler :
               IsFirst(h, Matching(Innermost.event, Innermost.at)) /\ Doing(h)
    <3>1. PICK h \in Handler :
             IsFirst(h, Matching(Innermost.event, Innermost.at)) /\ Doing(h)
      BY <2>2
    <3>2. Contract!Execute(h)
      BY <3>1, DoingExecutes
    <3>3. QED
      BY <3>2 DEF Contract!Next
  <2>3. QED
    BY <1>3, <2>1, <2>2 DEF ExecuteReturns
<1>4. ASSUME NEW e \in Label, RemoveTask(e) PROVE Contract!Next
  <2> DEFINE S == {h \in mTasklist : label[h] = e /\ fate[h] = "pending"}
  <2>1. S \in SUBSET Handler
    <3>1. \A h \in mTasklist : h \in Handler
      BY DEF BoardInv, TypeOK
    <3>2. QED
      BY <3>1
  <2>2. Contract!Cancel(S)
    BY <1>4 DEF RemoveTask, Contract!Cancel
  <2>3. QED
    BY <2>1, <2>2 DEF Contract!Next
<1>5. CASE CheckTimeout
  BY <1>5, SweepTimesOut DEF CheckTimeout, Contract!Next
<1>6. CASE TimeoutReturns
  BY <1>6, SweepTimesOut DEF TimeoutReturns, Contract!Next
<1>7. CASE Tick
  BY <1>7 DEF Tick
<1>8. CASE UNCHANGED vars
  BY <1>8 DEF vars
<1>9. QED
  BY <1>1, <1>2, <1>3, <1>4, <1>5, <1>6, <1>7, <1>8 DEF Next

(* The board implements TaskContract: each committed task runs one of its   *)
(* callbacks once, or is cancelled by removeTask() before (TaskBoard.h,     *)
(* "The task is expected to be executed only once").                        *)
THEOREM BoardKeepsContract == Spec => KeepsContract
<1>1. Init => Contract!Init
  BY DEF Init, Contract!Init
<1>2. QED
  BY <1>1, StepKeepsContract, BoardInvariant, PTL DEF Spec, KeepsContract, Contract!Spec

=============================================================================

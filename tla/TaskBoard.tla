------------------------------ MODULE TaskBoard ------------------------------
(***************************************************************************)
(* The task board of the server (server/TaskBoard.cpp): the list of tasks  *)
(* that wait for an event, each with a deadline, and the one timer that    *)
(* finds the expired ones.                                                 *)
(*                                                                         *)
(* The board is re-entrant.  eventTrigger() and checkTimeout() iterate     *)
(* over the list and call back into the tasks, and a callback commits new  *)
(* tasks and triggers other events before the iteration goes on.  The      *)
(* state therefore keeps the iterations in progress: `sweep' is the one    *)
(* checkTimeout() that may be running, `triggers' the eventTrigger() calls *)
(* nested on top of it.  Between two steps of the model some callback      *)
(* runs, or, when Idle, the event loop waits.                              *)
(*                                                                         *)
(* Handlers are numbered in the order of their commits.  The list only     *)
(* grows at its back, so it is the set of the numbers it holds and its     *)
(* order is the order of the numbers.  `fate' is a history variable.       *)
(***************************************************************************)
EXTENDS Naturals, Sequences

CONSTANTS
    Label,          \* the labels of tasks and events (id and token or pid)
    Limits,         \* time limits tasks are committed with
    MinCheckout,    \* MIN_CHECKOUT_TIME, in ticks
    Debug,          \* setDebugMode()
    MaxCommits,     \* bound: commits in a behaviour
    MaxTime,        \* bound: the last deadline
    MaxDepth        \* bound: nested eventTrigger() calls

ASSUME LabelAssumption == Label # {}
ASSUME LimitsAssumption == Limits \subseteq Nat
ASSUME MinCheckoutAssumption == MinCheckout \in Nat \ {0}
ASSUME DebugAssumption == Debug \in BOOLEAN
ASSUME BoundsAssumption == /\ MaxCommits \in Nat
                           /\ MaxTime \in Nat
                           /\ MaxDepth \in Nat

VARIABLES
    now,            \* clock_ms()
    committed,      \* number of commits so far
    mTasklist,      \* handlers on the list
    label,          \* the label of each handler's task
    mExpectTime,    \* the deadline of each handler
    mIsDone,        \* execute() or timeout() of the handler was called
    mNextCheckTime, \* when the next checkTimeout() is due, as the board believes
    mTimer,         \* the libuv timer: armed or not, and when it fires
    sweep,          \* the running checkTimeout(): its clock, its minimum, its iterator
    triggers,       \* the running eventTrigger() calls, innermost last
    fate            \* history: what became of each commit

handlerVars == <<committed, label, mExpectTime>>
timerVars == <<mNextCheckTime, mTimer>>
vars == <<now, handlerVars, mTasklist, mIsDone, timerVars, sweep, triggers, fate>>

Handler == 1..MaxCommits

\* The clock runs on after the last deadline until the list can be cleaned.
Horizon == MaxTime + 2 * MinCheckout

\* ULLONG_MAX: later than any time a check can be due.
Never == Horizon + MinCheckout + 1

LabelType == {"ONCE_TRIGGER", "MULTI_TRIGGER"}
Frame == [event : Label, type : LabelType, at : Handler]
NoSweep == [on |-> FALSE, now |-> 0, min |-> 0, at |-> 0]

TypeOK ==
    /\ now \in 0..Horizon
    /\ committed \in 0..MaxCommits
    /\ mTasklist \subseteq 1..committed
    /\ label \in [Handler -> Label]
    /\ mExpectTime \in [Handler -> Nat]
    /\ mIsDone \in [Handler -> BOOLEAN]
    /\ mNextCheckTime \in 0..Never
    /\ mTimer \in [armed : BOOLEAN, at : Nat]
    /\ sweep \in [on : BOOLEAN, now : Nat, min : Nat, at : 0..MaxCommits]
    /\ triggers \in Seq(Frame)
    /\ fate \in [Handler -> {"none", "pending", "executed", "timedout", "cancelled", "again"}]

Smaller(a, b) == IF a < b THEN a ELSE b
IsFirst(x, S) == x \in S /\ \A y \in S : x <= y

-----------------------------------------------------------------------------
(* startWork(): in debug mode the timer is not even initialised and         *)
(* mNextCheckTime = 0 keeps commitTask() from starting it.                  *)
StartTime == IF Debug THEN 0 ELSE Never

Init ==
    /\ now = 0
    /\ committed = 0
    /\ mTasklist = {}
    /\ label = [h \in Handler |-> CHOOSE l \in Label : TRUE]
    /\ mExpectTime = [h \in Handler |-> 0]
    /\ mIsDone = [h \in Handler |-> FALSE]
    /\ mNextCheckTime = StartTime
    /\ mTimer = [armed |-> FALSE, at |-> 0]
    /\ sweep = NoSweep
    /\ triggers = <<>>
    /\ fate = [h \in Handler |-> "none"]

Idle == ~sweep.on /\ triggers = <<>>

Undone(h) == h \in mTasklist /\ ~mIsDone[h]

\* What a second call of a task's callback would leave in the history.
Ran(h, how) == [fate EXCEPT ![h] = IF @ = "pending" THEN how ELSE "again"]

-----------------------------------------------------------------------------
(* commitTask(): called by a request handler of the server or by a callback *)
(* of another task.                                                         *)
\* (Faulty: only the first commit starts the timer.)
StartsTimerOnce(expect) == mNextCheckTime = Never

StartsTimer(expect) == mNextCheckTime > expect
CommitDelay(limit) == Smaller(limit, MinCheckout)

CommitTask(l, limit) ==
    LET h == committed + 1
        expect == now + limit
    IN /\ committed < MaxCommits
       /\ expect <= MaxTime
       /\ committed' = h
       /\ label' = [label EXCEPT ![h] = l]
       /\ mExpectTime' = [mExpectTime EXCEPT ![h] = expect]
       /\ mTasklist' = mTasklist \cup {h}
       /\ IF StartsTimer(expect)
          THEN /\ mNextCheckTime' = expect
               /\ mTimer' = [armed |-> TRUE, at |-> now + CommitDelay(limit)]
          ELSE UNCHANGED timerVars
       /\ fate' = [fate EXCEPT ![h] = "pending"]
       /\ UNCHANGED <<now, mIsDone, sweep, triggers>>

-----------------------------------------------------------------------------
(* eventTrigger(): the first task behind the iterator that waits for e.     *)
Matching(e, from) ==
    {h \in mTasklist : h > from /\ ~mIsDone[h] /\ label[h] = e}

\* (Faulty: doing() forgets that it was done.)
DoingForgets(h) ==
    /\ fate' = Ran(h, "executed")
    /\ UNCHANGED mIsDone

\* TaskTimeoutHandler::doing(): done first, then the callback.
Doing(h) ==
    /\ mIsDone' = [mIsDone EXCEPT ![h] = TRUE]
    /\ fate' = Ran(h, "executed")

EventTrigger(e, type) ==
    /\ Len(triggers) < MaxDepth
    /\ \E h \in Handler :
          /\ IsFirst(h, Matching(e, 0))
          /\ Doing(h)
          /\ triggers' = Append(triggers, [event |-> e, type |-> type, at |-> h])
    /\ UNCHANGED <<now, handlerVars, mTasklist, timerVars, sweep>>

Innermost == triggers[Len(triggers)]
Outer == SubSeq(triggers, 1, Len(triggers) - 1)

\* The iteration ends behind a ONCE_TRIGGER event's task, or at the list's end.
TriggerIsOver(f) == f.type = "ONCE_TRIGGER" \/ Matching(f.event, f.at) = {}

\* The execute() the innermost eventTrigger() called returns.
ExecuteReturns ==
    /\ triggers # <<>>
    /\ \/ /\ TriggerIsOver(Innermost)
          /\ triggers' = Outer
          /\ UNCHANGED <<mIsDone, fate>>
       \/ /\ ~TriggerIsOver(Innermost)
          /\ \E h \in Handler :
                /\ IsFirst(h, Matching(Innermost.event, Innermost.at))
                /\ Doing(h)
                /\ triggers' = Append(Outer, [Innermost EXCEPT !.at = h])
    /\ UNCHANGED <<now, handlerVars, mTasklist, timerVars, sweep>>

-----------------------------------------------------------------------------
(* removeTask(): called by reportActivityStatus() after its eventTrigger()  *)
(* calls have returned, never from a callback.                              *)
RemoveTask(e) ==
    LET gone == {h \in mTasklist : label[h] = e}
    IN /\ Idle
       /\ gone # {}
       /\ mTasklist' = mTasklist \ gone
       /\ fate' = [h \in Handler |->
                     IF h \in gone /\ fate[h] = "pending" THEN "cancelled" ELSE fate[h]]
       /\ UNCHANGED <<now, handlerVars, mIsDone, timerVars, sweep, triggers>>

-----------------------------------------------------------------------------
(* checkTimeout(): `t' is the clock it read when it began, `min' the        *)
(* earliest time for the next check it has found so far, and `from' its     *)
(* iterator.  It erases the done handlers it passes, and stops at the next  *)
(* expired one to call its timeout(), or at the end to restart the timer.   *)

Expired(from, t) == {h \in mTasklist : h > from /\ ~mIsDone[h] /\ t >= mExpectTime[h]}

Passed(from, t) ==
    {h \in mTasklist : h > from /\ \A x \in Expired(from, t) : h < x}

\* (Faulty: done handlers stay on the list.)
ErasedNone(from, t) == {}

Erased(from, t) == {h \in Passed(from, t) : mIsDone[h]}

\* nextMinTime is the least of these.
CheckTimes(from, t, min) ==
    {min} \cup {mExpectTime[h] : h \in Passed(from, t) \ Erased(from, t)}

\* A timer that has fired is no longer armed, unless a callback armed it again.
FiredTimer == [mTimer EXCEPT !.armed = @ /\ sweep.on]

\* (Faulty: the timer is not restarted; mNextCheckTime is added to instead of
\* set.)
RestartNever(list, min) ==
    /\ mTimer' = FiredTimer
    /\ mNextCheckTime' = IF list = {} THEN Never ELSE min

\* What checkTimeout() does behind its loop.
RestartTimer(list, min) ==
    IF list # {}
    THEN /\ mTimer' = [armed |-> TRUE, at |-> min]
         /\ mNextCheckTime' = min
    ELSE /\ mNextCheckTime' = Never
         /\ mTimer' = FiredTimer

Sweep(from, t, min) ==
    /\ mTasklist' = mTasklist \ Erased(from, t)
    /\ \E next \in CheckTimes(from, t, min) :
         /\ IsFirst(next, CheckTimes(from, t, min))
         /\ \/ \E h \in Handler :
                 /\ IsFirst(h, Expired(from, t))
                 /\ mIsDone' = [mIsDone EXCEPT ![h] = TRUE]
                 /\ fate' = Ran(h, "timedout")
                 /\ sweep' = [on |-> TRUE, now |-> t, min |-> next, at |-> h]
                 /\ mTimer' = FiredTimer
                 /\ UNCHANGED mNextCheckTime
            \/ /\ Expired(from, t) = {}
               /\ RestartTimer(mTasklist', next)
               /\ sweep' = NoSweep
               /\ UNCHANGED <<mIsDone, fate>>
    /\ UNCHANGED <<now, handlerVars, triggers>>

\* The one-shot timer fires, from the event loop.
CheckTimeout ==
    /\ Idle
    /\ mTimer.armed
    /\ now >= mTimer.at
    /\ Sweep(0, now, now + MinCheckout)

\* The timeout() the running checkTimeout() called returns.
TimeoutReturns ==
    /\ sweep.on
    /\ triggers = <<>>
    /\ Sweep(sweep.at, sweep.now, sweep.min)

-----------------------------------------------------------------------------
(* External: the monotonic clock.  Behind MaxTime it only waits for the     *)
(* timer, so that the last checks still find their time below Horizon.      *)
TimerIsNext == Idle /\ mTimer.armed /\ now < mTimer.at

Tick ==
    /\ now < Horizon
    /\ now < MaxTime \/ TimerIsNext
    /\ now' = now + 1
    /\ UNCHANGED <<handlerVars, mTasklist, mIsDone, timerVars, sweep, triggers, fate>>

Next ==
    \/ \E l \in Label, limit \in Limits : CommitTask(l, limit)
    \/ \E e \in Label, type \in LabelType : EventTrigger(e, type)
    \/ ExecuteReturns
    \/ \E e \in Label : RemoveTask(e)
    \/ CheckTimeout
    \/ TimeoutReturns
    \/ Tick

Spec == Init /\ [][Next]_vars

(* The event loop runs its due timer, callbacks return, time passes.        *)
Fairness ==
    /\ WF_vars(CheckTimeout)
    /\ WF_vars(TimeoutReturns)
    /\ WF_vars(ExecuteReturns)
    /\ WF_vars(Tick)

FairSpec == Spec /\ Fairness
-----------------------------------------------------------------------------
(* Whatever the callbacks did meanwhile, once no checkTimeout() is running  *)
(* the timer is armed to fire no later than the deadline of every task that *)
(* still waits (checkTimeout()'s restart and commitTask()'s early start).   *)
TimerCovers ==
    ~sweep.on /\ ~Debug =>
        \A h \in mTasklist : ~mIsDone[h] => mTimer.armed /\ mTimer.at <= mExpectTime[h]

(* A task is pending exactly while it is on the list and not done: neither  *)
(* an erase nor an iteration cut short by a nested call ever loses one.     *)
PendingIsListed == \A h \in Handler : fate[h] = "pending" <=> Undone(h)

(* The bookkeeping behind TimerCovers, which says why it survives           *)
(* re-entrancy: mNextCheckTime never lies behind an armed timer, a board    *)
(* with tasks has an armed timer, and a running checkTimeout() has accounted *)
(* for the deadline of every waiting task up to its iterator.               *)
TimerBookkeeping ==
    /\ mTimer.armed => mTimer.at <= mNextCheckTime
    /\ ~sweep.on => /\ mTimer.armed \/ (mTasklist = {} /\ mNextCheckTime = Never)
                    /\ \A h \in Handler : Undone(h) => mNextCheckTime <= mExpectTime[h]
    /\ sweep.on => \A h \in Handler :
                       Undone(h) /\ h <= sweep.at => sweep.min <= mExpectTime[h]

(* The inductive invariant of the board.                                    *)
BoardInv ==
    /\ TypeOK
    /\ \A h \in Handler : h <= committed => mExpectTime[h] <= MaxTime
    /\ \A h \in Handler : h > committed => fate[h] = "none" /\ ~mIsDone[h]
    /\ sweep.on => sweep.at <= committed /\ sweep.min <= Horizon + MinCheckout
    /\ \A h \in Handler : fate[h] # "again"
    /\ PendingIsListed
    /\ ~Debug => TimerBookkeeping

(* The board keeps the promise of TaskContract: one callback, once.         *)
Contract == INSTANCE TaskContract WITH Handler <- Handler, fate <- fate
KeepsContract == Contract!Spec

(* Every committed task is executed, timed out or cancelled in the end.     *)
EveryTaskSettles == \A h \in Handler : fate[h] = "pending" ~> fate[h] # "pending"

(* A handler that is done leaves the list in the end.                       *)
DoneIsErased == \A h \in Handler : (h \in mTasklist /\ mIsDone[h]) ~> h \notin mTasklist
=============================================================================

--------------------------- MODULE TaskStackManager ---------------------------
(* The task manager of the standard mode (server/TaskStackManager.cpp): its  *)
(* list of tasks, the front one first, of which the top activity is shown,   *)
(* and the home task that stands for nothing to be shown.                    *)
EXTENDS ActivityHeap

Active(w) == IF w.mAllTasks = <<>> THEN 0 ELSE Head(w.mAllTasks)
\* (Faulty: only the top activity counts.)
StackForegroundTop(w, t, isForeground) ==
    IF Top(w, t) = 0 THEN w ELSE SetForeground(w, Top(w, t), isForeground)

StackForeground(w, t, isForeground) ==
    FoldLeft(LAMBDA v, x : SetForeground(v, x, isForeground), w, w.stack[t])

\* The loop that destroys what is on top of x, from the top: all, if x is not there.
PopAbove(w, t, x) ==
    LET place == Place(w.stack[t], x)
        above == Reverse(SubSeq(w.stack[t], place + 1, Len(w.stack[t])))
        leave(v, y) == IF t = Active(w) THEN ChangeForeground(v, y, FALSE) ELSE v
    IN [FoldLeft(LAMBDA v, y : leave(LifecycleTransition(v, y, DESTROYED), y), w, above)
            EXCEPT !.stack[t] = SubSeq(@, 1, place)]

\* (Faulty: the loop stops in front of x.)
PopBehind(w, t, x) == IF Contains(w.stack[t], x) THEN PopAbove(w, t, x) ELSE w

\* deleteActivity() does not touch the foreground count.
PopThrough(w, t, x) ==
    LET from == Place(w.stack[t], x)
        gone == Reverse(SubSeq(w.stack[t], from, Len(w.stack[t])))
    IN IF ~Contains(w.stack[t], x) THEN w
       ELSE [FoldLeft(LAMBDA v, y : LifecycleTransition(v, y, DESTROYED), w, gone)
                EXCEPT !.stack[t] = SubSeq(@, 1, from - 1)]

\* (Faulty: an empty task stays on the list.)
KeepTask(w, t) == w

DeleteTask(w, t) == [w EXCEPT !.mAllTasks = Without(@, t)]

PushTaskToFront(w, t) ==
    LET active == Active(w)
        left == IF active = 0 THEN w ELSE StackForeground(w, active, FALSE)
    IN IF t = active THEN w
       ELSE StackForeground([DeleteTask(left, t) EXCEPT !.mAllTasks = <<t>> \o @], t, TRUE)

\* x is resumed, and an ActivityWaitResume stops y when it is.
ResumeFor(w, x, y) ==
    LET waited(v) == IF y = 0 THEN v ELSE Commit(v, "WAIT_RESUME", x, y)
    IN waited(LifecycleTransition(w, x, RESUMED))

SwitchTaskToActive(w, t) ==
    LET current == Top(w, Active(w))
        next == Top(w, t)
        turned(v) == IF next = 0 THEN DeleteTask(v, t)
                     ELSE PushTaskToFront(ResumeFor(v, next, current), t)
    IN IF t = Active(w) THEN w ELSE turned(LifecycleTransition(w, current, PAUSED))

\* (Faulty: the task is not taken from its old place.)
BehindHomeTwice(list, home, t, wasActive) ==
    IF Contains(list, home) THEN InsertAt(list, Place(list, home) + 1, t) ELSE list

\* The task is put behind the home task if it is in front of it.
BehindHome(list, home, t, wasActive) ==
    LET rest == Without(list, t)
        infront == wasActive \/ Place(list, t) \in 1..Place(list, home)
    IN IF ~Contains(list, home) THEN rest
       ELSE IF infront THEN InsertAt(rest, Place(rest, home) + 1, t)
       ELSE list

LeaveActive(w) ==
    LET t == Active(w)
        top == Top(w, t)
        popped(v) == [StackForeground(v, t, FALSE) EXCEPT !.mAllTasks = Tail(@)]
        resumed(v, next) == IF next = 0 THEN v ELSE ResumeFor(v, next, top)
        shown(v, u) == IF u = 0 THEN v ELSE StackForeground(resumed(v, Top(v, u)), u, TRUE)
        show(v) == shown(v, Active(v))
    IN show(popped(LifecycleTransition(w, top, PAUSED)))

MoveTaskToBackground(w, t) ==
    LET left == IF t = Active(w) THEN LeaveActive(w) ELSE w
    IN IF t = w.mHomeTask THEN w
       ELSE [left EXCEPT !.mAllTasks = BehindHome(@, w.mHomeTask, t, t = Active(w))]

PushNewActivity(w, t, x, clearTask) ==
    LET active == Active(w)
        paused == IF active = 0 THEN [w EXCEPT !.mHomeTask = t]
                  ELSE LifecycleTransition(w, Top(w, active), PAUSED)
        cleared(v) == IF clearTask THEN PopAbove(v, t, 0) ELSE v
        pushed(v) == [v EXCEPT !.stack[t] = Append(@, x)]
        shown(v) == IF t = active THEN SetForeground(v, x, TRUE) ELSE v
    IN IF t = 0 THEN Undefined(w)
       ELSE PushTaskToFront(ResumeFor(shown(pushed(cleared(paused))), x, Top(w, active)), t)

TurnToActivity(w, t, x, clearTop) ==
    LET active == Active(w)
        last == Top(w, active)
        paused == IF last = 0 THEN w ELSE LifecycleTransition(w, last, PAUSED)
        cleared(v) == IF clearTop THEN PopAbove(v, t, x) ELSE v
        waiting == IF t = active THEN 0 ELSE last
    IN IF last = x
       THEN LifecycleTransition([w EXCEPT !.act[x].mStatus = PAUSED], x, RESUMED)
       ELSE PushTaskToFront(ResumeFor(cleared(paused), x, waiting), t)

\* finishActivity() of the last activity of the active task.
LeaveEmptyTask(w, t) ==
    LET homed(v) == IF t = w.mHomeTask THEN [v EXCEPT !.mHomeTask = Active(v)] ELSE v
        shown(v) == IF Active(v) = 0 THEN v ELSE StackForeground(v, Active(v), TRUE)
    IN shown(homed([w EXCEPT !.mAllTasks = Tail(@)]))

FinishActivity(w, x) ==
    LET t == TaskOf(w, x)
        popped(v) == [v EXCEPT !.stack[t] = Front(@)]
        left(v) == IF v.stack[t] = <<>> THEN LeaveEmptyTask(v, t) ELSE v
        replaced(v, next) ==
            IF next = 0 THEN LifecycleTransition(v, x, DESTROYED)
            ELSE Commit(LifecycleTransition(LifecycleTransition(v, x, PAUSED), next, RESUMED),
                        "DELAY_DESTROY", next, x)
        replace(v) == replaced(v, Top(v, Active(v)))
        unlisted(v) == IF v.stack[t] = <<>> THEN DeleteTask(v, t) ELSE v
        finish(v) == IF v.stack[t] = <<>> THEN Undefined(v)
                     ELSE IF t = Active(w) THEN replace(left(ChangeForeground(popped(v), x, FALSE)))
                     ELSE unlisted(LifecycleTransition(popped(v), x, DESTROYED))
    IN IF t = 0 THEN w ELSE finish(PopAbove(w, t, x))

DeleteActivity(w, x) ==
    LET t == TaskOf(w, x)
        listed(v) == IF v.stack[t] = <<>> THEN DeleteTask(v, t) ELSE v
        resumed(v, next) == IF t = Active(w) /\ next # 0
                            THEN LifecycleTransition(v, next, RESUMED) ELSE v
        resume(v) == resumed(v, Top(v, Active(v)))
        homed(v) == IF t = w.mHomeTask /\ v.stack[t] = <<>>
                    THEN [v EXCEPT !.mHomeTask = Active(v)] ELSE v
    IN IF t = 0 THEN w ELSE homed(resume(listed(PopThrough(w, t, x))))

FindTask(w, tag) == FindIn(w, w.mAllTasks, tag)
=============================================================================

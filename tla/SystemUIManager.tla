---------------------------- MODULE SystemUIManager ----------------------------
(***************************************************************************)
(* The task manager of the system UI (server/SystemUIManager.cpp): bars    *)
(* and panels over the applications.  It has no order and no front task:   *)
(* each of its activities is resumed when it is asked for, and all of them *)
(* are stopped when an application is started (onEvent(), which            *)
(* ActivityManagerService calls).                                          *)
(***************************************************************************)
EXTENDS ActivityHeap

\* lifecycleTransition() and setForeground() through an unchecked getAppRecord().
UiChange(w, x, toStatus) ==
    ChangeForeground(LifecycleTransition(w, x, toStatus), x, toStatus = RESUMED)

UiChangeTask(w, t, toStatus) ==
    FoldLeft(LAMBDA v, x : UiChange(v, x, toStatus), w, w.stack[t])

UiFindTask(w, tag) == FindIn(w, w.mSystemUITasks, tag)

\* getActiveTask(): the first task with a resumed activity.
UiActive(w) ==
    LET resumed(t) == \E i \in DOMAIN w.stack[t] : w.act[w.stack[t][i]].mStatus = RESUMED
        active == SelectInSeq(w.mSystemUITasks, resumed)
    IN IF active = 0 THEN 0 ELSE w.mSystemUITasks[active]

UiSwitchTaskToActive(w, t) == UiChangeTask(w, t, RESUMED)

UiMoveTaskToBackground(w, t) == UiChangeTask(w, t, STOPPED)

\* A task whose tag is listed already is not: it lives as long as this call.
UiPushNewActivity(w, t, x) ==
    LET pushed == [UiChange(w, x, RESUMED) EXCEPT !.stack[t] = Append(@, x)]
    IN IF t = 0 THEN Undefined(w)
       ELSE IF UiFindTask(pushed, w.tag[t]) # 0 THEN pushed
       ELSE [pushed EXCEPT !.mSystemUITasks = <<t>> \o @]

UiTurnToActivity(w, x) == UiChange(w, x, RESUMED)

\* The activity stays on its task until it is destroyed.
UiFinishActivity(w, x) == UiChange(w, x, DESTROYED)

\* (Faulty: the activity stays on its task.)
UiDeleteNothing(w, x) == w

UiDeleteActivity(w, x) ==
    LET t == TaskOf(w, x)
        removed == [w EXCEPT !.stack[t] = SwappedOut(@, x)]
    IN IF t = 0 THEN w
       ELSE IF removed.stack[t] # <<>> THEN removed
       ELSE [removed EXCEPT !.mSystemUITasks = Without(@, t)]

\* An application is started, or switched to.
UiOnStartActivity(w) ==
    FoldLeft(LAMBDA v, t : UiChangeTask(v, t, STOPPED), w, w.mSystemUITasks)
=============================================================================

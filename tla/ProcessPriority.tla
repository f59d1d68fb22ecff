---------------------------- MODULE ProcessPriority ----------------------------
(***************************************************************************)
(* The priorities of the processes (server/ProcessPriorityPolicy.cpp) and  *)
(* the low memory killer they are for (server/LowMemoryManager.cpp), with  *)
(* the calls of ActivityManagerService.cpp and AppRecord.cpp that drive    *)
(* them: a process attaches for an activity or a service, its first        *)
(* activity is shown, its last one hidden, memory runs low, it ends.       *)
(*                                                                         *)
(* `list' is the doubly linked list of PidPriorityInfo with its head, tail *)
(* and mBackgroundPos; its methods are operators from list to list.  A     *)
(* write through a null pointer is undefined: `list.undefined' is set.     *)
(***************************************************************************)
EXTENDS Integers, FiniteSets, SequencesExt

CONSTANTS
    Pid,            \* the processes
    Null,           \* the null pointer
    Level,          \* function: the priority a package's manifest gives
    ServiceLevel,   \* function: the priority of the services of those that have any
    Cfg,            \* the lines of lmk.cfg: free memory, largest block, score
    Arena,          \* the memory of the system
    Memory          \* what is reported of it: free memory and largest block

ASSUME PidAssumption == IsFiniteSet(Pid)
ASSUME NullAssumption == Null \notin Pid
ASSUME CfgAssumption == Cfg \in Seq(Int \X Int \X Int) /\ Memory \subseteq Nat \X Nat
\* The int of init() holds Arena * 4.
ASSUME ArenaAssumption == Arena \in 0..536870911

(* os::pm::ProcessPriority, and the scores of ProcessPriorityPolicy.h.      *)
LOW == 0
MIDDLE == 1
HIGH == 2
PERSISTENT == 3

ASSUME LevelAssumption ==
    /\ Level \in [Pid -> LOW..PERSISTENT]
    /\ DOMAIN ServiceLevel \subseteq Pid
    /\ \A p \in DOMAIN ServiceLevel : ServiceLevel[p] \in LOW..PERSISTENT

OS_PERSISTENT_PROC_ADJ == -100
OS_FOREGROUND_APP_ADJ == 0
OS_SYSTEM_HOME_APP_ADJ == 1
OS_HIGH_LEVEL_MIN_ADJ == 10
OS_MIDDLE_LEVEL_MIN_ADJ == 100
OS_LOW_LEVEL_MIN_ADJ == 700

VARIABLES
    list,           \* the nodes and mHead, mTail, mBackgroundPos
    info,           \* priorityLevel and oomScore of each node
    mPidOomScore,   \* the killer's scores: a function of the monitored pids
    app,            \* the status of the process's AppRecord
    shown,          \* the processes with a foreground count above 0
    front           \* the one of them that came to the front last, if it is still there

vars == <<list, info, mPidOomScore, app, shown, front>>

Pointer == Pid \union {Null}

TypeOK ==
    /\ list \in [mHead : Pointer, mTail : Pointer, mBackgroundPos : Pointer,
                 next : [Pid -> Pointer], last : [Pid -> Pointer], undefined : BOOLEAN]
    /\ info \in [Pid -> [priorityLevel : LOW..PERSISTENT, oomScore : Int]]
    /\ DOMAIN mPidOomScore \subseteq {p \in Pid : app[p] # "NONE"}
    /\ \A p \in DOMAIN mPidOomScore : mPidOomScore[p] \in Int
    /\ app \in [Pid -> {"NONE", "RUNNING", "STOPPING"}]
    /\ shown \subseteq {p \in Pid : app[p] # "NONE"}
    /\ front \in shown \union {Null}

NoInfo == [priorityLevel |-> LOW, oomScore |-> 0]

Init ==
    /\ list = [mHead |-> Null, mTail |-> Null, mBackgroundPos |-> Null,
               next |-> [p \in Pid |-> Null], last |-> [p \in Pid |-> Null],
               undefined |-> FALSE]
    /\ info = [p \in Pid |-> NoInfo]
    /\ mPidOomScore = [p \in {} |-> 0]
    /\ app = [p \in Pid |-> "NONE"]
    /\ shown = {}
    /\ front = Null

-----------------------------------------------------------------------------
(* The list.                                                               *)

(* The nodes from mHead on; a list that does not end is cut off one node   *)
(* after it has visited as many as there are processes.                    *)
Walk(l) ==
    LET node[i \in 1..(Cardinality(Pid) + 1)] ==
            IF i = 1 THEN l.mHead
            ELSE LET before == node[i - 1]
                 IN IF before = Null THEN Null ELSE l.next[before]
    IN [i \in 1..Cardinality({j \in DOMAIN node : node[j] # Null}) |-> node[i]]

Get(l, p) == p \in ToSet(Walk(l))

(* `if (q) q->next = p', and the same for `last'.                           *)
SetIf(f, q, p) == IF q = Null THEN f ELSE [f EXCEPT ![q] = p]

(* The neighbours of p are linked to each other, where there are any.      *)
Unlink(l, p) == [l EXCEPT !.next = SetIf(@, l.last[p], l.next[p]),
                          !.last = SetIf(@, l.next[p], l.last[p])]

(* p becomes the first node, in front of mHead.                            *)
AtHead(l, p) == [l EXCEPT !.mHead = p,
                          !.next[p] = l.mHead,
                          !.last = SetIf([@ EXCEPT ![p] = Null], l.mHead, p)]

(* p becomes the node in front of mBackgroundPos, or the last one if that  *)
(* is null, and the new mBackgroundPos.                                    *)
AtBackground(l, p) ==
    LET back == l.mBackgroundPos
        before == IF back = Null THEN l.mTail ELSE l.last[back]
    IN [l EXCEPT !.mTail = IF back = Null THEN p ELSE @,
                 !.mBackgroundPos = p,
                 !.next = [SetIf(@, before, p) EXCEPT ![p] = back],
                 !.last = [SetIf(@, back, p) EXCEPT ![p] = before]]

(* The first node of the list, when a node is added in front of it.        *)
HeadBefore(l, p) ==
    LET back == l.mBackgroundPos
    IN IF (back = Null /\ l.mHead = Null) \/ (back # Null /\ l.last[back] = Null)
       THEN p ELSE l.mHead

\* (Faulty: a node in front of the first one is not made the first.)
AddBehind(l, p, isForeground) ==
    IF Get(l, p) THEN l
    ELSE IF isForeground
    THEN [AtHead(l, p) EXCEPT !.mTail = IF @ = Null THEN p ELSE @]
    ELSE [AtBackground(l, p) EXCEPT !.mHead = IF @ = Null THEN p ELSE @]

Add(l, p, isForeground) ==
    IF Get(l, p) THEN l
    ELSE IF isForeground
    THEN [AtHead(l, p) EXCEPT !.mTail = IF @ = Null THEN p ELSE @]
    ELSE [AtBackground(l, p) EXCEPT !.mHead = HeadBefore(l, p)]

\* (Faulty: nobody inherits home's place.)
BackgroundInherited(l, p) ==
    IF l.mBackgroundPos = p THEN l.next[p] ELSE l.mBackgroundPos

BackgroundWithout(l, p) ==
    IF l.mBackgroundPos = p THEN l.next[p]
    ELSE IF l.mBackgroundPos = l.next[p] /\ l.next[p] # Null THEN l.next[l.next[p]]
    ELSE l.mBackgroundPos

\* (Faulty: mBackgroundPos is not asked for.)
RemoveOnly(l, p) ==
    IF ~Get(l, p) THEN l
    ELSE [Unlink(l, p) EXCEPT
            !.mHead = IF @ = p THEN l.next[p] ELSE @,
            !.mTail = IF @ = p THEN l.last[p] ELSE @,
            !.next[p] = Null, !.last[p] = Null]

RemovePid(l, p) ==
    IF ~Get(l, p) THEN l
    ELSE [Unlink(l, p) EXCEPT
            !.mHead = IF @ = p THEN l.next[p] ELSE @,
            !.mTail = IF @ = p THEN l.last[p] ELSE @,
            !.mBackgroundPos = BackgroundWithout(l, p),
            !.next[p] = Null, !.last[p] = Null]         \* deleted

BackgroundAfterPush(l, p) ==
    LET back == IF l.mBackgroundPos # Null /\ p = l.last[l.mBackgroundPos]
                THEN l.mHead ELSE l.mBackgroundPos
    IN IF back = p THEN l.next[p] ELSE back

PushForeground(l, p) ==
    IF ~Get(l, p) THEN l
    ELSE LET out == [Unlink(l, p) EXCEPT !.mTail = IF @ = p /\ l.last[p] # Null
                                                   THEN l.last[p] ELSE @]
         IN [IF l.mHead = p THEN l ELSE AtHead(out, p)
             EXCEPT !.mBackgroundPos = BackgroundAfterPush(l, p)]

(* The node is unlinked and put in front of the background; the writes     *)
(* through mBackgroundPos->last and mTail are not guarded.                 *)
ToBackground(l, p) ==
    LET out == [Unlink(l, p) EXCEPT !.mHead = IF @ = p THEN l.next[p] ELSE @]
        back == out.mBackgroundPos
    IN [AtBackground(out, p) EXCEPT
          !.undefined = @ \/ (IF back = Null THEN out.mTail ELSE out.last[back]) = Null]

\* (Faulty: home is put behind mBackgroundPos like the others.)
IntoBackgroundAlways(l, p) ==
    IF ~Get(l, p) \/ p \in {l.mTail, l.mBackgroundPos} THEN l ELSE ToBackground(l, p)

IntoBackground(l, p) ==
    IF \/ ~Get(l, p)
       \/ p \in {l.mTail, l.mBackgroundPos}
       \/ l.mBackgroundPos # Null /\ l.last[l.mBackgroundPos] = p       \* home
    THEN l
    ELSE ToBackground(l, p)

-----------------------------------------------------------------------------
(* The scores.                                                             *)

BaseScore(level) ==
    CASE level = HIGH -> OS_HIGH_LEVEL_MIN_ADJ
      [] level = MIDDLE -> OS_MIDDLE_LEVEL_MIN_ADJ
      [] level = LOW -> OS_LOW_LEVEL_MIN_ADJ

(* The node at position i of the list is scored as the home application.   *)
HomeScored(order, i) ==
    /\ i > 1
    /\ list.next[order[i]] = list.mBackgroundPos
    /\ info[order[i]].priorityLevel < PERSISTENT

(* How many nodes of its level have been counted when position i comes.    *)
LevelCount(order, i) ==
    Cardinality({j \in 2..(i - 1) : /\ ~HomeScored(order, j)
                                    /\ info[order[j]].priorityLevel = info[order[i]].priorityLevel})

Smaller(a, b) == IF a < b THEN a ELSE b

\* (Faulty: the head keeps a score from its time in the background.)
CalculateUncapped(order, i) ==
    LET node == info[order[i]]
    IN IF i = 1 THEN node.oomScore
       ELSE IF HomeScored(order, i) THEN OS_SYSTEM_HOME_APP_ADJ
       ELSE IF node.priorityLevel = PERSISTENT THEN OS_PERSISTENT_PROC_ADJ
       ELSE BaseScore(node.priorityLevel) + LevelCount(order, i)

CalculateScore(order, i) ==
    LET node == info[order[i]]
    IN IF i = 1 THEN Smaller(node.oomScore, OS_FOREGROUND_APP_ADJ)
       ELSE IF HomeScored(order, i) THEN OS_SYSTEM_HOME_APP_ADJ
       ELSE IF node.priorityLevel = PERSISTENT THEN OS_PERSISTENT_PROC_ADJ
       ELSE BaseScore(node.priorityLevel) + LevelCount(order, i)

(* analyseProcessPriority(): the score of every node on the list ...       *)
Analysed ==
    LET order == Walk(list)
    IN [p \in Pid |-> IF p \in ToSet(order)
                      THEN CalculateScore(order, CHOOSE i \in DOMAIN order : order[i] = p)
                      ELSE info[p].oomScore]

(* ... and what setPidOomScore() is told: the changes.                     *)
\* (Faulty: emplace() alone, which keeps what is there.)
ScoredOnce(oom) ==
    [p \in DOMAIN mPidOomScore \union {q \in Pid : oom[q] # info[q].oomScore} |->
        IF p \in DOMAIN mPidOomScore THEN mPidOomScore[p] ELSE oom[p]]

Scored(oom) ==
    [p \in DOMAIN mPidOomScore \union {q \in Pid : oom[q] # info[q].oomScore} |->
        IF oom[p] # info[p].oomScore THEN oom[p] ELSE mPidOomScore[p]]

SetPidOomScore(p, score) == [q \in DOMAIN mPidOomScore \union {p} |->
                                IF q = p THEN score ELSE mPidOomScore[q]]

CancelMonitorPid(p) == Restrict(mPidOomScore, DOMAIN mPidOomScore \ {p})

-----------------------------------------------------------------------------
(* What drives them.                                                       *)

(* A process attaches: AppAttachTask gives it its node and its first score.*)
Attach(p, level) ==
    /\ app' = [app EXCEPT ![p] = "RUNNING"]
    /\ info' = [info EXCEPT ![p] = [priorityLevel |-> level,
                                    oomScore |-> OS_MIDDLE_LEVEL_MIN_ADJ]]
    /\ mPidOomScore' = SetPidOomScore(p, OS_MIDDLE_LEVEL_MIN_ADJ)

StartService(p) ==
    /\ app[p] = "NONE"
    /\ Attach(p, ServiceLevel[p])
    /\ list' = Add(list, p, FALSE)
    /\ UNCHANGED <<shown, front>>

(* A service of a process that runs may raise the process's priority.      *)
StartServiceIn(p) ==
    /\ app[p] = "RUNNING"
    /\ info[p].priorityLevel < ServiceLevel[p]
    /\ info' = [info EXCEPT ![p].priorityLevel = ServiceLevel[p]]
    /\ UNCHANGED <<list, mPidOomScore, app, shown, front>>

(* AppRecord::setForeground(false) of the processes that leave the front,  *)
(* one after the other.                                                    *)
IntoBackgroundAll(l, gone) ==
    LET hidden[i \in 0..Len(gone)] ==
            IF i = 0 THEN l ELSE IntoBackground(hidden[i - 1], gone[i])
    IN hidden[Len(gone)]

(* The switch from what is shown to p: then setForeground(true) of p.      *)
Switched(l, p, gone) == PushForeground(IntoBackgroundAll(l, gone), p)

(* What may leave at once, in the order of its stacks.                     *)
Gone == UNION {SetToSeqs(S) : S \in SUBSET Pid}

(* p's count becomes 1.  A task takes the place of another one, whose      *)
(* processes leave unless they have activities in front elsewhere; a task  *)
(* of several processes keeps some; the system UI comes to the front       *)
(* beside the application and leaves when the next one is started; and     *)
(* what is shown after a crash is not counted: any of those that are       *)
(* counted may leave, or none.                                             *)
ComesToFront(l, p) ==
    \E gone \in Gone :
        /\ ToSet(gone) \subseteq shown
        /\ list' = Switched(l, p, gone)
        /\ shown' = (shown \ ToSet(gone)) \union {p}
        /\ front' = p

ShowNew(p) ==
    /\ app[p] = "NONE"
    /\ Attach(p, Level[p])
    /\ ComesToFront(Add(list, p, TRUE), p)

Show(p) ==
    /\ app[p] # "NONE" /\ p \notin shown
    /\ ComesToFront(list, p)
    /\ UNCHANGED <<info, mPidOomScore, app>>

(* p is no longer counted in front.                                        *)
LosesFront(p) ==
    /\ shown' = shown \ {p}
    /\ front' = IF front = p THEN Null ELSE front

(* The last activity of p leaves the front, and nothing takes its place or *)
(* what does was in front before.                                          *)
Leave(p) ==
    /\ p \in shown
    /\ LosesFront(p)
    /\ list' = IntoBackground(list, p)
    /\ UNCHANGED <<info, mPidOomScore, app>>

(* SIGCHLD.  The AppRecord is gone with its count.                         *)
Exit(p) ==
    /\ app[p] # "NONE"
    /\ app' = [app EXCEPT ![p] = "NONE"]
    /\ LosesFront(p)
    /\ list' = RemovePid(list, p)
    /\ info' = [info EXCEPT ![p] = NoInfo]
    /\ mPidOomScore' = CancelMonitorPid(p)

MAX_ADJUST_NUM == 5

\* init() without a configuration: 10%, 20% and 40% of the memory.
Warnings ==
    LET free(level) == (Arena * level) \div 10
        row(level, score) == <<free(level), free(level) - 2 * 1024 * 1024, score>>
    IN <<row(1, 10), row(2, 102), row(4, 500)>>

Reached(memory, rows) ==
    {i \in DOMAIN rows : memory[1] <= rows[i][1] \/ memory[2] <= rows[i][2]}

\* The rows that are left of the table are zeros.
OomScoreThreshold ==
    LET rows == IF Cfg = <<>> THEN Warnings ELSE Cfg
    IN [i \in 1..MAX_ADJUST_NUM |-> IF i <= Len(rows) THEN rows[i] ELSE <<0, 0, 0>>]

(* executeLMK(): the processes are scored, and the executor is asked to    *)
(* stop those that reach the threshold of the first row that the memory    *)
(* has fallen to; none of them stays monitored.                            *)
ExecuteLMK(memory) ==
    LET reached == Reached(memory, OomScoreThreshold)
        oom == Analysed
        score == Scored(oom)
        killed == {p \in DOMAIN score : score[p] >= OomScoreThreshold[Min(reached)][3]}
    IN /\ reached # {}
       /\ app' = [p \in Pid |-> IF p \in killed /\ app[p] = "RUNNING" THEN "STOPPING" ELSE app[p]]
       /\ info' = [p \in Pid |-> [info[p] EXCEPT !.oomScore = oom[p]]]
       /\ mPidOomScore' = Restrict(score, DOMAIN score \ killed)
       /\ UNCHANGED <<list, shown, front>>

Next ==
    \/ \E p \in DOMAIN ServiceLevel : StartService(p) \/ StartServiceIn(p)
    \/ \E p \in Pid : ShowNew(p) \/ Show(p) \/ Leave(p) \/ Exit(p)
    \/ \E memory \in Memory : ExecuteLMK(memory)

Spec == Init /\ [][Next]_vars

-----------------------------------------------------------------------------
(* Whatever the order in which processes come, are shown, hidden and end,  *)
(* the list runs from mHead to mTail through every process that has not    *)
(* ended, once, is the same in both directions, and mBackgroundPos is on   *)
(* it or null.                                                             *)
ListIsSound ==
    LET order == Walk(list)
        n == Len(order)
    IN /\ TypeOK
       /\ ToSet(order) = {p \in Pid : app[p] # "NONE"}
       /\ n = Cardinality(ToSet(order))
       /\ \A i \in 1..n : list.last[order[i]] = IF i = 1 THEN Null ELSE order[i - 1]
       /\ list.mTail = IF n = 0 THEN Null ELSE order[n]
       /\ list.mBackgroundPos \in ToSet(order) \union {Null}

(* intoBackground() writes through mTail and mBackgroundPos->last without  *)
(* asking whether they are null: they never are.                           *)
NeverUndefined == ~list.undefined

(* The list implements the order that PriorityOrder describes.             *)
OrderOf(l) ==
    LET order == Walk(l)
        places == {i \in DOMAIN order : order[i] = l.mBackgroundPos}
    IN [order |-> order, place |-> IF places = {} THEN Len(order) + 1 ELSE Min(places)]

Order == INSTANCE PriorityOrder WITH policy <- OrderOf(list)

KeepsOrder == Order!Spec

(* Whatever is shown beside it, hidden, started or ends, the low memory    *)
(* killer never asks the process that came to the front last to end: while *)
(* it is counted in front it stays at the head of the list, which alone is *)
(* scored as foreground.                                                   *)
LastShownIsSpared ==
    [][\A p \in Pid : front = p /\ app[p] = "RUNNING" => app'[p] # "STOPPING"]_vars

(* That is not so of every process in front, not even of the only one: the *)
(* code does not have this property.                                       *)
ForegroundIsSpared ==
    [][\A p \in Pid : shown = {p} /\ app[p] = "RUNNING" => app'[p] # "STOPPING"]_vars

(* The process in front of mBackgroundPos, which is scored as home, keeps  *)
(* that place as long as it lives, whatever is shown, hidden, started or   *)
(* ends, and loses it only by coming to the front when no other process is *)
(* in the background.                                                      *)
AtHomesPlace(p) == app[p] # "NONE" /\ list.next[p] = list.mBackgroundPos

HomeKeepsPlace ==
    [][\A p \in Pid :
          AtHomesPlace(p) /\ app'[p] # "NONE" /\ (\E q \in Pid : app'[q] # "NONE" /\ q \notin shown')
             => AtHomesPlace(p)']_vars

(* A process that has not been asked to end is always within the killer's  *)
(* reach, and at the score its node has.                                   *)
RunningIsMonitored ==
    \A p \in Pid : app[p] = "RUNNING" =>
        p \in DOMAIN mPidOomScore /\ mPidOomScore[p] = info[p].oomScore
=============================================================================

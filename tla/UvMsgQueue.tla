------------------------------ MODULE UvMsgQueue ------------------------------
(***************************************************************************)
(* The message queues of several event loops (include/app/UvLoop.h,        *)
(* UvMsgQueue and UvLoop::postTask), each emptied by the thread of its     *)
(* loop and filled by other threads and by the tasks of other loops.       *)
(*                                                                         *)
(* processMessage() holds the mutex of its queue for as long as it runs    *)
(* the tasks, so a task that posts waits for the thread of another loop,   *)
(* and for ever if that one waits for its own.  A post by a thread that    *)
(* runs no loop holds the mutex only for itself: it is one step.           *)
(*                                                                         *)
(* External: uv_async_send() marks the handle; the loop takes the mark off *)
(* and then runs the callback, once for however many sends there were.     *)
(***************************************************************************)
EXTENDS Naturals, Sequences, FiniteSets

CONSTANTS
    Loop, Task,
    RunsOn,     \* function: the loop a task is posted to
    Posts,      \* function: the task that a task posts, or None
    Stopping,   \* the tasks that stop their loop
    None,       \* no thread, no task
    MaxPosts    \* bound: after as many posts only the loops post

PostsTo == {<<RunsOn[t], RunsOn[Posts[t]]>> : t \in {u \in Task : Posts[u] # None}}

ASSUME TaskAssumption ==
    /\ RunsOn \in [Task -> Loop] /\ Posts \in [Task -> Task \cup {None}]
    /\ Stopping \subseteq Task /\ None \notin Loop \cup Task /\ MaxPosts \in Nat

(* The tasks of the loops do not post to each other in a circle: the code  *)
(* leaves it to its users not to write tasks that do.                      *)
ASSUME NoCircleAssumption ==
    \A S \in SUBSET Loop : S # {} => \E l \in S : \A k \in S : <<l, k>> \notin PostsTo

VARIABLES
    mQueue,     \* per loop, the tasks posted, with the number of the post
    mMutex,     \* the thread that holds the mutex: the loop's own, or None
    sent,       \* the mark of mUvAsync
    closing,    \* mUvAsync is closed and uv_stop() was called
    pc,         \* what the thread of the loop does
    handled,    \* history: the tasks the loop has run
    posted      \* history: all that was posted to it

vars == <<mQueue, mMutex, sent, closing, pc, handled, posted>>

Message == Task \X Nat

TypeOK ==
    /\ mQueue \in [Loop -> Seq(Message)]
    /\ mMutex \in [Loop -> Loop \cup {None}]
    /\ sent \in [Loop -> BOOLEAN] /\ closing \in [Loop -> BOOLEAN]
    /\ pc \in [Loop -> {"poll", "woken", "draining", "returned"}]
    /\ handled \in [Loop -> Seq(Message)] /\ posted \in [Loop -> Seq(Message)]

Init ==
    /\ mQueue = [l \in Loop |-> <<>>] /\ posted = mQueue /\ handled = mQueue
    /\ mMutex = [l \in Loop |-> None]
    /\ sent = [l \in Loop |-> FALSE] /\ closing = sent
    /\ pc = [l \in Loop |-> "poll"]

-----------------------------------------------------------------------------
(* emplace(), with the mutex of the task's loop taken and given back.      *)
Free(t) == mMutex[RunsOn[t]] = None

Enqueued(queues, t) == [queues EXCEPT ![RunsOn[t]] = Append(@, <<t, Len(posted[RunsOn[t]])>>)]

Post(t) ==
    /\ Cardinality(UNION {{l} \X DOMAIN posted[l] : l \in Loop}) < MaxPosts
    /\ Free(t)
    /\ mQueue' = Enqueued(mQueue, t) /\ posted' = Enqueued(posted, t)
    /\ sent' = [sent EXCEPT ![RunsOn[t]] = TRUE]
    /\ UNCHANGED <<mMutex, closing, pc, handled>>

-----------------------------------------------------------------------------
(* The thread of loop l.                                                   *)

Wake(l) ==
    /\ pc[l] = "poll" /\ sent[l] /\ ~closing[l]
    /\ sent' = [sent EXCEPT ![l] = FALSE]
    /\ pc' = [pc EXCEPT ![l] = "woken"]
    /\ UNCHANGED <<mQueue, mMutex, closing, handled, posted>>

\* processMessage().
Lock(l) ==
    /\ pc[l] = "woken" /\ mMutex[l] = None
    /\ mMutex' = [mMutex EXCEPT ![l] = l]
    /\ pc' = [pc EXCEPT ![l] = "draining"]
    /\ UNCHANGED <<mQueue, sent, closing, handled, posted>>

Front(l) == Head(mQueue[l])[1]
Draining(l) == pc[l] = "draining" /\ mQueue[l] # <<>>

\* The task in front posts, and the queue it posts to is in use.
Blocked(l) == Draining(l) /\ Posts[Front(l)] # None /\ ~Free(Posts[Front(l)])

\* (Faulty: a loop that is stopped breaks off before pop().)
PoppedUnlessClosing(l) == IF closing[l] THEN mQueue ELSE [mQueue EXCEPT ![l] = Tail(@)]

Popped(l) == [mQueue EXCEPT ![l] = Tail(@)]

\* handleMessage() and pop(); stop() closes the handle, but the loop over
\* the queue goes on.
HandleMessage(l) ==
    /\ Draining(l)
    /\ LET t == Front(l)
           u == Posts[t]
       IN /\ IF u = None THEN mQueue' = Popped(l) /\ UNCHANGED <<posted, sent>>
             ELSE /\ Free(u)
                  /\ mQueue' = Enqueued(Popped(l), u) /\ posted' = Enqueued(posted, u)
                  /\ sent' = [sent EXCEPT ![RunsOn[u]] = TRUE]
          /\ closing' = [closing EXCEPT ![l] = @ \/ t \in Stopping]
    /\ handled' = [handled EXCEPT ![l] = Append(@, Head(mQueue[l]))]
    /\ UNCHANGED <<mMutex, pc>>

\* (Faulty: one task for each wake-up.)
DrainedOne(l) == pc[l] = "draining"

Drained(l) == pc[l] = "draining" /\ mQueue[l] = <<>>

\* (Faulty: a loop that is stopped keeps its mutex.)
ReleasedUnlessClosing(l) == IF closing[l] THEN mMutex ELSE [mMutex EXCEPT ![l] = None]

Released(l) == [mMutex EXCEPT ![l] = None]

Unlock(l) ==
    /\ Drained(l)
    /\ mMutex' = Released(l)
    /\ pc' = [pc EXCEPT ![l] = "poll"]
    /\ UNCHANGED <<mQueue, sent, closing, handled, posted>>

\* A timer of the loop calls stop(), as ApplicationThread's does.
StopByTimer(l) ==
    /\ pc[l] = "poll" /\ ~closing[l]
    /\ closing' = [closing EXCEPT ![l] = TRUE]
    /\ UNCHANGED <<mQueue, mMutex, sent, pc, handled, posted>>

\* uv_run() returns; what is left in the queue stays there.
Return(l) ==
    /\ pc[l] = "poll" /\ closing[l]
    /\ pc' = [pc EXCEPT ![l] = "returned"]
    /\ UNCHANGED <<mQueue, mMutex, sent, closing, handled, posted>>

LoopNext(l) == Wake(l) \/ Lock(l) \/ HandleMessage(l) \/ Unlock(l) \/ Return(l)

Next ==
    \/ \E t \in Task : Post(t)
    \/ \E l \in Loop : LoopNext(l) \/ StopByTimer(l)

Spec == Init /\ [][Next]_vars

(* The threads of the loops run; nobody has to post or to stop them.  A    *)
(* mutex is not fair, but as posts are bounded one that waits for it finds *)
(* it free in the end.                                                     *)
FairSpec == Spec /\ \A l \in Loop : WF_vars(LoopNext(l))

-----------------------------------------------------------------------------
(* A loop keeps what Mailbox promises, whoever posts to it meanwhile.       *)
Box == INSTANCE Mailbox
KeepsOrder == Box!Spec

(* No wake-up is lost although sends merge: unless its loop is stopped,     *)
(* every task that was posted runs.                                         *)
EveryTaskRuns ==
    \A l \in Loop : mQueue[l] # <<>> ~> (mQueue[l] = <<>> \/ closing[l])

(* Whoever holds a mutex is on its way to give it back: if threads of loops *)
(* wait for each other's mutexes, one that runs its tasks does not wait,    *)
(* and no post ever meets a mutex whose thread is not emptying the queue.   *)
NobodyWaitsForEver ==
    /\ \A l \in Loop : mMutex[l] = IF pc[l] = "draining" THEN l ELSE None
    /\ \A S \in SUBSET Loop : S # {} =>
          \E l \in S : ~(Blocked(l) /\ RunsOn[Posts[Front(l)]] \in S)
=============================================================================

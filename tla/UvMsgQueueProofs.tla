--------------------------- MODULE UvMsgQueueProofs ---------------------------
(***************************************************************************)
(* Proofs about UvMsgQueue, for any number of loops, tasks and posts: the  *)
(* mutex of a queue is only ever found taken while its loop empties the    *)
(* queue, where tasks do not post in a circle the loops do not wait for    *)
(* each other in one, and the queues keep the order of the posts.          *)
(***************************************************************************)
EXTENDS UvMsgQueue, TLAPS

USE TaskAssumption

(* A queue holds tasks of its own loop, so a loop waits only along PostsTo. *)
OnItsLoop == \A l \in Loop : \A i \in DOMAIN mQueue[l] : RunsOn[mQueue[l][i][1]] = l

Held == \A l \in Loop : mMutex[l] = IF pc[l] = "draining" THEN l ELSE None

QueueInv == TypeOK /\ OnItsLoop /\ Held

LEMMA InitInv == Init => QueueInv
<1> SUFFICES ASSUME Init PROVE QueueInv
  OBVIOUS
<1>1. [l \in Loop |-> <<>>] \in [Loop -> Seq(Message)]
  OBVIOUS
<1>2. QED
  BY <1>1 DEF Init, QueueInv, TypeOK, OnItsLoop, Held

(* What is appended to the queue of its loop keeps all queues in order.     *)
LEMMA EnqueuedQueues ==
    ASSUME TypeOK, NEW t \in Task,
           NEW q \in [Loop -> Seq(Message)],
           \A l \in Loop : \A i \in DOMAIN q[l] : RunsOn[q[l][i][1]] = l
    PROVE  /\ Enqueued(q, t) \in [Loop -> Seq(Message)]
           /\ \A l \in Loop : \A i \in DOMAIN Enqueued(q, t)[l] :
                 RunsOn[Enqueued(q, t)[l][i][1]] = l
           /\ Enqueued(posted, t) \in [Loop -> Seq(Message)]
<1> DEFINE k == RunsOn[t]
           m == <<t, Len(posted[k])>>
<1>1. k \in Loop /\ m \in Message
  BY DEF TypeOK, Message
<1>2. /\ Append(q[k], m) \in Seq(Message)
      /\ Append(posted[k], m) \in Seq(Message)
      /\ Len(Append(q[k], m)) = Len(q[k]) + 1
      /\ Append(q[k], m)[Len(q[k]) + 1] = m
      /\ \A i \in 1..Len(q[k]) : Append(q[k], m)[i] = q[k][i]
  BY <1>1 DEF TypeOK
<1>3. /\ Enqueued(q, t) = [q EXCEPT ![k] = Append(q[k], m)]
      /\ Enqueued(posted, t) = [posted EXCEPT ![k] = Append(posted[k], m)]
  BY DEF Enqueued
<1>4. ASSUME NEW l \in Loop, NEW i \in DOMAIN Enqueued(q, t)[l]
      PROVE  RunsOn[Enqueued(q, t)[l][i][1]] = l
  <2>1. CASE l = k /\ i = Len(q[k]) + 1
    BY <1>1, <1>2, <1>3, <2>1
  <2>2. CASE l = k /\ i # Len(q[k]) + 1
    <3>1. Enqueued(q, t)[l] = Append(q[k], m)
      BY <1>1, <1>3, <2>2
    <3>2. q[k] \in Seq(Message) /\ DOMAIN Append(q[k], m) = 1..(Len(q[k]) + 1)
      BY <1>1, <1>2
    <3>3. i \in 1..Len(q[k])
      BY <1>4, <2>2, <3>1, <3>2
    <3>4. Enqueued(q, t)[l][i] = q[k][i]
      BY <1>2, <3>1, <3>3
    <3>5. QED
      BY <1>1, <2>2, <3>2, <3>3, <3>4
  <2>3. CASE l # k
    BY <1>3, <1>4, <2>3
  <2>4. QED
    BY <2>1, <2>2, <2>3
<1>5. QED
  BY SMTT(30), <1>1, <1>2, <1>3, <1>4 DEF TypeOK

(* pop() takes nothing but the task in front.                               *)
LEMMA PoppedQueues ==
    ASSUME TypeOK, OnItsLoop, NEW k \in Loop, mQueue[k] # <<>>
    PROVE  /\ Popped(k) \in [Loop -> Seq(Message)]
           /\ \A l \in Loop : \A i \in DOMAIN Popped(k)[l] : RunsOn[Popped(k)[l][i][1]] = l
           /\ Head(mQueue[k]) \in Message
           /\ Front(k) \in Task
           /\ RunsOn[Front(k)] = k
<1>1. mQueue[k] \in Seq(Message)
  BY DEF TypeOK
<1>2. /\ Tail(mQueue[k]) \in Seq(Message)
      /\ Head(mQueue[k]) = mQueue[k][1] /\ 1 \in DOMAIN mQueue[k]
      /\ Head(mQueue[k]) \in Message
      /\ \A i \in DOMAIN Tail(mQueue[k]) :
            i + 1 \in DOMAIN mQueue[k] /\ Tail(mQueue[k])[i] = mQueue[k][i + 1]
  BY <1>1
<1>3. Popped(k) = [mQueue EXCEPT ![k] = Tail(mQueue[k])]
  BY DEF Popped
<1>4. QED
  BY SMTT(30), <1>2, <1>3 DEF TypeOK, OnItsLoop, Front, Message

LEMMA HandleInv ==
    ASSUME QueueInv, NEW l \in Loop, HandleMessage(l)
    PROVE  QueueInv'
<1> DEFINE t == Front(l)
           u == Posts[t]
<1> USE DEF QueueInv, HandleMessage, Draining
<1>1. /\ Popped(l) \in [Loop -> Seq(Message)]
      /\ \A k \in Loop : \A i \in DOMAIN Popped(l)[k] : RunsOn[Popped(l)[k][i][1]] = k
      /\ Head(mQueue[l]) \in Message
      /\ t \in Task
  BY PoppedQueues
<1>2. handled' \in [Loop -> Seq(Message)]
  BY <1>1 DEF TypeOK
<1>3. /\ mQueue' \in [Loop -> Seq(Message)] /\ posted' \in [Loop -> Seq(Message)]
      /\ sent' \in [Loop -> BOOLEAN]
      /\ OnItsLoop'
  <2>1. CASE u = None
    BY <1>1, <2>1 DEF TypeOK, OnItsLoop
  <2>2. CASE u # None
    <3>1. u \in Task
      BY <1>1, <2>2
    <3>2. /\ Enqueued(Popped(l), u) \in [Loop -> Seq(Message)]
          /\ Enqueued(posted, u) \in [Loop -> Seq(Message)]
          /\ \A k \in Loop : \A i \in DOMAIN Enqueued(Popped(l), u)[k] :
                RunsOn[Enqueued(Popped(l), u)[k][i][1]] = k
      BY ZenonT(30), <1>1, <3>1, EnqueuedQueues
    <3>3. QED
      BY <2>2, <3>1, <3>2 DEF TypeOK, OnItsLoop
  <2>3. QED
    BY <2>1, <2>2
<1>4. QED
  BY <1>2, <1>3 DEF TypeOK, Held

LEMMA NextInv == QueueInv /\ [Next]_vars => QueueInv'
<1> SUFFICES ASSUME QueueInv, [Next]_vars PROVE QueueInv'
  OBVIOUS
<1> USE DEF QueueInv
<1>1. ASSUME NEW t \in Task, Post(t) PROVE QueueInv'
  <2>1. /\ Enqueued(mQueue, t) \in [Loop -> Seq(Message)]
        /\ Enqueued(posted, t) \in [Loop -> Seq(Message)]
        /\ \A k \in Loop : \A i \in DOMAIN Enqueued(mQueue, t)[k] :
              RunsOn[Enqueued(mQueue, t)[k][i][1]] = k
    BY ZenonT(30), EnqueuedQueues DEF OnItsLoop, TypeOK
  <2>2. QED
    BY <1>1, <2>1 DEF Post, TypeOK, OnItsLoop, Held
<1>2. ASSUME NEW l \in Loop, Wake(l) PROVE QueueInv'
  BY <1>2 DEF Wake, TypeOK, OnItsLoop, Held
<1>3. ASSUME NEW l \in Loop, Lock(l) PROVE QueueInv'
  BY <1>3 DEF Lock, TypeOK, OnItsLoop, Held
<1>4. ASSUME NEW l \in Loop, HandleMessage(l) PROVE QueueInv'
  BY <1>4, HandleInv
<1>5. ASSUME NEW l \in Loop, Unlock(l) PROVE QueueInv'
  BY <1>5 DEF Unlock, Drained, Released, TypeOK, OnItsLoop, Held
<1>6. ASSUME NEW l \in Loop, Return(l) PROVE QueueInv'
  BY <1>6 DEF Return, TypeOK, OnItsLoop, Held
<1>7. ASSUME NEW l \in Loop, StopByTimer(l) PROVE QueueInv'
  BY <1>7 DEF StopByTimer, TypeOK, OnItsLoop, Held
<1>8. CASE UNCHANGED vars
  BY <1>8 DEF vars, TypeOK, OnItsLoop, Held
<1>9. QED
  BY <1>1, <1>2, <1>3, <1>4, <1>5, <1>6, <1>7, <1>8 DEF Next, LoopNext

THEOREM QueueInvariant == Spec => []QueueInv
BY InitInv, NextInv, PTL DEF Spec

(* Of any loops, one does not wait for another of them, as tasks do not     *)
(* post in a circle; so some loop can always go on.                         *)
LEMMA NobodyWaits == QueueInv => NobodyWaitsForEver
<1> SUFFICES ASSUME QueueInv PROVE NobodyWaitsForEver
  OBVIOUS
<1>1. ASSUME NEW S \in SUBSET Loop, S # {}
      PROVE  \E l \in S : ~(Blocked(l) /\ RunsOn[Posts[Front(l)]] \in S)
  <2>1. PICK l \in S : \A k \in S : <<l, k>> \notin PostsTo
    BY <1>1, NoCircleAssumption
  <2>2. ASSUME Blocked(l) PROVE <<l, RunsOn[Posts[Front(l)]]>> \in PostsTo
    <3>1. mQueue[l] # <<>> /\ Posts[Front(l)] # None
      BY <2>2 DEF Blocked, Draining
    <3>2. Front(l) \in Task /\ RunsOn[Front(l)] = l
      BY <1>1, <3>1, PoppedQueues DEF QueueInv
    <3>3. QED
      BY <3>1, <3>2 DEF PostsTo
  <2>3. QED
    BY <2>1, <2>2
<1>2. QED
  BY <1>1 DEF NobodyWaitsForEver, QueueInv, Held

THEOREM NobodyWaitsAlways == Spec => []NobodyWaitsForEver
BY QueueInvariant, NobodyWaits, PTL

-----------------------------------------------------------------------------
(* What was posted is what was handled and then what is in the queue.       *)
Kept(P, H, Q) ==
    /\ Len(P) = Len(H) + Len(Q)
    /\ \A i \in 1..Len(H) : P[i] = H[i]
    /\ \A i \in 1..Len(Q) : P[Len(H) + i] = Q[i]

OrderKept == \A l \in Loop : Kept(posted[l], handled[l], mQueue[l])

LEMMA AppendKeeps ==
    ASSUME NEW P \in Seq(Message), NEW H \in Seq(Message), NEW Q \in Seq(Message),
           NEW m \in Message, Kept(P, H, Q)
    PROVE  Kept(Append(P, m), H, Append(Q, m))
<1> DEFINE PP == Append(P, m)
           QQ == Append(Q, m)
<1>1. /\ Len(PP) = Len(P) + 1 /\ Len(QQ) = Len(Q) + 1
      /\ \A i \in 1..Len(P) : PP[i] = P[i]
      /\ \A i \in 1..Len(Q) : QQ[i] = Q[i]
      /\ PP[Len(P) + 1] = m /\ QQ[Len(Q) + 1] = m
  OBVIOUS
<1>2. Len(P) = Len(H) + Len(Q) /\ Len(H) \in Nat /\ Len(Q) \in Nat
  BY DEF Kept
<1> HIDE DEF PP, QQ
<1>3. \A i \in 1..Len(H) : PP[i] = H[i]
  BY <1>1, <1>2 DEF Kept
<1>4. ASSUME NEW i \in 1..Len(QQ) PROVE PP[Len(H) + i] = QQ[i]
  <2>1. CASE i = Len(Q) + 1
    <3>1. Len(H) + i = Len(P) + 1
      BY <1>2, <2>1
    <3>2. QED
      BY <1>1, <2>1, <3>1
  <2>2. CASE i \in 1..Len(Q)
    BY <1>1, <1>2, <2>2 DEF Kept
  <2>3. i = Len(Q) + 1 \/ i \in 1..Len(Q)
    BY SMTT(30), <1>1, <1>2
  <2>4. QED
    BY <2>1, <2>2, <2>3
<1>5. Kept(PP, H, QQ)
  BY <1>1, <1>2, <1>3, <1>4 DEF Kept
<1>6. QED
  BY <1>5 DEF PP, QQ

LEMMA PopKeeps ==
    ASSUME NEW P \in Seq(Message), NEW H \in Seq(Message), NEW Q \in Seq(Message),
           Kept(P, H, Q), Q # <<>>
    PROVE  /\ Kept(P, Append(H, Head(Q)), Tail(Q))
           /\ Len(H) < Len(P) /\ Head(Q) = P[Len(H) + 1]
<1>1. Len(Q) >= 1 /\ Head(Q) = Q[1] /\ Head(Q) \in Message
  OBVIOUS
<1>2. /\ Len(H) < Len(P) /\ Head(Q) = P[Len(H) + 1]
  BY <1>1 DEF Kept
<1>3. /\ Len(Tail(Q)) = Len(Q) - 1
      /\ \A i \in 1..Len(Tail(Q)) : Tail(Q)[i] = Q[i + 1]
      /\ Len(Append(H, Head(Q))) = Len(H) + 1
      /\ \A i \in 1..Len(H) : Append(H, Head(Q))[i] = H[i]
      /\ Append(H, Head(Q))[Len(H) + 1] = Head(Q)
  BY <1>1
<1>4. \A i \in 1..Len(Tail(Q)) : P[Len(H) + 1 + i] = Tail(Q)[i]
  <2>1. SUFFICES ASSUME NEW i \in 1..Len(Tail(Q)) PROVE P[Len(H) + 1 + i] = Tail(Q)[i]
    OBVIOUS
  <2>2. i + 1 \in 1..Len(Q) /\ Len(H) + 1 + i = Len(H) + (i + 1)
    BY <1>3
  <2>3. QED
    BY <1>3, <2>2 DEF Kept
<1>5. \A i \in 1..(Len(H) + 1) : P[i] = Append(H, Head(Q))[i]
  BY <1>2, <1>3 DEF Kept
<1>6. Len(P) = Len(H) + 1 + Len(Tail(Q))
  BY <1>1, <1>3 DEF Kept
<1>7. QED
  BY <1>2, <1>3, <1>4, <1>5, <1>6 DEF Kept

\* emplace() on a queue that kept the order, as a Post of the Mailbox.
LEMMA EnqueuedKeeps ==
    ASSUME TypeOK, NEW t \in Task, NEW q \in [Loop -> Seq(Message)],
           NEW h \in [Loop -> Seq(Message)],
           \A l \in Loop : Kept(posted[l], h[l], q[l]),
           posted' = Enqueued(posted, t)
    PROVE  /\ \A l \in Loop : Kept(posted'[l], h[l], Enqueued(q, t)[l])
           /\ \E k \in Loop : Box!Post(k)
<1> DEFINE k == RunsOn[t]
           m == <<t, Len(posted[k])>>
<1>1. k \in Loop /\ m \in Message /\ posted[k] \in Seq(Message)
  BY DEF TypeOK, Message
<1>2. /\ posted' = [posted EXCEPT ![k] = Append(posted[k], m)]
      /\ Enqueued(q, t) = [q EXCEPT ![k] = Append(q[k], m)]
  BY DEF Enqueued
<1>3. posted'[k] = Append(posted[k], m) /\ Enqueued(q, t)[k] = Append(q[k], m)
  BY <1>1, <1>2 DEF TypeOK
<1>4. Kept(posted'[k], h[k], Enqueued(q, t)[k])
  BY <1>1, <1>3, AppendKeeps
<1>5. \A l \in Loop \ {k} : posted'[l] = posted[l] /\ Enqueued(q, t)[l] = q[l]
  BY <1>2 DEF TypeOK
<1>6. posted'[k][Len(posted[k]) + 1] = m /\ Len(posted'[k]) = Len(posted[k]) + 1
  BY <1>1, <1>3
<1>7. Box!Post(k)
  BY <1>2, <1>6 DEF Box!Post
<1>8. QED
  BY <1>1, <1>4, <1>5, <1>7

LEMMA HandleKeeps ==
    ASSUME QueueInv, OrderKept, NEW l \in Loop, HandleMessage(l)
    PROVE  OrderKept' /\ Box!Next
<1> DEFINE u == Posts[Front(l)]
           q == Popped(l)
<1> USE DEF QueueInv, HandleMessage, Draining
<1>1. q \in [Loop -> Seq(Message)] /\ Head(mQueue[l]) \in Message /\ Front(l) \in Task
  BY PoppedQueues
<1>2. handled' = [handled EXCEPT ![l] = Append(handled[l], Head(mQueue[l]))]
  OBVIOUS
<1>3. handled' \in [Loop -> Seq(Message)] /\ q = [mQueue EXCEPT ![l] = Tail(mQueue[l])]
  BY <1>1 DEF TypeOK, Popped
<1>4. /\ Kept(posted[l], Append(handled[l], Head(mQueue[l])), Tail(mQueue[l]))
      /\ Len(handled[l]) < Len(posted[l])
      /\ Head(mQueue[l]) = posted[l][Len(handled[l]) + 1]
  BY PopKeeps DEF TypeOK, OrderKept
<1>5. \A k \in Loop : Kept(posted[k], handled'[k], q[k])
  BY <1>2, <1>3, <1>4 DEF TypeOK, OrderKept
<1>6. Box!Handle(l)
  BY <1>2, <1>4 DEF Box!Handle
<1>7. CASE u = None
  BY <1>5, <1>6, <1>7 DEF OrderKept, Box!Next
<1>8. CASE u # None
  <2>1. u \in Task /\ mQueue' = Enqueued(q, u) /\ posted' = Enqueued(posted, u)
    BY <1>1, <1>8
  <2>2. /\ \A k \in Loop : Kept(posted'[k], handled'[k], Enqueued(q, u)[k])
        /\ \E k \in Loop : Box!Post(k)
    BY <1>1, <1>3, <1>5, <2>1, EnqueuedKeeps
  <2>3. QED
    BY <1>6, <2>1, <2>2 DEF OrderKept, Box!Next
<1>9. QED
  BY <1>7, <1>8

LEMMA NextKeeps ==
    QueueInv /\ OrderKept /\ [Next]_vars => OrderKept' /\ [Box!Next]_<<posted, handled>>
<1> SUFFICES ASSUME QueueInv, OrderKept, [Next]_vars
             PROVE  OrderKept' /\ [Box!Next]_<<posted, handled>>
  OBVIOUS
<1>1. ASSUME NEW t \in Task, Post(t) PROVE OrderKept' /\ Box!Next
  <2>1. /\ \A l \in Loop : Kept(posted'[l], handled[l], Enqueued(mQueue, t)[l])
        /\ \E k \in Loop : Box!Post(k)
    BY <1>1, EnqueuedKeeps DEF Post, QueueInv, TypeOK, OrderKept
  <2>2. QED
    BY <1>1, <2>1 DEF Post, OrderKept, Box!Next
<1>2. ASSUME NEW l \in Loop, HandleMessage(l) PROVE OrderKept' /\ Box!Next
  BY <1>2, HandleKeeps
<1>3. CASE UNCHANGED <<mQueue, posted, handled>>
  BY <1>3 DEF OrderKept
<1>4. QED
  BY <1>1, <1>2, <1>3 DEF Next, LoopNext, vars, Wake, Lock, Unlock, Return, StopByTimer

(* The queues implement Mailbox: every task that is posted runs in its      *)
(* turn and once, however the threads, the wake-ups and the mutexes         *)
(* interleave.                                                              *)
THEOREM KeepsOrderAlways == Spec => KeepsOrder
<1>1. Init => OrderKept /\ Box!Init
  <2>1. SUFFICES ASSUME Init PROVE OrderKept /\ Box!Init
    OBVIOUS
  <2>2. \A l \in Loop : posted[l] = <<>> /\ handled[l] = <<>> /\ mQueue[l] = <<>>
    BY <2>1 DEF Init
  <2>3. QED
    BY <2>1, <2>2 DEF OrderKept, Kept, Init, Box!Init
<1>2. QED
  BY <1>1, QueueInvariant, NextKeeps, PTL DEF Spec, KeepsOrder, Box!Spec
=============================================================================

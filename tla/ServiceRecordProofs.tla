------------------------- MODULE ServiceRecordProofs -------------------------
(***************************************************************************)
(* Proofs about ServiceRecord: its types; that a live service is counted   *)
(* and the records are sound, whatever callers do; that no request of      *)
(* careful callers crashes the service manager, that the services of their *)
(* clients are those the server knows, that their connections know which   *)
(* services exist, and that no process is left without a service.          *)
(*                                                                         *)
(* Inv is the inductive invariant.  Its first part, Base, holds whatever   *)
(* callers do; the second, Orderly, while they are careful.  Most of the   *)
(* methods change one record and its process: Local says what they leave   *)
(* alone.  Informed, in the second half of the module, is inductive given  *)
(* Inv: what the connections have been told and what is on its way to the  *)
(* services.  About says what a step concerning one record leaves of it.   *)
(***************************************************************************)
EXTENDS ServiceRecord, SequenceLemmas, TLAPS

USE DEF CREATING, CREATED, STARTED, BINDED, UNBINDED, DESTROYING, DESTROYED

ClientType == [exists : BOOLEAN, mStatus : CREATING..DESTROYED, binded : BOOLEAN, mIsBinded : BOOLEAN]

RecType ==
    [name : Name \union {"none"}, proc : 0..MaxProcs, listed : BOOLEAN,
     mStatus : CREATING..DESTROYED, mStartFlag : SUBSET Flags,
     mServiceBinder : BOOLEAN, mConnectRecord : SUBSET Conn,
     asked : BOOLEAN, client : ClientType]

Ops == {"START", "BIND", "UNBIND", "STOP", "TERMINATE"}
Message == [op : Ops, r : 0..MaxRecords, conn : Conn \union {NoConn}]
Task == [name : Name, conn : Conn \union {NoConn}]

ProcType ==
    [mStatus : {"NONE", "ATTACHING", "RUNNING", "STOPPING", "GONE"},
     attach : Seq(Task), mExistService : Seq(Record), sent : Seq(Message),
     terminated : BOOLEAN]

StateType ==
    [rec : [Record -> RecType], records : 0..MaxRecords,
     proc : [Proc -> ProcType], procs : 0..MaxProcs,
     told : [Conn -> {"nothing", "connected", "disconnected"}], undefined : BOOLEAN]

-----------------------------------------------------------------------------
(* The parts of the invariant that hold whatever callers do.               *)

Exists(s, p) == ToSet(s.proc[p].mExistService)
Queue(s, p) == ToSet(s.proc[p].sent)
Up(s, p) == s.proc[p].mStatus \in {"RUNNING", "STOPPING"}

\* What has not been made yet is untouched.
Fresh(s) ==
    /\ \A r \in Record : r > s.records => s.rec[r] = NoRecord
    /\ \A p \in Proc : p > s.procs => s.proc[p].mStatus = "NONE"

\* A record belongs to a process that has attached.
Placed(s) == \A r \in Record :
    /\ s.rec[r].listed \/ s.rec[r].client.exists => s.rec[r].proc # 0
    /\ s.rec[r].proc # 0 => s.proc[s.rec[r].proc].mStatus \in {"RUNNING", "STOPPING", "GONE"}

\* A process that is not up has no services, no messages and no clients.
Idle(s) == \A p \in Proc : ~Up(s, p) =>
    /\ s.proc[p].mExistService = <<>>
    /\ s.proc[p].sent = <<>>
    /\ \A r \in Record : s.rec[r].proc = p => ~s.rec[r].client.exists

\* The services and the messages of a process are its own.
Own(s) == \A p \in Proc :
    /\ \A r \in Exists(s, p) : s.rec[r].proc = p
    /\ \A m \in Queue(s, p) : IF m.op = "TERMINATE" THEN m.r = 0
                              ELSE m.r \in Record /\ s.rec[m.r].proc = p

\* LiveIsCounted, of one record.
Counted(s, r) ==
    s.rec[r].listed /\ HasApp(s, r) /\ s.rec[r].mStartFlag # {} /\ ~s.rec[r].asked
        => r \in Exists(s, s.rec[r].proc)

\* RecordsAreSound, of one record.
Sound(s, r) == s.rec[r].listed =>
    /\ HasApp(s, r) => ("BINDED" \in s.rec[r].mStartFlag <=> s.rec[r].mConnectRecord # {})
    /\ HasApp(s, r) \/ s.rec[r].asked \/ s.rec[r].mStartFlag = {}

Base(s) ==
    /\ s \in StateType
    /\ Fresh(s) /\ Placed(s) /\ Idle(s) /\ Own(s)
    /\ \A r \in Record : Counted(s, r) /\ Sound(s, r)

-----------------------------------------------------------------------------
(* The parts that hold while callers are careful.  X is the set of the     *)
(* records whose process has handled terminateApplication(); h is the      *)
(* record of the message in hand, or 0.                                    *)

OneEach(q) == \A i, j \in DOMAIN q : q[i] = q[j] => i = j

\* No message about a service follows its UNBIND or its STOP.
InOrder(q) == \A i, j \in DOMAIN q :
    i < j /\ q[i].op \in {"UNBIND", "STOP"} => q[j].r # q[i].r

Finished(s, r) == ~s.rec[r].client.exists /\ \A p \in Proc : \A m \in Queue(s, p) : m.r # r

Alive(s, r, h) == s.rec[r].listed \/ ~Finished(s, r) \/ r = h

\* What a process that runs counts: every service once, none that is being stopped.
Tidy(s, p) == s.proc[p].mStatus = "RUNNING" =>
    /\ OneEach(s.proc[p].mExistService)
    /\ \A r \in Exists(s, p) : s.rec[r].listed /\ ~s.rec[r].asked /\ s.rec[r].mStartFlag # {}
    /\ \A m \in Queue(s, p) : m.op # "TERMINATE"

Going(s, p) == s.proc[p].mStatus \in {"ATTACHING", "RUNNING"} => ~s.proc[p].terminated

QueueOK(s, p) ==
    /\ InOrder(s.proc[p].sent)
    /\ \A m \in Queue(s, p) : m.op = "STOP" => s.rec[m.r].asked

\* The tasks that wait for a process are for services of different names.
TasksDiffer(s) == \A p \in Proc : \A i, j \in DOMAIN s.proc[p].attach :
    s.proc[p].attach[i].name = s.proc[p].attach[j].name => i = j

OneOfAName(s, h) == \A r, q \in Record :
    /\ Alive(s, r, h) /\ Alive(s, q, h)
    /\ s.rec[r].proc = s.rec[q].proc /\ s.rec[r].name = s.rec[q].name
    => r = q

Orderly(s, X, h) ==
    /\ \A p \in Proc : Tidy(s, p) /\ Going(s, p) /\ QueueOK(s, p)
    /\ TasksDiffer(s)
    /\ OneOfAName(s, h)
    /\ \A r \in Record \ X : s.rec[r].listed \/ Finished(s, r)
    /\ ~s.undefined

Ended(s) == {r \in Record : s.rec[r].proc # 0 /\ s.proc[s.rec[r].proc].terminated}

Inv(s, c, X, h) == Base(s) /\ (c => Orderly(s, X, h))

-----------------------------------------------------------------------------
(* A step from s to n that concerns record r and its process.              *)

LocalProc(a, b, r) ==
    /\ b.attach = a.attach /\ b.terminated = a.terminated
    /\ \/ b.mStatus = a.mStatus
       \/ a.mStatus = "RUNNING" /\ b.mStatus = "STOPPING"
    /\ ToSet(a.sent) \subseteq ToSet(b.sent)
    /\ \A m \in ToSet(b.sent) : \/ m \in ToSet(a.sent)
                                \/ m.op # "TERMINATE" /\ m.r = r
                                \/ m.op = "TERMINATE" /\ m.r = 0
    /\ ToSet(a.mExistService) \subseteq ToSet(b.mExistService) \union {r}
    /\ ToSet(b.mExistService) \subseteq ToSet(a.mExistService) \union {r}

LocalRec(x, y) ==
    /\ y.proc = x.proc /\ y.name = x.name
    /\ y.listed => x.listed
    /\ x.asked => y.asked

Local(s, n, r) ==
    /\ n \in StateType
    /\ n.records = s.records /\ n.procs = s.procs /\ n.undefined = s.undefined
    /\ \A q \in Record \ {r} : n.rec[q] = s.rec[q]
    /\ \A p \in Proc : p # s.rec[r].proc => n.proc[p] = s.proc[p]
    /\ LocalRec(s.rec[r], n.rec[r])
    /\ \A p \in Proc : LocalProc(s.proc[p], n.proc[p], r)
    /\ ~HasApp(s, r) => /\ n.proc = s.proc
                        /\ n.rec[r].client.exists => s.rec[r].client.exists

\* The types of the parts of a state.
LEMMA Parts ==
    ASSUME NEW s \in StateType
    PROVE  /\ \A r \in Record : s.rec[r] \in RecType
           /\ \A p \in Proc : s.proc[p] \in ProcType
           /\ s.records \in 0..MaxRecords /\ s.procs \in 0..MaxProcs
BY DEF StateType

\* The types of the fields of a record.
LEMMA RecParts ==
    ASSUME NEW x \in RecType
    PROVE  /\ x.name \in Name \union {"none"} /\ x.proc \in 0..MaxProcs
           /\ x.listed \in BOOLEAN /\ x.mStatus \in CREATING..DESTROYED
           /\ x.mStartFlag \in SUBSET Flags /\ x.mServiceBinder \in BOOLEAN
           /\ x.mConnectRecord \in SUBSET Conn /\ x.asked \in BOOLEAN
           /\ x.client \in ClientType /\ x.client.exists \in BOOLEAN
           /\ x.proc # 0 => x.proc \in Proc
BY BoundsAssumption DEF RecType, ClientType, Proc

\* The types of the fields of a process.
LEMMA ProcParts ==
    ASSUME NEW y \in ProcType
    PROVE  /\ y.mStatus \in {"NONE", "ATTACHING", "RUNNING", "STOPPING", "GONE"}
           /\ y.attach \in Seq(Task) /\ y.mExistService \in Seq(Record)
           /\ y.sent \in Seq(Message) /\ y.terminated \in BOOLEAN
BY DEF ProcType

\* Telling connections changes nothing else.
LEMMA TellChange ==
    ASSUME NEW s \in StateType, NEW S, NEW what \in {"connected", "disconnected"}
    PROVE  LET n == Tell(s, S, what)
           IN /\ n \in StateType /\ n.rec = s.rec /\ n.proc = s.proc
              /\ n.records = s.records /\ n.procs = s.procs /\ n.undefined = s.undefined
BY DEF StateType, Tell

\* Doing nothing is a local step of any record.
LEMMA LocalIsReflexive ==
    ASSUME NEW s \in StateType, NEW r \in Record
    PROVE  Local(s, s, r)
BY Parts, ProcParts DEF Local, LocalRec, LocalProc

\* Two local steps of one record are one.
LEMMA LocalIsTransitive ==
    ASSUME NEW s \in StateType, NEW n \in StateType, NEW t, NEW r \in Record,
           Local(s, n, r), Local(n, t, r)
    PROVE  Local(s, t, r)
<1>1. n.rec[r].proc = s.rec[r].proc /\ LocalRec(s.rec[r], t.rec[r])
  BY DEF Local, LocalRec
<1>2. HasApp(n, r) <=> HasApp(s, r)
  <2>1. s.rec[r].proc # 0 => s.rec[r].proc \in Proc
    BY Parts, RecParts
  <2>2. ASSUME NEW p \in Proc PROVE Up(n, p) <=> Up(s, p)
    <3>1. LocalProc(s.proc[p], n.proc[p], r)
      BY DEF Local
    <3>2. QED
      BY <3>1 DEF LocalProc, Up
  <2>3. QED
    BY <1>1, <2>1, <2>2 DEF HasApp, Up
<1>3. \A p \in Proc : LocalProc(s.proc[p], t.proc[p], r)
  <2> SUFFICES ASSUME NEW p \in Proc PROVE LocalProc(s.proc[p], t.proc[p], r)
    OBVIOUS
  <2>1. LocalProc(s.proc[p], n.proc[p], r) /\ LocalProc(n.proc[p], t.proc[p], r)
    BY DEF Local
  <2>2. QED
    BY <2>1 DEF LocalProc
<1>4. QED
  BY <1>1, <1>2, <1>3 DEF Local

-----------------------------------------------------------------------------
(* Sequences.                                                              *)

\* What SwappedOut, which removes a service from mExistServices, leaves.
LEMMA SwappedOutFacts ==
    ASSUME NEW S, NEW q \in Seq(S), NEW r
    PROVE  /\ SwappedOut(q, r) \in Seq(S)
           /\ ToSet(SwappedOut(q, r)) \subseteq ToSet(q)
           /\ ToSet(q) \subseteq ToSet(SwappedOut(q, r)) \union {r}
           /\ OneEach(q) => OneEach(SwappedOut(q, r)) /\ r \notin ToSet(SwappedOut(q, r))
<1> DEFINE places == {i \in DOMAIN q : q[i] = r}
           k == Min(places)
           n == Len(q)
           e == [q EXCEPT ![k] = Last(q)]
<1>1. CASE places = {}
  <2>1. SwappedOut(q, r) = q
    BY <1>1 DEF SwappedOut
  <2>2. \A i \in DOMAIN q : q[i] # r
    BY <1>1
  <2>3. QED
    BY <2>1, <2>2 DEF ToSet
<1>2. CASE places # {}
  <2>1. SwappedOut(q, r) = Front(e)
    BY <1>2 DEF SwappedOut
  <2>2. n \in Nat /\ DOMAIN q = 1..n
    OBVIOUS
  <2>3. k \in places
    <3>1. places \in SUBSET Nat
      BY <2>2
    <3>2. PICK m \in places : \A j \in places : m <= j
      BY <3>1, <1>2, LeastNat
    <3> HIDE DEF places
    <3>3. Min(places) = CHOOSE x \in places : \A y \in places : x <= y
      BY DEF Min
    <3>4. QED
      BY <3>2, <3>3
  <2>4. k \in 1..n /\ q[k] = r /\ n >= 1
    BY <2>2, <2>3
  <2> HIDE DEF k
  <2>5. e \in Seq(S) /\ Len(e) = n /\ \A i \in 1..n : e[i] = IF i = k THEN q[n] ELSE q[i]
    BY <2>2, <2>4 DEF Last
  <2> HIDE DEF e
  <2>6. /\ Front(e) \in Seq(S) /\ Len(Front(e)) = n - 1
        /\ \A i \in 1..(n - 1) : Front(e)[i] = e[i]
    <3>1. Front(e) = SubSeq(e, 1, n - 1)
      BY <2>5 DEF Front
    <3>2. \A i \in 1..(n - 1) : e[i] \in S
      BY <2>5, <2>2
    <3>3. /\ SubSeq(e, 1, n - 1) \in Seq(S)
          /\ Len(SubSeq(e, 1, n - 1)) = IF 1 <= n - 1 THEN n - 1 - 1 + 1 ELSE 0
          /\ \A i \in 1..(n - 1 - 1 + 1) : SubSeq(e, 1, n - 1)[i] = e[1 + i - 1]
      BY <2>5, <2>2, <3>2, SubSeqProperties
    <3>4. (IF 1 <= n - 1 THEN n - 1 - 1 + 1 ELSE 0) = n - 1 /\ n - 1 - 1 + 1 = n - 1
      BY <2>4, <2>2
    <3>5. \A i \in 1..(n - 1) : 1 + i - 1 = i
      OBVIOUS
    <3>6. QED
      BY <3>1, <3>3, <3>4, <3>5
  <2> DEFINE f == Front(e)
  <2>7. f \in Seq(S) /\ Len(f) = n - 1 /\ DOMAIN f = 1..(n - 1)
    BY <2>6
  <2>8. \A i \in 1..(n - 1) : f[i] = (IF i = k THEN q[n] ELSE q[i])
    BY <2>5, <2>6
  <2> HIDE DEF f, n, places
  <2>9. ASSUME NEW x \in ToSet(f) PROVE x \in ToSet(q)
    BY <2>2, <2>4, <2>7, <2>8 DEF ToSet
  <2>10. ASSUME NEW x \in ToSet(q), x # r PROVE x \in ToSet(f)
    <3>1. PICK i \in 1..n : q[i] = x
      BY <2>2 DEF ToSet
    <3>2. i # k
      BY <3>1, <2>10, <2>4
    <3>3. CASE i = n
      <4>1. k \in 1..(n - 1)
        BY <3>2, <3>3, <2>2, <2>4
      <4>2. f[k] = x
        BY <4>1, <3>1, <3>3, <2>8
      <4>3. QED
        BY <4>1, <4>2, <2>7 DEF ToSet
    <3>4. CASE i # n
      <4>1. i \in 1..(n - 1)
        BY <3>4, <2>2
      <4>2. f[i] = x
        BY <4>1, <3>1, <3>2, <2>8
      <4>3. QED
        BY <4>1, <4>2, <2>7 DEF ToSet
    <3>5. QED
      BY <3>3, <3>4
  <2>11. ASSUME OneEach(q) PROVE OneEach(f) /\ r \notin ToSet(f)
    <3>1. \A i, j \in 1..n : q[i] = q[j] => i = j
      BY <2>11, <2>2 DEF OneEach
    <3>2. n \in 1..n /\ \A i \in 1..(n - 1) : i \in 1..n /\ i # n
      BY <2>2, <2>4
    <3>3. ASSUME NEW i \in 1..(n - 1), NEW j \in 1..(n - 1), f[i] = f[j] PROVE i = j
      BY <3>1, <3>2, <3>3, <2>8
    <3>4. ASSUME NEW i \in 1..(n - 1), f[i] = r PROVE FALSE
      <4>1. CASE i = k
        <5>1. q[n] = q[k]
          BY <4>1, <3>4, <2>8, <2>4
        <5>2. QED
          BY <5>1, <3>1, <3>2, <4>1, <2>4
      <4>2. CASE i # k
        BY <4>2, <3>1, <3>2, <3>4, <2>8, <2>4
      <4>3. QED
        BY <4>1, <4>2
    <3>5. QED
      BY <3>3, <3>4, <2>7 DEF OneEach, ToSet
  <2>12. QED
    BY <2>1, <2>7, <2>9, <2>10, <2>11 DEF f
<1>3. QED
  BY <1>1, <1>2

\* What appending leaves.
LEMMA Appended ==
    ASSUME NEW S, NEW q \in Seq(S), NEW x \in S
    PROVE  /\ Append(q, x) \in Seq(S) /\ Append(q, x) # <<>>
           /\ ToSet(Append(q, x)) = ToSet(q) \union {x}
           /\ OneEach(q) /\ x \notin ToSet(q) => OneEach(Append(q, x))
<1> DEFINE n == Len(q)
           a == Append(q, x)
<1>1. n \in Nat /\ DOMAIN q = 1..n
  OBVIOUS
<1>2. /\ a \in Seq(S) /\ Len(a) = n + 1 /\ DOMAIN a = 1..(n + 1)
      /\ a[n + 1] = x /\ \A i \in 1..n : a[i] = q[i]
  BY AppendProperties
<1> HIDE DEF a
<1>3. n + 1 \in 1..(n + 1) /\ \A i \in 1..(n + 1) : (i = n + 1 \/ i \in 1..n)
  BY <1>1
<1>4. \A i \in 1..n : i \in 1..(n + 1) /\ i # n + 1
  BY <1>1
<1> HIDE DEF n
<1>5. ToSet(a) = ToSet(q) \union {x}
  BY <1>1, <1>2, <1>3, <1>4 DEF ToSet
<1>6. ASSUME OneEach(q), x \notin ToSet(q) PROVE OneEach(a)
  <2>1. \A i \in 1..n : q[i] # x
    BY <1>1, <1>6 DEF ToSet
  <2>2. QED
    BY <2>1, <1>1, <1>2, <1>3, <1>6 DEF OneEach
<1>7. a # <<>>
  BY <1>2, <1>1 DEF n
<1>8. QED
  BY <1>2, <1>5, <1>6, <1>7 DEF a

\* A message may follow when no UNBIND or STOP of its service does.
LEMMA InOrderAppended ==
    ASSUME NEW q \in Seq(Message), NEW m \in Message, InOrder(q),
           \A x \in ToSet(q) : x.op \in {"UNBIND", "STOP"} => x.r # m.r
    PROVE  InOrder(Append(q, m))
<1> DEFINE n == Len(q)
           a == Append(q, m)
<1>1. n \in Nat /\ DOMAIN q = 1..n
  OBVIOUS
<1>2. /\ Len(a) = n + 1 /\ DOMAIN a = 1..(n + 1)
      /\ a[n + 1] = m /\ \A i \in 1..n : a[i] = q[i]
  BY AppendProperties
<1> HIDE DEF a
<1>3. ASSUME NEW i \in DOMAIN a, NEW j \in DOMAIN a, i < j, a[i].op \in {"UNBIND", "STOP"}
      PROVE  a[j].r # a[i].r
  <2>1. i \in 1..n
    BY <1>1, <1>2, <1>3
  <2>2. a[i] = q[i] /\ q[i] \in ToSet(q)
    BY <2>1, <1>1, <1>2 DEF ToSet
  <2>3. CASE j = n + 1
    BY <2>2, <2>3, <1>2, <1>3
  <2>4. CASE j # n + 1
    <3>1. j \in 1..n /\ a[j] = q[j]
      BY <2>4, <1>1, <1>2
    <3>2. QED
      BY <2>1, <2>2, <3>1, <1>1, <1>3 DEF InOrder
  <2>5. QED
    BY <2>3, <2>4
<1>4. QED
  BY <1>3 DEF InOrder, a

\* What taking the first message leaves.
LEMMA Taken ==
    ASSUME NEW q \in Seq(Message), q # <<>>
    PROVE  /\ Head(q) \in Message /\ Head(q) \in ToSet(q)
           /\ Tail(q) \in Seq(Message)
           /\ ToSet(q) = ToSet(Tail(q)) \union {Head(q)}
           /\ InOrder(q) => /\ InOrder(Tail(q))
                            /\ Head(q).op \in {"UNBIND", "STOP"} =>
                                 \A m \in ToSet(Tail(q)) : m.r # Head(q).r
<1> DEFINE n == Len(q)
           t == Tail(q)
<1>1. n \in Nat /\ n >= 1 /\ DOMAIN q = 1..n /\ 1 \in 1..n
  OBVIOUS
<1>2. /\ t \in Seq(Message) /\ Len(t) = n - 1 /\ DOMAIN t = 1..(n - 1)
      /\ \A i \in 1..(n - 1) : t[i] = q[i + 1]
      /\ Head(q) = q[1]
  BY HeadTailProperties
<1>3. q[1] \in Message
  BY <1>1
<1> HIDE DEF t
<1>4. \A i \in 1..(n - 1) : i + 1 \in 1..n
  BY <1>1
<1>5. \A i \in 1..n : (i # 1 => (i - 1 \in 1..(n - 1) /\ (i - 1) + 1 = i))
  BY <1>1
<1>6. ASSUME NEW x \in ToSet(q) PROVE x \in ToSet(t) \union {q[1]}
  <2>1. PICK i \in 1..n : q[i] = x
    BY <1>1 DEF ToSet
  <2>2. CASE i # 1
    <3>1. t[i - 1] = x /\ i - 1 \in 1..(n - 1)
      BY <2>1, <2>2, <1>2, <1>5
    <3>2. QED
      BY <3>1, <1>2 DEF ToSet
  <2>3. QED
    BY <2>1, <2>2
<1>7. ASSUME NEW x \in ToSet(t) PROVE x \in ToSet(q)
  <2>1. PICK i \in 1..(n - 1) : t[i] = x
    BY <1>2 DEF ToSet
  <2>2. QED
    BY <2>1, <1>1, <1>2, <1>4 DEF ToSet
<1>8. q[1] \in ToSet(q)
  BY <1>1 DEF ToSet
<1>9. ASSUME InOrder(q) PROVE InOrder(t)
  <2>1. ASSUME NEW i \in 1..(n - 1), NEW j \in 1..(n - 1), i < j, t[i].op \in {"UNBIND", "STOP"}
        PROVE  t[j].r # t[i].r
    <3>1. i + 1 \in 1..n /\ j + 1 \in 1..n /\ i + 1 < j + 1
      BY <2>1, <1>4
    <3>2. QED
      BY <3>1, <2>1, <1>1, <1>2, <1>9 DEF InOrder
  <2>2. QED
    BY <2>1, <1>2 DEF InOrder
<1>10. ASSUME InOrder(q), q[1].op \in {"UNBIND", "STOP"}, NEW m \in ToSet(t) PROVE m.r # q[1].r
  <2>1. PICK i \in 1..(n - 1) : t[i] = m
    BY <1>2 DEF ToSet
  <2>2. i + 1 \in 1..n /\ 1 < i + 1
    BY <1>4
  <2>3. QED
    BY <2>1, <2>2, <1>1, <1>2, <1>10 DEF InOrder
<1>11. QED
  BY <1>2, <1>3, <1>6, <1>7, <1>8, <1>9, <1>10 DEF t

-----------------------------------------------------------------------------
(* What a local step has to show of its own record and process.            *)

\* A local step keeps Base when the record it concerns is counted and sound.
LEMMA LocalKeepsBase ==
    ASSUME NEW s, Base(s), NEW r \in Record, NEW n, Local(s, n, r),
           s.rec[r].proc # 0, Counted(n, r), Sound(n, r)
    PROVE  Base(n)
<1> DEFINE p == s.rec[r].proc
<1>1. s \in StateType /\ n \in StateType /\ p \in Proc /\ n.rec[r].proc = p
  BY Parts, RecParts DEF Base, Local, LocalRec
<1>2. \A q \in Record \ {r} : n.rec[q] = s.rec[q]
  BY DEF Local
<1>3. \A q \in Proc : LocalProc(s.proc[q], n.proc[q], r) /\ (Up(n, q) <=> Up(s, q))
  BY DEF Local, LocalProc, Up
<1>4. \A q \in Proc : q # p => n.proc[q] = s.proc[q]
  BY DEF Local
<1>5. n.rec[r].name = s.rec[r].name /\ (n.rec[r].listed => s.rec[r].listed)
      /\ (s.rec[r].asked => n.rec[r].asked)
  BY DEF Local, LocalRec
<1>6. Up(s, p) \/ (/\ n.proc = s.proc
                   /\ n.rec[r].client.exists => s.rec[r].client.exists)
  BY <1>1 DEF Local, HasApp, Up
<1> HIDE DEF p
<1>7. Fresh(n)
  <2>1. r <= s.records
    <3>1. s.rec[r] # NoRecord
      BY DEF NoRecord
    <3>2. r \in Int /\ s.records \in Int
      BY Parts, <1>1 DEF Record
    <3>3. QED
      BY <3>1, <3>2 DEF Base, Fresh
  <2>2. ASSUME NEW q \in Record, q > n.records PROVE n.rec[q] = NoRecord
    <3>1. q # r
      BY <2>1, <2>2, <1>1, Parts DEF Local, Record
    <3>2. QED
      BY <3>1, <2>2, <1>2 DEF Base, Fresh, Local
  <2>3. ASSUME NEW q \in Proc, q > n.procs PROVE n.proc[q].mStatus = "NONE"
    <3>1. s.proc[q].mStatus = "NONE"
      BY <2>3 DEF Base, Fresh, Local
    <3>2. QED
      BY <3>1, <1>3 DEF LocalProc
  <2>4. QED
    BY <2>2, <2>3 DEF Fresh
<1>8. Placed(n)
  <2> SUFFICES ASSUME NEW q \in Record
               PROVE  /\ n.rec[q].listed \/ n.rec[q].client.exists => n.rec[q].proc # 0
                      /\ n.rec[q].proc # 0 => n.proc[n.rec[q].proc].mStatus \in {"RUNNING", "STOPPING", "GONE"}
    BY DEF Placed
  <2>1. n.rec[q].proc = s.rec[q].proc
    BY <1>1, <1>2 DEF p
  <2>2. n.rec[q].listed \/ n.rec[q].client.exists => n.rec[q].proc # 0
    BY <2>1, <1>2 DEF Base, Placed
  <2>3. ASSUME s.rec[q].proc # 0
        PROVE  n.proc[s.rec[q].proc].mStatus \in {"RUNNING", "STOPPING", "GONE"}
    <3>1. s.rec[q].proc \in Proc
      BY <2>3, <1>1, Parts, RecParts
    <3>2. s.proc[s.rec[q].proc].mStatus \in {"RUNNING", "STOPPING", "GONE"}
      BY <2>3 DEF Base, Placed
    <3>3. QED
      BY <3>1, <3>2, <1>3 DEF LocalProc
  <2>4. QED
    BY <2>1, <2>2, <2>3
<1>9. Idle(n)
  <2> SUFFICES ASSUME NEW q \in Proc, ~Up(n, q)
               PROVE  /\ n.proc[q].mExistService = <<>> /\ n.proc[q].sent = <<>>
                      /\ \A i \in Record : n.rec[i].proc = q => ~n.rec[i].client.exists
    BY DEF Idle
  <2>1. ~Up(s, q)
    BY <1>3
  <2>2. /\ s.proc[q].mExistService = <<>> /\ s.proc[q].sent = <<>>
        /\ \A i \in Record : s.rec[i].proc = q => ~s.rec[i].client.exists
    BY <2>1 DEF Base, Idle
  <2>3. n.proc[q] = s.proc[q]
    BY <2>1, <1>4, <1>6
  <2>4. ASSUME NEW i \in Record, n.rec[i].proc = q PROVE ~n.rec[i].client.exists
    BY <2>1, <2>2, <2>4, <1>1, <1>2, <1>6 DEF p
  <2>5. QED
    BY <2>2, <2>3, <2>4
<1>10. Own(n)
  <2> SUFFICES ASSUME NEW q \in Proc
               PROVE  /\ \A i \in Exists(n, q) : n.rec[i].proc = q
                      /\ \A m \in Queue(n, q) : IF m.op = "TERMINATE" THEN m.r = 0
                                                ELSE m.r \in Record /\ n.rec[m.r].proc = q
    BY DEF Own
  <2>1. /\ \A i \in Exists(s, q) : s.rec[i].proc = q
        /\ \A m \in Queue(s, q) : IF m.op = "TERMINATE" THEN m.r = 0
                                  ELSE m.r \in Record /\ s.rec[m.r].proc = q
    BY DEF Base, Own
  <2>2. \A i \in Record : n.rec[i].proc = s.rec[i].proc
    BY <1>1, <1>2 DEF p
  <2>3. Exists(s, q) \subseteq Record /\ Exists(n, q) \subseteq Record
    BY <1>1, Parts, ProcParts DEF Exists, ToSet
  <2>4. CASE q # p
    BY <2>1, <2>2, <2>3, <2>4, <1>4 DEF Exists, Queue
  <2>5. CASE q = p
    <3>1. ASSUME NEW i \in Exists(n, q) PROVE n.rec[i].proc = q
      BY <2>1, <2>2, <2>3, <2>5, <1>1, <1>3 DEF Exists, LocalProc
    <3>2. ASSUME NEW m \in Queue(n, q)
          PROVE  IF m.op = "TERMINATE" THEN m.r = 0 ELSE m.r \in Record /\ n.rec[m.r].proc = q
      <4>1. \/ m \in Queue(s, q)
            \/ m.op # "TERMINATE" /\ m.r = r
            \/ m.op = "TERMINATE" /\ m.r = 0
        BY <1>3 DEF LocalProc, Queue
      <4>2. QED
        BY <4>1, <2>1, <2>2, <2>5, <1>1
    <3>3. QED
      BY <3>1, <3>2
  <2>6. QED
    BY <2>4, <2>5
<1>11. ASSUME NEW q \in Record PROVE Counted(n, q) /\ Sound(n, q)
  <2>1. CASE q = r
    BY <2>1
  <2>2. CASE q # r
    <3>1. Counted(s, q) /\ Sound(s, q) /\ n.rec[q] = s.rec[q]
      BY <2>2, <1>2 DEF Base
    <3>2. s.rec[q].proc # 0 => s.rec[q].proc \in Proc
      BY <1>1, Parts, RecParts
    <3>3. HasApp(n, q) <=> HasApp(s, q)
      BY <3>1, <3>2, <1>3 DEF HasApp, Up
    <3>4. q \in Exists(s, s.rec[q].proc) /\ s.rec[q].proc # 0 => q \in Exists(n, s.rec[q].proc)
      BY <2>2, <3>2, <1>3 DEF LocalProc, Exists
    <3>5. QED
      BY <3>1, <3>3, <3>4 DEF Counted, Sound, HasApp
  <2>3. QED
    BY <2>1, <2>2
<1>12. QED
  BY <1>1, <1>7, <1>8, <1>9, <1>10, <1>11 DEF Base

\* A local step keeps Orderly when its process stays in order and its record
\* does not come to life again.
LEMMA LocalKeepsOrderly ==
    ASSUME NEW s, Base(s), NEW r \in Record, NEW n, Base(n), Local(s, n, r),
           NEW X, NEW h, Orderly(s, X, h), s.rec[r].proc # 0,
           Tidy(n, s.rec[r].proc), QueueOK(n, s.rec[r].proc),
           r \in X \/ n.rec[r].listed \/ Finished(n, r),
           Alive(n, r, h) => Alive(s, r, h)
    PROVE  Orderly(n, X, h)
<1> DEFINE p == s.rec[r].proc
<1>1. s \in StateType /\ n \in StateType /\ p \in Proc /\ n.rec[r].proc = p
  BY Parts, RecParts DEF Base, Local, LocalRec
<1>2. \A q \in Record \ {r} : n.rec[q] = s.rec[q]
  BY DEF Local
<1>3. \A q \in Proc : LocalProc(s.proc[q], n.proc[q], r)
  BY DEF Local
<1>4. \A q \in Proc : q # p => n.proc[q] = s.proc[q]
  BY DEF Local
<1>5. \A q \in Record : n.rec[q].name = s.rec[q].name /\ n.rec[q].proc = s.rec[q].proc
  BY <1>2 DEF Local, LocalRec
<1> HIDE DEF p
<1>6. ASSUME NEW q \in Proc PROVE Tidy(n, q) /\ Going(n, q) /\ QueueOK(n, q)
  <2>0. Tidy(s, q) /\ Going(s, q) /\ QueueOK(s, q)
    BY DEF Orderly
  <2>1. CASE q = p
    <3>1. Going(n, q)
      BY <2>0, <1>3 DEF Going, LocalProc
    <3>2. QED
      BY <3>1, <2>1 DEF p
  <2>2. CASE q # p
    <3>1. n.proc[q] = s.proc[q]
      BY <2>2, <1>4
    <3>2. \A i \in Exists(s, q) : i \in Record /\ i # r
      <4>1. Exists(s, q) \subseteq Record
        BY <1>1, Parts, ProcParts DEF Exists, ToSet
      <4>2. \A i \in Exists(s, q) : s.rec[i].proc = q
        BY DEF Base, Own
      <4>3. QED
        BY <4>1, <4>2, <2>2 DEF p
    <3>3. \A m \in Queue(s, q) : m.op = "STOP" => m.r \in Record /\ m.r # r
      <4>1. \A m \in Queue(s, q) : m.op = "STOP" => m.r \in Record /\ s.rec[m.r].proc = q
        BY DEF Base, Own
      <4>2. QED
        BY <4>1, <2>2 DEF p
    <3>4. Tidy(n, q)
      BY <2>0, <3>1, <3>2, <1>2 DEF Tidy, Exists, Queue
    <3>5. Going(n, q)
      BY <2>0, <3>1 DEF Going
    <3>6. QueueOK(n, q)
      BY <2>0, <3>1, <3>3, <1>2 DEF QueueOK, Queue
    <3>7. QED
      BY <3>4, <3>5, <3>6
  <2>3. QED
    BY <2>1, <2>2
<1>7. TasksDiffer(n)
  <2>1. \A q \in Proc : n.proc[q].attach = s.proc[q].attach
    BY <1>3 DEF LocalProc
  <2>2. QED
    BY <2>1 DEF Orderly, TasksDiffer
<1>8. ASSUME NEW q \in Record, q # r PROVE Finished(n, q) <=> Finished(s, q)
  <2>1. n.rec[q] = s.rec[q]
    BY <1>2, <1>8
  <2>2. ASSUME NEW o \in Proc
        PROVE  (\A m \in Queue(n, o) : m.r # q) <=> (\A m \in Queue(s, o) : m.r # q)
    <3>1. q # 0
      BY BoundsAssumption DEF Record
    <3>2. LocalProc(s.proc[o], n.proc[o], r)
      BY <1>3
    <3>3. QED
      BY <3>1, <3>2, <1>8 DEF LocalProc, Queue
  <2>3. QED
    BY <2>1, <2>2 DEF Finished
<1>9. \A q \in Record : Alive(n, q, h) => Alive(s, q, h)
  BY <1>2, <1>8 DEF Alive
<1>10. OneOfAName(n, h)
  BY <1>5, <1>9 DEF Orderly, OneOfAName
<1>11. \A q \in Record \ X : n.rec[q].listed \/ Finished(n, q)
  BY <1>2, <1>8 DEF Orderly
<1>12. ~n.undefined
  BY DEF Local, Orderly
<1>13. QED
  BY <1>6, <1>7, <1>10, <1>11, <1>12 DEF Orderly

-----------------------------------------------------------------------------
(* Steps.                                                                  *)

Step(s, n, r, c, X, h) == Inv(n, c, X, h) /\ Local(s, n, r)

\* n is s but for record r, which is x, and process p, which is y.
Both(s, n, r, x, p, y) ==
    /\ n \in StateType
    /\ n.rec[r] = x /\ \A q \in Record \ {r} : n.rec[q] = s.rec[q]
    /\ n.proc[p] = y /\ \A q \in Proc \ {p} : n.proc[q] = s.proc[q]
    /\ n.records = s.records /\ n.procs = s.procs /\ n.undefined = s.undefined

\* Two changes of the same record and process are one.
LEMMA BothIsTransitive ==
    ASSUME NEW s, NEW a, NEW b, NEW r, NEW p, NEW x, NEW y, NEW x2, NEW y2,
           Both(s, a, r, x, p, y), Both(a, b, r, x2, p, y2)
    PROVE  Both(s, b, r, x2, p, y2)
BY DEF Both

\* What assigning one record, one process, or what connections were told leaves alone.
LEMMA BothOfRec ==
    ASSUME NEW s \in StateType, NEW r \in Record, NEW x \in RecType, NEW n,
           n = [s EXCEPT !.rec[r] = x], NEW p \in Proc
    PROVE  Both(s, n, r, x, p, s.proc[p])
<1>1. /\ n \in StateType /\ n.rec[r] = x /\ \A q \in Record \ {r} : n.rec[q] = s.rec[q]
      /\ n.proc = s.proc /\ n.records = s.records /\ n.procs = s.procs /\ n.undefined = s.undefined
  BY DEF StateType
<1>2. QED
  BY <1>1 DEF Both

\* A change of the process alone.
LEMMA BothOfProc ==
    ASSUME NEW s \in StateType, NEW p \in Proc, NEW y \in ProcType, NEW n,
           n = [s EXCEPT !.proc[p] = y], NEW r \in Record
    PROVE  Both(s, n, r, s.rec[r], p, y)
<1>1. /\ n \in StateType /\ n.proc[p] = y /\ \A q \in Proc \ {p} : n.proc[q] = s.proc[q]
      /\ n.rec = s.rec /\ n.records = s.records /\ n.procs = s.procs /\ n.undefined = s.undefined
  BY DEF StateType
<1>2. QED
  BY <1>1 DEF Both

\* Telling connections changes neither records nor processes.
LEMMA BothOfTell ==
    ASSUME NEW s \in StateType, NEW r \in Record, NEW p \in Proc,
           NEW S, NEW what \in {"connected", "disconnected"}
    PROVE  Both(s, Tell(s, S, what), r, s.rec[r], p, s.proc[p])
BY TellChange DEF Both

\* addService() changes the services of the process alone.
LEMMA BothOfAdd ==
    ASSUME NEW s \in StateType, NEW r \in Record, NEW p \in Proc, s.rec[r].proc = p
    PROVE  Both(s, AddService(s, r), r, s.rec[r], p,
                [s.proc[p] EXCEPT !.mExistService = Append(s.proc[p].mExistService, r)])
<1> DEFINE y == [s.proc[p] EXCEPT !.mExistService = Append(s.proc[p].mExistService, r)]
<1>1. s.proc[p] \in ProcType /\ s.proc[p].mExistService \in Seq(Record)
  BY Parts, ProcParts
<1>2. Append(s.proc[p].mExistService, r) \in Seq(Record)
  BY <1>1, Appended
<1>3. y \in ProcType
  BY <1>1, <1>2 DEF ProcType
<1>4. AddService(s, r) = [s EXCEPT !.proc[p] = y]
  BY DEF AddService
<1> HIDE DEF y
<1>5. QED
  BY <1>3, <1>4, BothOfProc DEF y

\* deleteService() changes the services of the process alone.
LEMMA BothOfDelete ==
    ASSUME NEW s \in StateType, NEW r \in Record, NEW p \in Proc, s.rec[r].proc = p
    PROVE  Both(s, DeleteService(s, r), r, s.rec[r], p,
                [s.proc[p] EXCEPT !.mExistService = SwappedOut(s.proc[p].mExistService, r)])
<1> DEFINE y == [s.proc[p] EXCEPT !.mExistService = SwappedOut(s.proc[p].mExistService, r)]
<1>1. s.proc[p] \in ProcType /\ s.proc[p].mExistService \in Seq(Record)
  BY Parts, ProcParts
<1>2. SwappedOut(s.proc[p].mExistService, r) \in Seq(Record)
  BY <1>1, SwappedOutFacts
<1>3. y \in ProcType
  BY <1>1, <1>2 DEF ProcType
<1>4. DeleteService(s, r) = [s EXCEPT !.proc[p] = y]
  BY DEF DeleteService
<1> HIDE DEF y
<1>5. QED
  BY <1>3, <1>4, BothOfProc DEF y

\* A message to the client changes the queue of its process alone.
LEMMA BothOfSent ==
    ASSUME NEW s \in StateType, NEW r \in Record, NEW p \in Proc, s.rec[r].proc = p,
           NEW op \in Ops, NEW conn \in Conn \union {NoConn}
    PROVE  /\ [op |-> op, r |-> r, conn |-> conn] \in Message
           /\ Both(s, Sent(s, r, op, conn), r, s.rec[r], p,
                   [s.proc[p] EXCEPT !.sent = Append(s.proc[p].sent, [op |-> op, r |-> r, conn |-> conn])])
<1> DEFINE m == [op |-> op, r |-> r, conn |-> conn]
           y == [s.proc[p] EXCEPT !.sent = Append(s.proc[p].sent, m)]
<1>1. s.proc[p] \in ProcType /\ s.proc[p].sent \in Seq(Message)
  BY Parts, ProcParts
<1>2. m \in Message
  BY BoundsAssumption DEF Message, Record
<1>3. Append(s.proc[p].sent, m) \in Seq(Message)
  BY <1>1, <1>2, Appended
<1>4. y \in ProcType
  BY <1>1, <1>3 DEF ProcType
<1>5. Sent(s, r, op, conn) = [s EXCEPT !.proc[p] = y]
  BY DEF Sent
<1> HIDE DEF y
<1>6. Both(s, Sent(s, r, op, conn), r, s.rec[r], p, y)
  BY <1>4, <1>5, BothOfProc
<1>7. QED
  BY <1>2, <1>6 DEF y

\* A change of a record and its process is local, if each part is.
LEMMA LocalOfBoth ==
    ASSUME NEW s \in StateType, NEW r \in Record, NEW p \in Proc, s.rec[r].proc = p,
           NEW n, NEW x, NEW y, Both(s, n, r, x, p, y),
           LocalRec(s.rec[r], x), LocalProc(s.proc[p], y, r),
           HasApp(s, r) \/ (y = s.proc[p] /\ (x.client.exists => s.rec[r].client.exists))
    PROVE  Local(s, n, r)
<1>1. \A q \in Proc : LocalProc(s.proc[q], s.proc[q], r)
  BY DEF LocalProc
<1>2. \A q \in Proc : LocalProc(s.proc[q], n.proc[q], r)
  BY <1>1 DEF Both
<1>3. y = s.proc[p] => n.proc = s.proc
  <2>1. n.proc = [q \in Proc |-> n.proc[q]] /\ s.proc = [q \in Proc |-> s.proc[q]]
    BY DEF Both, StateType
  <2>2. y = s.proc[p] => \A q \in Proc : n.proc[q] = s.proc[q]
    BY DEF Both
  <2>3. QED
    BY <2>1, <2>2
<1>4. QED
  BY <1>2, <1>3 DEF Both, Local

\* A step of a service whose process is up.
LEMMA StepOfBoth ==
    ASSUME NEW s, NEW c, NEW X, NEW h, Inv(s, c, X, h),
           NEW r \in Record, HasApp(s, r), NEW p, s.rec[r].proc = p,
           NEW n, NEW x, NEW y, Both(s, n, r, x, p, y),
           LocalRec(s.rec[r], x), LocalProc(s.proc[p], y, r),
           x.listed /\ x.mStartFlag # {} /\ ~x.asked => r \in ToSet(y.mExistService),
           x.listed => ("BINDED" \in x.mStartFlag <=> x.mConnectRecord # {}),
           c => /\ x.listed /\ s.rec[r].listed
                /\ y.mStatus = "RUNNING" =>
                     /\ OneEach(y.mExistService)
                     /\ r \in ToSet(y.mExistService) => ~x.asked /\ x.mStartFlag # {}
                     /\ \A m \in ToSet(y.sent) : m.op # "TERMINATE"
                /\ InOrder(y.sent)
                /\ \A m \in ToSet(y.sent) : m.op = "STOP" /\ m.r = r => x.asked
    PROVE  Step(s, n, r, c, X, h)
<1>1. s \in StateType /\ Base(s) /\ p \in Proc /\ s.rec[r].proc # 0
  BY Parts, RecParts DEF Inv, Base, HasApp
<1>2. Local(s, n, r)
  BY <1>1, LocalOfBoth
<1>3. n.rec[r] = x /\ n.proc[p] = y /\ n.rec[r].proc = p /\ n \in StateType
  BY DEF Both, LocalRec
<1>4. HasApp(n, r)
  BY <1>1, <1>3 DEF HasApp, LocalProc
<1>5. Counted(n, r) /\ Sound(n, r)
  BY <1>3, <1>4 DEF Counted, Sound, Exists
<1>6. Base(n)
  BY <1>1, <1>2, <1>5, LocalKeepsBase
<1>7. ASSUME c PROVE Orderly(n, X, h)
  <2>1. Orderly(s, X, h) /\ Tidy(s, p) /\ QueueOK(s, p)
    BY <1>1, <1>7 DEF Inv, Orderly
  <2>2. \A q \in Record \ {r} : n.rec[q] = s.rec[q]
    BY DEF Both
  <2>3. Exists(s, p) \subseteq Record /\ Exists(n, p) \subseteq Record
    BY <1>1, <1>3, Parts, ProcParts DEF Exists, ToSet
  <2>4. Tidy(n, p)
    <3>1. ASSUME y.mStatus = "RUNNING" PROVE s.proc[p].mStatus = "RUNNING"
      BY <3>1 DEF LocalProc
    <3>2. ASSUME y.mStatus = "RUNNING", NEW q \in Exists(n, p)
          PROVE  n.rec[q].listed /\ ~n.rec[q].asked /\ n.rec[q].mStartFlag # {}
      <4>1. CASE q = r
        BY <4>1, <3>2, <1>3, <1>7 DEF Exists
      <4>2. CASE q # r
        <5>1. q \in Exists(s, p)
          BY <4>2, <3>2, <1>3 DEF LocalProc, Exists
        <5>2. QED
          BY <5>1, <4>2, <3>1, <3>2, <2>1, <2>2, <2>3 DEF Tidy
      <4>3. QED
        BY <4>1, <4>2
    <3>3. QED
      BY <3>2, <1>3, <1>7 DEF Tidy, Exists, Queue
  <2>5. QueueOK(n, p)
    <3>1. ASSUME NEW m \in Queue(n, p), m.op = "STOP" PROVE n.rec[m.r].asked
      <4>1. CASE m.r = r
        BY <4>1, <3>1, <1>3, <1>7 DEF Queue
      <4>2. CASE m.r # r
        <5>1. m \in Queue(s, p)
          BY <4>2, <3>1, <1>3 DEF LocalProc, Queue
        <5>2. m.r \in Record
          BY <5>1, <3>1, <1>1 DEF Base, Own
        <5>3. QED
          BY <5>1, <5>2, <4>2, <3>1, <2>1, <2>2 DEF QueueOK
      <4>3. QED
        BY <4>1, <4>2
    <3>2. QED
      BY <3>1, <1>3, <1>7 DEF QueueOK
  <2>6. n.rec[r].listed /\ Alive(s, r, h)
    BY <1>3, <1>7 DEF Alive
  <2>7. QED
    BY <1>1, <1>2, <1>6, <2>1, <2>4, <2>5, <2>6, LocalKeepsOrderly
<1>8. QED
  BY <1>2, <1>6, <1>7 DEF Step, Inv

\* A step that changes nothing but what connections were told.
LEMMA StepOfTell ==
    ASSUME NEW s, NEW c, NEW X, NEW h, Inv(s, c, X, h), NEW r \in Record,
           NEW S, NEW what \in {"connected", "disconnected"}
    PROVE  Step(s, Tell(s, S, what), r, c, X, h)
<1> DEFINE n == Tell(s, S, what)
<1>1. /\ s \in StateType /\ n \in StateType /\ n.rec = s.rec /\ n.proc = s.proc
      /\ n.records = s.records /\ n.procs = s.procs /\ n.undefined = s.undefined
  BY TellChange DEF Inv, Base
<1> HIDE DEF n
<1>2. Base(n)
  BY <1>1 DEF Inv, Base, Fresh, Placed, Idle, Up, Own, Exists, Queue, Counted, Sound, HasApp
<1>3. c => Orderly(n, X, h)
  BY <1>1 DEF Inv, Orderly, Tidy, Going, QueueOK, Exists, Queue, TasksDiffer, OneOfAName, Alive, Finished
<1>4. Local(s, n, r)
  BY <1>1, LocalIsReflexive DEF Local
<1>5. QED
  BY <1>2, <1>3, <1>4 DEF Step, Inv, n

\* Doing nothing is a step.
LEMMA StepIsReflexive ==
    ASSUME NEW s, NEW c, NEW X, NEW h, Inv(s, c, X, h), NEW r \in Record
    PROVE  Step(s, s, r, c, X, h)
BY LocalIsReflexive DEF Step, Inv, Base

\* Two steps that concern one record are one.
LEMMA StepIsTransitive ==
    ASSUME NEW s, NEW a, NEW b, NEW r \in Record, NEW c, NEW X, NEW h, NEW Y,
           s \in StateType, Step(s, a, r, c, Y, h), Step(a, b, r, c, X, h)
    PROVE  Step(s, b, r, c, X, h)
BY LocalIsTransitive DEF Step, Inv, Base

\* A step that changes a record only.
LEMMA StepOfRec ==
    ASSUME NEW s, NEW c, NEW X, NEW h, Inv(s, c, X, h),
           NEW r \in Record, NEW p \in Proc, s.rec[r].proc = p,
           NEW n, NEW x, Both(s, n, r, x, p, s.proc[p]), LocalRec(s.rec[r], x),
           x.client.exists => \/ s.rec[r].client.exists
                              \/ HasApp(s, r) /\ (c => Alive(s, r, h) /\ (s.rec[r].listed \/ r \in X)),
           x.listed /\ x.mStartFlag # {} => s.rec[r].mStartFlag # {},
           x.listed => /\ HasApp(s, r) => ("BINDED" \in x.mStartFlag <=> x.mConnectRecord # {})
                       /\ HasApp(s, r) \/ x.asked \/ x.mStartFlag = {},
           c => /\ s.proc[p].mStatus = "RUNNING" /\ r \in Exists(s, p) =>
                     x.listed /\ ~x.asked /\ x.mStartFlag # {}
                /\ s.rec[r].listed => x.listed \/ r \in X
    PROVE  Step(s, n, r, c, X, h)
<1>1. s \in StateType /\ Base(s) /\ s.rec[r].proc # 0
  BY BoundsAssumption DEF Inv, Base, Proc
<1>2. n.rec[r] = x /\ n.rec[r].proc = p /\ n \in StateType /\ n.undefined = s.undefined
  BY DEF Both, LocalRec
<1>3. n.proc = s.proc
  <2>1. n.proc = [q \in Proc |-> n.proc[q]] /\ s.proc = [q \in Proc |-> s.proc[q]]
    BY <1>1 DEF Both, StateType
  <2>2. \A q \in Proc : n.proc[q] = s.proc[q]
    BY DEF Both
  <2>3. QED
    BY <2>1, <2>2
<1>4. Local(s, n, r)
  <2>1. LocalProc(s.proc[p], s.proc[p], r)
    BY DEF LocalProc
  <2>2. QED
    BY <1>1, <2>1, LocalOfBoth
<1>5. HasApp(n, r) <=> HasApp(s, r)
  BY <1>1, <1>2, <1>3 DEF HasApp
<1>6. Counted(n, r)
  <2>1. Counted(s, r)
    BY <1>1 DEF Base
  <2>2. QED
    BY <1>2, <1>3, <1>5, <2>1 DEF Counted, LocalRec, Exists
<1>7. Sound(n, r)
  BY <1>2, <1>5 DEF Sound
<1>8. Base(n)
  BY <1>1, <1>4, <1>6, <1>7, LocalKeepsBase
<1>9. ASSUME c PROVE Orderly(n, X, h)
  <2>1. Orderly(s, X, h) /\ Tidy(s, p) /\ QueueOK(s, p)
    BY <1>9 DEF Inv, Orderly
  <2>2. \A q \in Record \ {r} : n.rec[q] = s.rec[q]
    BY DEF Both
  <2>3. Exists(s, p) \subseteq Record /\ Exists(n, p) = Exists(s, p)
    BY <1>1, <1>3, Parts, ProcParts DEF Exists, ToSet
  <2>4. Tidy(n, p)
    BY <2>1, <2>2, <2>3, <1>2, <1>3, <1>9 DEF Tidy, Queue
  <2>5. QueueOK(n, p)
    <3>1. ASSUME NEW m \in Queue(s, p), m.op = "STOP" PROVE n.rec[m.r].asked
      <4>1. m.r \in Record /\ s.rec[m.r].asked
        BY <3>1, <2>1, <1>1 DEF Base, Own, QueueOK
      <4>2. QED
        BY <4>1, <2>2, <1>2 DEF LocalRec
    <3>2. QED
      BY <3>1, <2>1, <1>3 DEF QueueOK, Queue
  <2>6. (\A q \in Proc : \A m \in Queue(n, q) : m.r # r) <=> (\A q \in Proc : \A m \in Queue(s, q) : m.r # r)
    BY <1>3 DEF Queue
  <2>7. x.client.exists \/ (Finished(s, r) => Finished(n, r))
    BY <2>6, <1>2 DEF Finished
  <2>8. r \in X \/ s.rec[r].listed \/ Finished(s, r)
    BY <2>1 DEF Orderly
  <2>9. r \in X \/ n.rec[r].listed \/ Finished(n, r)
    BY <2>7, <2>8, <1>2, <1>9 DEF Finished
  <2>10. Alive(n, r, h) => Alive(s, r, h)
    BY <2>7, <1>2, <1>9 DEF Alive, LocalRec, Finished
  <2>11. QED
    BY <1>1, <1>4, <1>8, <2>1, <2>4, <2>5, <2>9, <2>10, LocalKeepsOrderly
<1>10. QED
  BY <1>4, <1>8, <1>9 DEF Step, Inv

-----------------------------------------------------------------------------
(* The requests of the server's records.                                   *)

\* Neither an UNBIND nor a STOP of the service is on its way.
Free(s, r) == \A p \in Proc : \A m \in Queue(s, p) :
    m.r = r => m.op \notin {"UNBIND", "STOP"}

\* Sending a message about a service, none of which ends it, keeps the queue.
LEMMA QueueAfter ==
    ASSUME NEW s, NEW c, NEW X, NEW h, Inv(s, c, X, h), NEW r \in Record, NEW p \in Proc,
           NEW m \in Message, m.r = r, m.op # "TERMINATE", c => Free(s, r)
    PROVE  LET sent == Append(s.proc[p].sent, m)
           IN /\ ToSet(sent) = Queue(s, p) \union {m}
              /\ c => InOrder(sent)
              /\ c /\ s.proc[p].mStatus = "RUNNING" => \A i \in ToSet(sent) : i.op # "TERMINATE"
              /\ c => \A i \in ToSet(sent) : i.op = "STOP" /\ i.r = r => i = m
<1> DEFINE q == s.proc[p].sent
<1>1. q \in Seq(Message)
  BY Parts, ProcParts DEF Inv, Base
<1>2. Queue(s, p) = ToSet(q)
  BY DEF Queue
<1>3. c => /\ InOrder(q) /\ \A i \in ToSet(q) : i.r = r => i.op \notin {"UNBIND", "STOP"}
           /\ s.proc[p].mStatus = "RUNNING" => \A i \in ToSet(q) : i.op # "TERMINATE"
  BY DEF Inv, Orderly, Tidy, QueueOK, Free, Queue
<1> HIDE DEF q
<1>5. ToSet(Append(q, m)) = ToSet(q) \union {m}
  BY <1>1, Appended
<1>6. c => InOrder(Append(q, m))
  BY <1>1, <1>3, InOrderAppended
<1>7. /\ c /\ s.proc[p].mStatus = "RUNNING" => \A i \in ToSet(Append(q, m)) : i.op # "TERMINATE"
      /\ c => \A i \in ToSet(Append(q, m)) : i.op = "STOP" /\ i.r = r => i = m
  BY <1>3, <1>5
<1>8. QED
  BY <1>2, <1>5, <1>6, <1>7 DEF q

\* A step of a service that sends one message to its process.
LEMMA SendStep ==
    ASSUME NEW s, NEW c, NEW X, NEW h, Inv(s, c, X, h),
           NEW r \in Record, HasApp(s, r), NEW p, s.rec[r].proc = p,
           NEW n, NEW x, NEW y, Both(s, n, r, x, p, y), LocalRec(s.rec[r], x),
           y.attach = s.proc[p].attach, y.terminated = s.proc[p].terminated,
           y.mStatus = s.proc[p].mStatus,
           NEW m \in Message, y.sent = Append(s.proc[p].sent, m),
           m.op # "TERMINATE", m.r = r, m.op = "STOP" => x.asked,
           Exists(s, p) \subseteq ToSet(y.mExistService) \union {r},
           ToSet(y.mExistService) \subseteq Exists(s, p) \union {r},
           x.listed /\ x.mStartFlag # {} /\ ~x.asked => r \in ToSet(y.mExistService),
           x.listed => ("BINDED" \in x.mStartFlag <=> x.mConnectRecord # {}),
           c => /\ x.listed /\ s.rec[r].listed /\ Free(s, r)
                /\ y.mStatus = "RUNNING" =>
                     /\ OneEach(y.mExistService)
                     /\ r \in ToSet(y.mExistService) => ~x.asked /\ x.mStartFlag # {}
    PROVE  Step(s, n, r, c, X, h)
<1>1. p \in Proc
  BY Parts, RecParts DEF HasApp, Inv, Base
<1>2. /\ ToSet(y.sent) = Queue(s, p) \union {m}
      /\ c => InOrder(y.sent)
      /\ c /\ y.mStatus = "RUNNING" => \A i \in ToSet(y.sent) : i.op # "TERMINATE"
      /\ c => \A i \in ToSet(y.sent) : i.op = "STOP" /\ i.r = r => i = m
  <2>1. c => Free(s, r)
    OBVIOUS
  <2>2. LET sent == Append(s.proc[p].sent, m)
        IN /\ ToSet(sent) = Queue(s, p) \union {m}
           /\ c => InOrder(sent)
           /\ c /\ s.proc[p].mStatus = "RUNNING" => \A i \in ToSet(sent) : i.op # "TERMINATE"
           /\ c => \A i \in ToSet(sent) : i.op = "STOP" /\ i.r = r => i = m
    BY <1>1, <2>1, QueueAfter
  <2>3. QED
    BY <2>2
<1>3. LocalProc(s.proc[p], y, r)
  BY <1>2 DEF LocalProc, Exists, Queue
<1>4. c => /\ x.listed /\ s.rec[r].listed
           /\ y.mStatus = "RUNNING" =>
                /\ OneEach(y.mExistService)
                /\ r \in ToSet(y.mExistService) => ~x.asked /\ x.mStartFlag # {}
                /\ \A i \in ToSet(y.sent) : i.op # "TERMINATE"
           /\ InOrder(y.sent)
           /\ \A i \in ToSet(y.sent) : i.op = "STOP" /\ i.r = r => x.asked
  BY <1>2
<1>5. QED
  BY <1>3, <1>4, StepOfBoth

SameStatus(s, n, r) == n.proc[s.rec[r].proc].mStatus = s.proc[s.rec[r].proc].mStatus

\* start() keeps the invariant: a careful caller starts a listed service that
\* is neither started, bound nor being stopped.
LEMMA StartStep ==
    ASSUME NEW s, NEW c, NEW X, NEW h, Inv(s, c, X, h),
           NEW r \in Record, s.rec[r].proc # 0,
           c => s.rec[r].listed /\ ~s.rec[r].asked /\ s.rec[r].mStartFlag = {} /\ Free(s, r)
    PROVE  Step(s, Start(s, r), r, c, X, h) /\ SameStatus(s, Start(s, r), r)
<1>1. CASE ~HasApp(s, r)
  BY <1>1, StepIsReflexive DEF Start, SameStatus
<1>2. CASE HasApp(s, r)
  <2> DEFINE p == s.rec[r].proc
             a == s.proc[p]
             w == s.rec[r]
             x == [w EXCEPT !.mStartFlag = w.mStartFlag \union {"STARTED"}]
             y1 == [a EXCEPT !.mExistService = Append(a.mExistService, r)]
             m == [op |-> "START", r |-> r, conn |-> NoConn]
             y == [y1 EXCEPT !.sent = Append(y1.sent, m)]
             s1 == [s EXCEPT !.rec[r].mStartFlag = w.mStartFlag \union {"STARTED"}]
             s2 == AddService(s1, r)
             n == Sent(s2, r, "START", NoConn)
  <2>1. /\ s \in StateType /\ Base(s) /\ p \in Proc /\ w \in RecType /\ a \in ProcType
        /\ a.mExistService \in Seq(Record) /\ a.sent \in Seq(Message)
    BY <1>2, Parts, RecParts, ProcParts DEF Inv, Base
  <2>2. x \in RecType /\ x.proc = p
    BY <2>1 DEF RecType, Flags
  <2>3. s1 = [s EXCEPT !.rec[r] = x]
    OBVIOUS
  <2>4. Both(s, s1, r, x, p, a)
    <3> HIDE DEF s1, x, p
    <3>1. QED
      BY <2>1, <2>2, <2>3, BothOfRec
  <2>5. s1 \in StateType /\ s1.rec[r] = x /\ s1.proc[p] = a
    BY <2>4 DEF Both
  <2>6. Both(s1, s2, r, x, p, y1)
    <3> HIDE DEF s1, x, p, a
    <3>1. QED
      BY <2>1, <2>2, <2>5, BothOfAdd
  <2>7. s2 \in StateType /\ s2.rec[r] = x /\ s2.proc[p] = y1
    BY <2>6 DEF Both
  <2>8. m \in Message /\ Both(s2, n, r, x, p, y)
    <3> HIDE DEF s2, x, p, y1
    <3>1. QED
      BY <2>1, <2>2, <2>7, BothOfSent DEF Ops
  <2>9. Both(s, n, r, x, p, y)
    <3> HIDE DEF s1, s2, n, x, p, y1, y
    <3>1. QED
      BY <2>4, <2>6, <2>8, BothIsTransitive
  <2>10. Start(s, r) = n
    BY <1>2 DEF Start
  <2>11. y.mExistService = Append(a.mExistService, r) /\ y.sent = Append(a.sent, m)
         /\ y.attach = a.attach /\ y.terminated = a.terminated /\ y.mStatus = a.mStatus
    BY <2>1 DEF ProcType
  <2>12. /\ x.listed = w.listed /\ x.asked = w.asked /\ x.name = w.name /\ x.proc = w.proc
         /\ x.mConnectRecord = w.mConnectRecord
         /\ x.mStartFlag # {} /\ ("BINDED" \in x.mStartFlag <=> "BINDED" \in w.mStartFlag)
    BY <2>1 DEF RecType
  <2>13. m.op # "TERMINATE" /\ m.op # "STOP" /\ m.r = r
    OBVIOUS
  <2>14. s.rec[r].proc = p /\ s.proc[p] = a /\ s.rec[r] = w
    OBVIOUS
  <2> HIDE DEF s1, s2, n, x, y1, y, m, p, a, w
  <2>15. /\ ToSet(y.mExistService) = Exists(s, p) \union {r}
         /\ OneEach(a.mExistService) /\ r \notin Exists(s, p) => OneEach(y.mExistService)
    BY <2>1, <2>11, <2>14, Appended DEF Exists
  <2>16. w.listed => ("BINDED" \in w.mStartFlag <=> w.mConnectRecord # {})
    BY <2>1, <2>14, <1>2 DEF Base, Sound
  <2>17. c => /\ x.listed /\ s.rec[r].listed /\ Free(s, r) /\ ~x.asked
              /\ y.mStatus = "RUNNING" => OneEach(y.mExistService)
    <3>1. ASSUME c, a.mStatus = "RUNNING" PROVE OneEach(a.mExistService) /\ r \notin Exists(s, p)
      <4>1. Tidy(s, p)
        BY <3>1, <2>1 DEF Inv, Orderly
      <4>2. QED
        BY <4>1, <3>1, <2>14 DEF Tidy
    <3>2. QED
      BY <3>1, <2>11, <2>12, <2>14, <2>15
  <2>18. LocalRec(s.rec[r], x)
    BY <2>12, <2>14 DEF LocalRec
  <2>19. /\ y.attach = s.proc[p].attach /\ y.terminated = s.proc[p].terminated
         /\ y.mStatus = s.proc[p].mStatus /\ y.sent = Append(s.proc[p].sent, m)
    BY <2>11, <2>14
  <2>20. Step(s, n, r, c, X, h)
    <3>1. c => /\ x.listed /\ s.rec[r].listed /\ Free(s, r)
               /\ y.mStatus = "RUNNING" =>
                     /\ OneEach(y.mExistService)
                     /\ r \in ToSet(y.mExistService) => ~x.asked /\ x.mStartFlag # {}
      BY <2>12, <2>17
    <3>2. /\ Exists(s, p) \subseteq ToSet(y.mExistService) \union {r}
          /\ ToSet(y.mExistService) \subseteq Exists(s, p) \union {r}
          /\ r \in ToSet(y.mExistService)
      BY <2>15
    <3>3. x.listed => ("BINDED" \in x.mStartFlag <=> x.mConnectRecord # {})
      BY <2>12, <2>16
    <3>4. m \in Message
      BY <2>8
    <3>5. QED
      BY <1>2, <2>9, <2>13, <2>14, <2>18, <2>19, <3>1, <3>2, <3>3, <3>4, SendStep
  <2>21. SameStatus(s, n, r)
    BY <2>9, <2>14, <2>19 DEF SameStatus, Both
  <2>22. QED
    BY <2>10, <2>20, <2>21
<1>3. QED
  BY <1>1, <1>2

\* stop() keeps the invariant.
LEMMA StopStep ==
    ASSUME NEW s, NEW c, NEW X, NEW h, Inv(s, c, X, h),
           NEW r \in Record, s.rec[r].proc # 0,
           c => s.rec[r].listed /\ Free(s, r)
    PROVE  Step(s, Stop(s, r), r, c, X, h)
<1> DEFINE p == s.rec[r].proc
           a == s.proc[p]
           w == s.rec[r]
           x == [w EXCEPT !.asked = TRUE]
           s0 == [s EXCEPT !.rec[r].asked = TRUE]
           s1 == Tell(s0, w.mConnectRecord, "disconnected")
<1>1. /\ s \in StateType /\ Base(s) /\ p \in Proc /\ w \in RecType /\ a \in ProcType
      /\ a.mExistService \in Seq(Record) /\ a.sent \in Seq(Message)
  BY Parts, RecParts, ProcParts DEF Inv, Base
<1>2. x \in RecType /\ x.proc = p
  BY <1>1 DEF RecType
<1>3. s0 = [s EXCEPT !.rec[r] = x]
  OBVIOUS
<1>4. Both(s, s0, r, x, p, a)
  <2> HIDE DEF s0, x, p
  <2>1. QED
    BY <1>1, <1>2, <1>3, BothOfRec
<1>5. s0 \in StateType /\ s0.rec[r] = x /\ s0.proc[p] = a
  BY <1>4 DEF Both
<1>6. Both(s, s1, r, x, p, a)
  <2>1. Both(s0, s1, r, x, p, a)
    <3> HIDE DEF s0, x, p, a
    <3>1. QED
      BY <1>1, <1>5, BothOfTell
  <2> HIDE DEF s0, s1, x, p, a
  <2>2. QED
    BY <1>4, <2>1, BothIsTransitive
<1>7. s1 \in StateType /\ s1.rec[r] = x /\ s1.proc[p] = a
  BY <1>6 DEF Both
<1>8. /\ x.listed = w.listed /\ x.asked /\ x.name = w.name /\ x.proc = w.proc /\ x.client = w.client
      /\ x.mConnectRecord = w.mConnectRecord /\ x.mStartFlag = w.mStartFlag
  BY <1>1 DEF RecType
<1>9. s.rec[r].proc = p /\ s.proc[p] = a /\ s.rec[r] = w
  OBVIOUS
<1>10. Stop(s, r) = IF ~HasApp(s, r) THEN s1 ELSE Sent(DeleteService(s1, r), r, "STOP", NoConn)
  BY DEF Stop
<1> HIDE DEF s0, s1, x, p, a, w
<1>11. LocalRec(s.rec[r], x)
  BY <1>8, <1>9 DEF LocalRec
<1>12. w.listed /\ HasApp(s, r) => ("BINDED" \in w.mStartFlag <=> w.mConnectRecord # {})
  BY <1>1, <1>9 DEF Base, Sound
<1>13. CASE ~HasApp(s, r)
  <2>1. a.mStatus # "RUNNING"
    BY <1>13, <1>1, <1>9 DEF HasApp, Proc
  <2>2. Step(s, s1, r, c, X, h)
    BY <1>1, <1>6, <1>8, <1>9, <1>11, <1>13, <2>1, StepOfRec
  <2>3. QED
    BY <1>10, <1>13, <2>2
<1>14. CASE HasApp(s, r)
  <2> DEFINE y1 == [a EXCEPT !.mExistService = SwappedOut(a.mExistService, r)]
             m == [op |-> "STOP", r |-> r, conn |-> NoConn]
             y == [y1 EXCEPT !.sent = Append(y1.sent, m)]
             s2 == DeleteService(s1, r)
             n == Sent(s2, r, "STOP", NoConn)
  <2>1. Both(s1, s2, r, x, p, y1)
    BY <1>1, <1>2, <1>7, BothOfDelete
  <2>2. s2 \in StateType /\ s2.rec[r] = x /\ s2.proc[p] = y1
    BY <2>1 DEF Both
  <2>3. m \in Message /\ Both(s2, n, r, x, p, y)
    <3> HIDE DEF s2, y1
    <3>1. QED
      BY <1>1, <1>2, <2>2, BothOfSent DEF Ops
  <2>4. Both(s, n, r, x, p, y)
    <3> HIDE DEF s2, n, y1, y
    <3>1. QED
      BY <1>6, <2>1, <2>3, BothIsTransitive
  <2>5. y.mExistService = SwappedOut(a.mExistService, r) /\ y.sent = Append(a.sent, m)
        /\ y.attach = a.attach /\ y.terminated = a.terminated /\ y.mStatus = a.mStatus
    BY <1>1 DEF ProcType
  <2>6. m.op # "TERMINATE" /\ m.r = r
    OBVIOUS
  <2>7. Stop(s, r) = n
    BY <1>10, <1>14
  <2> HIDE DEF s2, n, y1, y, m
  <2>8. /\ ToSet(y.mExistService) \subseteq Exists(s, p)
        /\ Exists(s, p) \subseteq ToSet(y.mExistService) \union {r}
        /\ OneEach(a.mExistService) => OneEach(y.mExistService) /\ r \notin ToSet(y.mExistService)
    BY <1>1, <1>9, <2>5, SwappedOutFacts DEF Exists
  <2>9. c => /\ x.listed /\ s.rec[r].listed /\ Free(s, r)
             /\ y.mStatus = "RUNNING" =>
                  /\ OneEach(y.mExistService)
                  /\ r \in ToSet(y.mExistService) => ~x.asked /\ x.mStartFlag # {}
    <3>1. ASSUME c, a.mStatus = "RUNNING" PROVE OneEach(a.mExistService)
      <4>1. Tidy(s, p)
        BY <3>1, <1>1 DEF Inv, Orderly
      <4>2. QED
        BY <4>1, <3>1, <1>9 DEF Tidy
    <3>2. QED
      BY <3>1, <2>5, <2>8, <1>8, <1>9
  <2>10. /\ y.attach = s.proc[p].attach /\ y.terminated = s.proc[p].terminated
         /\ y.mStatus = s.proc[p].mStatus /\ y.sent = Append(s.proc[p].sent, m)
    BY <2>5, <1>9
  <2>11. x.listed => ("BINDED" \in x.mStartFlag <=> x.mConnectRecord # {})
    BY <1>8, <1>12, <1>14
  <2>12. Step(s, n, r, c, X, h)
    <3>1. m \in Message
      BY <2>3
    <3>2. /\ Exists(s, p) \subseteq ToSet(y.mExistService) \union {r}
          /\ ToSet(y.mExistService) \subseteq Exists(s, p) \union {r}
      BY <2>8
    <3>3. x.asked
      BY <1>8
    <3>4. QED
      BY <1>9, <1>11, <1>14, <2>4, <2>6, <2>9, <2>10, <2>11, <3>1, <3>2, <3>3, SendStep
  <2>13. QED
    BY <2>7, <2>12
<1>15. QED
  BY <1>13, <1>14

\* bind() keeps the invariant.
LEMMA BindStep ==
    ASSUME NEW s, NEW c, NEW X, NEW h, Inv(s, c, X, h),
           NEW r \in Record, s.rec[r].proc # 0, NEW conn \in Conn,
           c => s.rec[r].listed /\ ~s.rec[r].asked /\ Free(s, r)
    PROVE  Step(s, Bind(s, r, conn), r, c, X, h) /\ SameStatus(s, Bind(s, r, conn), r)
<1>1. CASE ~HasApp(s, r)
  BY <1>1, StepIsReflexive DEF Bind, SameStatus
<1>2. CASE HasApp(s, r)
  <2> DEFINE p == s.rec[r].proc
             a == s.proc[p]
             w == s.rec[r]
             flag == w.mStartFlag \union {"BINDED"}
             conns == w.mConnectRecord \union {conn}
             x == [w EXCEPT !.mStartFlag = flag, !.mConnectRecord = conns]
             y1 == IF w.mStartFlag = {}
                   THEN [a EXCEPT !.mExistService = Append(a.mExistService, r)]
                   ELSE a
             s1 == IF w.mStartFlag = {} THEN AddService(s, r) ELSE s
             s2 == [s1 EXCEPT !.rec[r].mStartFlag = @ \union {"BINDED"},
                              !.rec[r].mConnectRecord = @ \union {conn}]
  <2>1. /\ s \in StateType /\ Base(s) /\ p \in Proc /\ w \in RecType /\ a \in ProcType
        /\ a.mExistService \in Seq(Record) /\ a.sent \in Seq(Message)
    BY <1>2, Parts, RecParts, ProcParts DEF Inv, Base
  <2>2. x \in RecType /\ x.proc = p
    BY <2>1 DEF RecType, Flags
  <2>3. Both(s, s1, r, w, p, y1)
    <3>1. CASE w.mStartFlag = {}
      <4> HIDE DEF p
      <4>1. QED
        BY <3>1, <2>1, BothOfAdd DEF p
    <3>2. CASE w.mStartFlag # {}
      BY <3>2, <2>1 DEF Both
    <3>3. QED
      BY <3>1, <3>2
  <2>4. s1 \in StateType /\ s1.rec[r] = w /\ s1.proc[p] = y1
    BY <2>3 DEF Both
  <2>5. Both(s1, s2, r, x, p, y1)
    <3>1. s2 = [s1 EXCEPT !.rec[r] = x]
      <4> HIDE DEF s1
      <4>1. QED
        BY <2>1, <2>4 DEF StateType
    <3> HIDE DEF s1, s2, x, p, y1
    <3>2. QED
      BY <2>1, <2>2, <2>4, <3>1, BothOfRec
  <2>6. s2 \in StateType /\ s2.rec[r] = x /\ s2.proc[p] = y1
    BY <2>5 DEF Both
  <2>7. Both(s, s2, r, x, p, y1)
    <3> HIDE DEF s1, s2, x, y1, p
    <3>1. QED
      BY <2>3, <2>5, BothIsTransitive
  <2>8. /\ y1.mExistService = IF w.mStartFlag = {} THEN Append(a.mExistService, r) ELSE a.mExistService
        /\ y1.sent = a.sent
        /\ y1.attach = a.attach /\ y1.terminated = a.terminated /\ y1.mStatus = a.mStatus
    BY <2>1 DEF ProcType
  <2>9. /\ x.listed = w.listed /\ x.asked = w.asked /\ x.name = w.name /\ x.proc = w.proc
        /\ x.mConnectRecord # {} /\ "BINDED" \in x.mStartFlag /\ x.mStartFlag # {}
    BY <2>1 DEF RecType
  <2>10. s.rec[r].proc = p /\ s.proc[p] = a /\ s.rec[r] = w
    OBVIOUS
  <2>11. Bind(s, r, conn) = IF w.mServiceBinder THEN Tell(s2, {conn}, "connected")
                            ELSE Sent(s2, r, "BIND", conn)
    BY <1>2 DEF Bind
  <2> HIDE DEF s1, s2, x, y1, p, a, w, flag, conns
  <2>12. /\ ToSet(y1.mExistService) \subseteq Exists(s, p) \union {r}
         /\ Exists(s, p) \subseteq ToSet(y1.mExistService)
         /\ w.mStartFlag = {} => r \in ToSet(y1.mExistService)
         /\ OneEach(a.mExistService) /\ (w.mStartFlag = {} => r \notin Exists(s, p)) =>
               OneEach(y1.mExistService)
    BY <2>1, <2>8, <2>10, Appended DEF Exists
  <2>13. x.listed /\ x.mStartFlag # {} /\ ~x.asked => r \in ToSet(y1.mExistService)
    <3>1. Counted(s, r)
      BY <2>1 DEF Base
    <3>2. QED
      BY <3>1, <1>2, <2>9, <2>10, <2>12 DEF Counted
  <2>14. c => /\ x.listed /\ s.rec[r].listed /\ Free(s, r)
              /\ y1.mStatus = "RUNNING" =>
                   /\ OneEach(y1.mExistService)
                   /\ r \in ToSet(y1.mExistService) => ~x.asked /\ x.mStartFlag # {}
    <3>1. ASSUME c, a.mStatus = "RUNNING"
          PROVE  OneEach(a.mExistService) /\ (w.mStartFlag = {} => r \notin Exists(s, p))
      <4>1. Tidy(s, p)
        BY <3>1, <2>1 DEF Inv, Orderly
      <4>2. QED
        BY <4>1, <3>1, <2>10 DEF Tidy
    <3>2. QED
      BY <3>1, <2>8, <2>9, <2>10, <2>12
  <2>15. LocalRec(s.rec[r], x)
    BY <2>9, <2>10 DEF LocalRec
  <2>16. x.listed => ("BINDED" \in x.mStartFlag <=> x.mConnectRecord # {})
    BY <2>9
  <2>17. CASE w.mServiceBinder
    <3> DEFINE n == Tell(s2, {conn}, "connected")
    <3>1. Both(s, n, r, x, p, y1)
      <4>1. Both(s2, n, r, x, p, y1)
        BY <2>1, <2>6, BothOfTell
      <4> HIDE DEF n
      <4>2. QED
        BY <2>7, <4>1, BothIsTransitive
    <3> HIDE DEF n
    <3>2. LocalProc(s.proc[p], y1, r)
      BY <2>8, <2>10, <2>12 DEF LocalProc, Exists
    <3>3. c => /\ x.listed /\ s.rec[r].listed
               /\ y1.mStatus = "RUNNING" =>
                    /\ OneEach(y1.mExistService)
                    /\ r \in ToSet(y1.mExistService) => ~x.asked /\ x.mStartFlag # {}
                    /\ \A m \in ToSet(y1.sent) : m.op # "TERMINATE"
               /\ InOrder(y1.sent)
               /\ \A m \in ToSet(y1.sent) : m.op = "STOP" /\ m.r = r => x.asked
      <4>1. ASSUME c PROVE Tidy(s, p) /\ QueueOK(s, p)
        BY <4>1, <2>1 DEF Inv, Orderly
      <4>2. ASSUME c PROVE InOrder(a.sent)
        BY <4>1, <4>2, <2>10 DEF QueueOK
      <4>3. ASSUME c, NEW m \in ToSet(a.sent), m.op = "STOP", m.r = r PROVE x.asked
        BY <4>1, <4>3, <2>9, <2>10 DEF QueueOK, Queue
      <4>4. ASSUME c, a.mStatus = "RUNNING", NEW m \in ToSet(a.sent) PROVE m.op # "TERMINATE"
        BY <4>1, <4>4, <2>10 DEF Tidy, Queue
      <4>5. QED
        BY <4>2, <4>3, <4>4, <2>8, <2>14
    <3>4. Step(s, n, r, c, X, h)
      BY <1>2, <2>10, <2>13, <2>15, <2>16, <3>1, <3>2, <3>3, StepOfBoth
    <3>5. SameStatus(s, n, r)
      BY <2>8, <2>10, <3>1 DEF SameStatus, Both
    <3>6. QED
      BY <3>4, <3>5, <2>11, <2>17 DEF n
  <2>18. CASE ~w.mServiceBinder
    <3> DEFINE n == Sent(s2, r, "BIND", conn)
               m == [op |-> "BIND", r |-> r, conn |-> conn]
               y == [y1 EXCEPT !.sent = Append(y1.sent, m)]
    <3>1. m \in Message /\ Both(s2, n, r, x, p, y)
      BY <2>1, <2>2, <2>6, BothOfSent DEF Ops
    <3>2. Both(s, n, r, x, p, y)
      <4> HIDE DEF n, y, m
      <4>1. QED
        BY <2>7, <3>1, BothIsTransitive
    <3>3. m.op # "TERMINATE" /\ m.op # "STOP" /\ m.r = r
      OBVIOUS
    <3>4. /\ y.attach = s.proc[p].attach /\ y.terminated = s.proc[p].terminated
          /\ y.mStatus = s.proc[p].mStatus /\ y.sent = Append(s.proc[p].sent, m)
          /\ y.mExistService = y1.mExistService /\ y.mStatus = y1.mStatus
      <4>1. y1 \in ProcType
        BY <2>1, <2>6, Parts
      <4>2. QED
        BY <4>1, <2>8, <2>10 DEF ProcType
    <3>5. m \in Message
      BY <3>1
    <3> HIDE DEF n, m, y
    <3>6. /\ Exists(s, p) \subseteq ToSet(y.mExistService) \union {r}
          /\ ToSet(y.mExistService) \subseteq Exists(s, p) \union {r}
          /\ x.listed /\ x.mStartFlag # {} /\ ~x.asked => r \in ToSet(y.mExistService)
      BY <2>12, <2>13, <3>4
    <3>7. c => /\ x.listed /\ s.rec[r].listed /\ Free(s, r)
               /\ y.mStatus = "RUNNING" =>
                    /\ OneEach(y.mExistService)
                    /\ r \in ToSet(y.mExistService) => ~x.asked /\ x.mStartFlag # {}
      BY <2>14, <3>4
    <3>8. Step(s, n, r, c, X, h)
      BY <1>2, <2>10, <2>15, <2>16, <3>2, <3>3, <3>4, <3>5, <3>6, <3>7, SendStep
    <3>9. SameStatus(s, n, r)
      BY <2>10, <3>2, <3>4 DEF SameStatus, Both
    <3>10. QED
      BY <3>8, <3>9, <2>11, <2>18 DEF n
  <2>19. QED
    BY <2>17, <2>18
<1>3. QED
  BY <1>1, <1>2

\* The connection is gone afterwards.
LEMMA UnbindStep ==
    ASSUME NEW s, NEW c, NEW X, NEW h, Inv(s, c, X, h),
           NEW r \in Record, s.rec[r].proc # 0, NEW conn \in Conn,
           c => /\ s.rec[r].listed
                /\ conn \in s.rec[r].mConnectRecord => Free(s, r)
    PROVE  /\ Step(s, Unbind(s, r, conn), r, c, X, h)
           /\ Unbind(s, r, conn) = s
              \/ conn \notin Unbind(s, r, conn).rec[r].mConnectRecord
           /\ Unbind(s, r, conn).rec[r].listed = s.rec[r].listed
<1>1. CASE "BINDED" \notin s.rec[r].mStartFlag
  <2>1. Unbind(s, r, conn) = s
    BY <1>1 DEF Unbind
  <2>2. QED
    BY <2>1, StepIsReflexive
<1>2. CASE "BINDED" \in s.rec[r].mStartFlag
  <2> DEFINE p == s.rec[r].proc
             a == s.proc[p]
             w == s.rec[r]
             left == w.mConnectRecord \ {conn}
             flag == IF left = {} THEN w.mStartFlag \ {"BINDED"} ELSE w.mStartFlag
             x1 == [w EXCEPT !.mConnectRecord = left]
             x == [x1 EXCEPT !.mStartFlag = flag]
             s0 == [s EXCEPT !.rec[r].mConnectRecord = @ \ {conn}]
             s1 == Tell(s0, {conn}, "disconnected")
             s2 == [s1 EXCEPT !.rec[r].mStartFlag = flag]
             s3 == Sent(s2, r, "UNBIND", NoConn)
             n == IF flag = {} THEN DeleteService(s3, r) ELSE s3
  <2>1. /\ s \in StateType /\ Base(s) /\ p \in Proc /\ w \in RecType /\ a \in ProcType
        /\ a.mExistService \in Seq(Record) /\ a.sent \in Seq(Message)
    BY Parts, RecParts, ProcParts DEF Inv, Base
  <2>2. x1 \in RecType /\ x1.proc = p
    BY <2>1 DEF RecType
  <2>3. x \in RecType /\ x.proc = p
    <3>1. flag \in SUBSET Flags
      BY <2>1 DEF RecType
    <3> HIDE DEF x1, flag, p
    <3>2. QED
      BY <2>2, <3>1 DEF RecType
  <2>4. Both(s, s0, r, x1, p, a)
    <3>1. s0 = [s EXCEPT !.rec[r] = x1]
      OBVIOUS
    <3> HIDE DEF s0, x1, p
    <3>2. QED
      BY <2>1, <2>2, <3>1, BothOfRec
  <2>5. Both(s, s1, r, x1, p, a)
    <3>1. s0 \in StateType /\ s0.rec[r] = x1 /\ s0.proc[p] = a
      BY <2>4 DEF Both
    <3>2. Both(s0, s1, r, x1, p, a)
      <4> HIDE DEF s0, x1, p, a
      <4>1. QED
        BY <2>1, <3>1, BothOfTell
    <3> HIDE DEF s0, s1, x1, p, a
    <3>3. QED
      BY <2>4, <3>2, BothIsTransitive
  <2>6. s1 \in StateType /\ s1.rec[r] = x1 /\ s1.proc[p] = a
    BY <2>5 DEF Both
  <2>7. Both(s, s2, r, x, p, a)
    <3>1. Both(s1, s2, r, x, p, a)
      <4>1. s2 = [s1 EXCEPT !.rec[r] = x]
        <5> HIDE DEF s1, x1, flag
        <5>1. QED
          BY <2>6
      <4> HIDE DEF s1, s2, x, p, a
      <4>2. QED
        BY <2>1, <2>3, <2>6, <4>1, BothOfRec
    <3> HIDE DEF s1, s2, x1, x, p, a
    <3>2. QED
      BY <2>5, <3>1, BothIsTransitive
  <2>8. s2 \in StateType /\ s2.rec[r] = x /\ s2.proc[p] = a
    BY <2>7 DEF Both
  <2>9. /\ x1.listed = w.listed /\ x1.asked = w.asked /\ x1.name = w.name /\ x1.proc = w.proc
        /\ x1.client = w.client /\ x1.mConnectRecord = left /\ x1.mStartFlag = w.mStartFlag
    BY <2>1 DEF RecType
  <2>10. /\ x.listed = w.listed /\ x.asked = w.asked /\ x.name = w.name /\ x.proc = w.proc
         /\ x.client = w.client /\ x.mConnectRecord = left /\ x.mStartFlag = flag
    <3> HIDE DEF x1
    <3>1. QED
      BY <2>2, <2>9 DEF RecType
  <2>11. s.rec[r].proc = p /\ s.proc[p] = a /\ s.rec[r] = w /\ conn \notin left /\ "BINDED" \in w.mStartFlag
    BY <1>2
  <2>12. left = {} => flag = w.mStartFlag \ {"BINDED"}
    OBVIOUS
  <2>13. left # {} => flag = w.mStartFlag
    OBVIOUS
  <2>14. left = {} => w.mConnectRecord \subseteq {conn}
    OBVIOUS
  <2>15. Unbind(s, r, conn) = IF ~HasApp(s, r) \/ left # {} THEN s1 ELSE n
    <3>1. CASE ~HasApp(s, r)
      BY <3>1, <1>2 DEF Unbind
    <3>2. CASE HasApp(s, r) /\ left # {}
      <4>1. flag # {}
        BY <3>2, <1>2
      <4>2. QED
        BY <3>2, <4>1, <1>2 DEF Unbind
    <3>3. CASE HasApp(s, r) /\ left = {}
      BY <3>3, <1>2 DEF Unbind
    <3>4. QED
      BY <3>1, <3>2, <3>3
  <2> HIDE DEF s0, s1, x1, x, p, a, w, left, flag
  <2>16. LocalRec(s.rec[r], x1) /\ LocalRec(s.rec[r], x)
    BY <2>9, <2>10, <2>11 DEF LocalRec
  <2>17. Sound(s, r) /\ Counted(s, r)
    BY <2>1 DEF Base
  <2>18. CASE ~HasApp(s, r) \/ left # {}
    <3>1. x1.listed => /\ HasApp(s, r) => ("BINDED" \in x1.mStartFlag <=> x1.mConnectRecord # {})
                       /\ HasApp(s, r) \/ x1.asked \/ x1.mStartFlag = {}
      BY <2>9, <2>11, <2>17, <2>18 DEF Sound
    <3>2. c => /\ s.proc[p].mStatus = "RUNNING" /\ r \in Exists(s, p) =>
                     x1.listed /\ ~x1.asked /\ x1.mStartFlag # {}
               /\ s.rec[r].listed => x1.listed \/ r \in X
      <4>1. ASSUME c PROVE Tidy(s, p)
        BY <4>1, <2>1 DEF Inv, Orderly
      <4>2. QED
        BY <4>1, <2>9, <2>11 DEF Tidy
    <3>3. x1.client.exists => s.rec[r].client.exists
      BY <2>9, <2>11
    <3>4. x1.listed /\ x1.mStartFlag # {} => s.rec[r].mStartFlag # {}
      BY <2>9, <2>11
    <3>5. Both(s, s1, r, x1, p, s.proc[p])
      BY <2>5, <2>11
    <3>6. Step(s, s1, r, c, X, h)
      BY <2>1, <2>11, <2>16, <3>1, <3>2, <3>3, <3>4, <3>5, StepOfRec
    <3>7. QED
      BY <3>6, <2>6, <2>9, <2>11, <2>15, <2>18
  <2>19. CASE HasApp(s, r) /\ left = {}
    <3> DEFINE m == [op |-> "UNBIND", r |-> r, conn |-> NoConn]
               y1 == [a EXCEPT !.sent = Append(a.sent, m)]
               y == IF flag = {}
                    THEN [y1 EXCEPT !.mExistService = SwappedOut(y1.mExistService, r)]
                    ELSE y1
    <3>1. m \in Message /\ Both(s2, s3, r, x, p, y1)
      BY <2>1, <2>3, <2>8, BothOfSent DEF Ops
    <3>2. s3 \in StateType /\ s3.rec[r] = x /\ s3.proc[p] = y1
      BY <3>1 DEF Both
    <3>3. Both(s3, n, r, x, p, y)
      <4>1. CASE flag = {}
        <5> HIDE DEF s3, y1
        <5>1. Both(s3, DeleteService(s3, r), r, s3.rec[r], p,
                   [s3.proc[p] EXCEPT !.mExistService = SwappedOut(s3.proc[p].mExistService, r)])
          BY <2>1, <2>3, <3>2, BothOfDelete
        <5>2. QED
          BY <4>1, <5>1, <3>2
      <4>2. CASE flag # {}
        BY <4>2, <3>2 DEF Both
      <4>3. QED
        BY <4>1, <4>2
    <3>4. Both(s, n, r, x, p, y)
      <4>1. Both(s, s3, r, x, p, y1)
        <5> HIDE DEF s2, s3, y1
        <5>1. QED
          BY <2>7, <3>1, BothIsTransitive
      <4> HIDE DEF s2, s3, n, y1, y
      <4>2. QED
        BY <4>1, <3>3, BothIsTransitive
    <3>5. /\ y.mExistService = IF flag = {} THEN SwappedOut(a.mExistService, r) ELSE a.mExistService
          /\ y.sent = Append(a.sent, m)
          /\ y.attach = a.attach /\ y.terminated = a.terminated /\ y.mStatus = a.mStatus
      <4>1. /\ y1.mExistService = a.mExistService /\ y1.sent = Append(a.sent, m)
            /\ y1.attach = a.attach /\ y1.terminated = a.terminated /\ y1.mStatus = a.mStatus
            /\ y1 \in ProcType
        <5>1. y1 \in ProcType
          BY <3>2, <2>1, Parts
        <5>2. QED
          BY <5>1, <2>1 DEF ProcType
      <4> HIDE DEF y1
      <4>2. QED
        BY <4>1 DEF ProcType
    <3>6. m.op # "TERMINATE" /\ m.op # "STOP" /\ m.r = r
      OBVIOUS
    <3>7. m \in Message
      BY <3>1
    <3> HIDE DEF s2, s3, n, m, y1, y
    <3>8. /\ ToSet(y.mExistService) \subseteq Exists(s, p)
          /\ Exists(s, p) \subseteq ToSet(y.mExistService) \union {r}
          /\ flag # {} => ToSet(y.mExistService) = Exists(s, p)
          /\ OneEach(a.mExistService) => OneEach(y.mExistService) /\ (flag = {} => r \notin ToSet(y.mExistService))
      <4>1. CASE flag = {}
        BY <4>1, <2>1, <2>11, <3>5, SwappedOutFacts DEF Exists
      <4>2. CASE flag # {}
        BY <4>2, <2>11, <3>5 DEF Exists
      <4>3. QED
        BY <4>1, <4>2
    <3>9. "BINDED" \notin x.mStartFlag /\ x.mConnectRecord = {}
      BY <2>10, <2>12, <2>19
    <3>10. c => /\ x.listed /\ s.rec[r].listed /\ Free(s, r)
                /\ y.mStatus = "RUNNING" =>
                     /\ OneEach(y.mExistService)
                     /\ r \in ToSet(y.mExistService) => ~x.asked /\ x.mStartFlag # {}
      <4> SUFFICES ASSUME c
                   PROVE  /\ x.listed /\ s.rec[r].listed /\ Free(s, r)
                          /\ y.mStatus = "RUNNING" =>
                               /\ OneEach(y.mExistService)
                               /\ r \in ToSet(y.mExistService) => ~x.asked /\ x.mStartFlag # {}
        OBVIOUS
      <4>1. x.listed /\ s.rec[r].listed
        BY <2>10, <2>11
      <4>2. Free(s, r)
        <5>1. w.mConnectRecord # {}
          BY <2>11, <2>17, <2>19, <4>1 DEF Sound
        <5>2. QED
          BY <5>1, <2>11, <2>14, <2>19
      <4>3. ASSUME y.mStatus = "RUNNING"
            PROVE  /\ OneEach(y.mExistService)
                   /\ r \in ToSet(y.mExistService) => ~x.asked /\ x.mStartFlag # {}
        <5>1. Tidy(s, p)
          BY <2>1 DEF Inv, Orderly
        <5>2. OneEach(a.mExistService) /\ (r \in Exists(s, p) => ~w.asked)
          BY <5>1, <4>3, <3>5, <2>11 DEF Tidy
        <5>3. QED
          BY <5>2, <3>8, <2>10
      <4>4. QED
        BY <4>1, <4>2, <4>3
    <3>11. /\ y.attach = s.proc[p].attach /\ y.terminated = s.proc[p].terminated
           /\ y.mStatus = s.proc[p].mStatus /\ y.sent = Append(s.proc[p].sent, m)
      BY <2>11, <3>5
    <3>12. x.listed /\ x.mStartFlag # {} /\ ~x.asked => r \in ToSet(y.mExistService)
      BY <2>10, <2>11, <2>17, <2>19, <3>8 DEF Counted
    <3>13. Step(s, n, r, c, X, h)
      <4>1. HasApp(s, r)
        BY <2>19
      <4>2. /\ Exists(s, p) \subseteq ToSet(y.mExistService) \union {r}
            /\ ToSet(y.mExistService) \subseteq Exists(s, p) \union {r}
        BY <3>8
      <4>3. x.listed => ("BINDED" \in x.mStartFlag <=> x.mConnectRecord # {})
        BY <3>9
      <4>4. QED
        BY <2>11, <2>16, <3>4, <3>6, <3>7, <3>10, <3>11, <3>12, <4>1, <4>2, <4>3, SendStep
    <3>14. n.rec[r] = x
      BY <3>4 DEF Both
    <3>15. QED
      BY <3>13, <3>14, <2>10, <2>11, <2>15, <2>19
  <2>20. QED
    BY <2>18, <2>19
<1>3. QED
  BY <1>1, <1>2

-----------------------------------------------------------------------------
(* The process, and the reports of the clients.                            *)

\* The request to terminate keeps the invariant, and is a local step of every
\* service of the process.
LEMMA StopApplicationInv ==
    ASSUME NEW s, NEW c, NEW X, NEW h, Inv(s, c, X, h), NEW p \in Proc
    PROVE  LET n == StopApplication(s, p)
           IN /\ Inv(n, c, X, h) /\ n.rec = s.rec
              /\ \A q \in Proc : /\ \A m \in Queue(n, q) : m \in Queue(s, q) \/ m.r = 0
                                 /\ n.proc[q].terminated = s.proc[q].terminated
              /\ \A r \in Record : s.rec[r].proc = p => Local(s, n, r)
<1> DEFINE n == StopApplication(s, p)
<1>1. s \in StateType /\ Base(s)
  BY DEF Inv, Base
<1>2. CASE s.proc[p].mStatus # "RUNNING"
  <2>1. n = s
    BY <1>2 DEF StopApplication
  <2>2. \A r \in Record : Local(s, s, r)
    BY <1>1, LocalIsReflexive
  <2>3. QED
    BY <2>1, <2>2
<1>3. CASE s.proc[p].mStatus = "RUNNING"
  <2> DEFINE a == s.proc[p]
             m == [op |-> "TERMINATE", r |-> 0, conn |-> NoConn]
             y == [a EXCEPT !.mStatus = "STOPPING", !.sent = Append(a.sent, m)]
  <2>1. a \in ProcType /\ a.sent \in Seq(Message) /\ m \in Message
    <3>1. a \in ProcType
      BY <1>1, Parts
    <3>2. 0 \in 0..MaxRecords
      BY BoundsAssumption
    <3>3. m \in Message
      BY <3>2 DEF Message, Ops
    <3>4. QED
      BY <3>1, <3>3, ProcParts
  <2>2. Append(a.sent, m) \in Seq(Message) /\ ToSet(Append(a.sent, m)) = ToSet(a.sent) \union {m}
    <3> HIDE DEF a, m
    <3>1. QED
      BY <2>1, Appended
  <2>3. y \in ProcType
    BY <2>1, <2>2 DEF ProcType
  <2>4. n = [s EXCEPT !.proc[p] = y]
    BY <1>3 DEF StopApplication
  <2>5. /\ n \in StateType /\ n.rec = s.rec /\ n.proc[p] = y
        /\ \A q \in Proc \ {p} : n.proc[q] = s.proc[q]
        /\ n.records = s.records /\ n.procs = s.procs /\ n.undefined = s.undefined
    <3> HIDE DEF y
    <3>1. QED
      BY <1>1, <2>3, <2>4 DEF StateType
  <2>6. /\ y.mExistService = a.mExistService /\ y.sent = Append(a.sent, m)
        /\ y.attach = a.attach /\ y.terminated = a.terminated /\ y.mStatus = "STOPPING"
    BY <2>1 DEF ProcType
  <2>7. m.op = "TERMINATE" /\ m.r = 0 /\ a.mStatus = "RUNNING" /\ s.proc[p] = a
    BY <1>3
  <2> HIDE DEF n, y, a, m
  <2>8. \A q \in Proc : /\ Up(n, q) <=> Up(s, q)
                        /\ Exists(n, q) = Exists(s, q)
                        /\ Queue(n, q) = IF q = p THEN Queue(s, q) \union {m} ELSE Queue(s, q)
                        /\ n.proc[q].attach = s.proc[q].attach
                        /\ n.proc[q].terminated = s.proc[q].terminated
    BY <2>2, <2>5, <2>6, <2>7 DEF Up, Exists, Queue
  <2>9. Base(n)
    <3>1. Fresh(n)
      BY <1>1, <2>5, <2>7 DEF Base, Fresh
    <3>2. Placed(n)
      <4>1. \A q \in Proc : s.proc[q].mStatus \in {"RUNNING", "STOPPING", "GONE"} =>
                            n.proc[q].mStatus \in {"RUNNING", "STOPPING", "GONE"}
        BY <2>5, <2>6
      <4>2. \A r \in Record : s.rec[r].proc # 0 => s.rec[r].proc \in Proc
        BY <1>1, Parts, RecParts
      <4>3. QED
        BY <1>1, <2>5, <4>1, <4>2 DEF Base, Placed
    <3>3. Idle(n)
      <4>1. Up(n, p)
        BY <2>5, <2>6 DEF Up
      <4>2. QED
        BY <1>1, <2>5, <2>8, <4>1 DEF Base, Idle
    <3>4. Own(n)
      BY <1>1, <2>5, <2>7, <2>8 DEF Base, Own
    <3>5. ASSUME NEW r \in Record PROVE Counted(n, r) /\ Sound(n, r)
      <4>1. s.rec[r].proc # 0 => s.rec[r].proc \in Proc
        BY <1>1, Parts, RecParts
      <4>2. HasApp(n, r) <=> HasApp(s, r)
        BY <4>1, <2>5, <2>8 DEF HasApp, Up
      <4>3. Counted(s, r) /\ Sound(s, r)
        BY <1>1 DEF Base
      <4>4. Counted(n, r)
        BY <4>1, <4>2, <4>3, <2>5, <2>8 DEF Counted, HasApp
      <4>5. Sound(n, r)
        BY <4>2, <4>3, <2>5 DEF Sound
      <4>6. QED
        BY <4>4, <4>5
    <3>6. QED
      BY <2>5, <3>1, <3>2, <3>3, <3>4, <3>5 DEF Base
  <2>10. ASSUME c PROVE Orderly(n, X, h)
    <3>1. Orderly(s, X, h)
      BY <2>10 DEF Inv
    <3>2. ASSUME NEW q \in Proc PROVE Tidy(n, q) /\ Going(n, q) /\ QueueOK(n, q)
      <4>1. Tidy(s, q) /\ Going(s, q) /\ QueueOK(s, q)
        BY <3>1 DEF Orderly
      <4>2. CASE q # p
        BY <4>1, <4>2, <2>5 DEF Tidy, Going, QueueOK, Exists, Queue
      <4>3. CASE q = p
        <5>1. Tidy(n, p) /\ Going(n, p)
          BY <2>5, <2>6 DEF Tidy, Going
        <5>2. \A i \in ToSet(a.sent) : i.op \in {"UNBIND", "STOP"} => i.r # m.r
          <6>1. \A i \in Queue(s, p) : i.op # "TERMINATE" => i.r \in Record
            BY <1>1 DEF Base, Own
          <6>2. 0 \notin Record
            BY BoundsAssumption DEF Record
          <6>3. QED
            BY <6>1, <6>2, <2>7 DEF Queue
        <5>3. InOrder(Append(a.sent, m))
          BY <4>1, <4>3, <5>2, <2>1, <2>7, InOrderAppended DEF QueueOK
        <5>4. \A i \in Queue(n, p) : i.op = "STOP" => n.rec[i.r].asked
          BY <4>1, <4>3, <2>5, <2>7, <2>8 DEF QueueOK
        <5>5. QED
          BY <4>3, <5>1, <5>3, <5>4, <2>5, <2>6 DEF QueueOK
      <4>4. QED
        BY <4>2, <4>3
    <3>3. TasksDiffer(n)
      BY <3>1, <2>8 DEF Orderly, TasksDiffer
    <3>4. \A r \in Record : Finished(n, r) <=> Finished(s, r)
      <4>1. 0 \notin Record
        BY BoundsAssumption DEF Record
      <4>2. QED
        BY <4>1, <2>5, <2>7, <2>8 DEF Finished
    <3>5. OneOfAName(n, h)
      BY <3>1, <3>4, <2>5 DEF Orderly, OneOfAName, Alive
    <3>6. QED
      BY <3>1, <3>2, <3>3, <3>4, <3>5, <2>5 DEF Orderly
  <2>11. ASSUME NEW r \in Record, s.rec[r].proc = p PROVE Local(s, n, r)
    <3>1. HasApp(s, r)
      BY <2>7, <2>11, BoundsAssumption DEF HasApp, Proc
    <3>2. LocalProc(a, y, r)
      BY <2>2, <2>6, <2>7 DEF LocalProc
    <3>3. \A q \in Proc : q # p => LocalProc(s.proc[q], n.proc[q], r)
      BY <2>5 DEF LocalProc
    <3>4. \A q \in Proc : LocalProc(s.proc[q], n.proc[q], r)
      BY <3>2, <3>3, <2>5, <2>7
    <3>5. QED
      BY <3>1, <3>4, <2>5, <2>11 DEF Local, LocalRec
  <2>12. \A q \in Proc : \A i \in Queue(n, q) : i \in Queue(s, q) \/ i.r = 0
    BY <2>7, <2>8
  <2>13. QED
    BY <2>5, <2>8, <2>9, <2>10, <2>11, <2>12 DEF Inv, n
<1>4. QED
  BY <1>2, <1>3

\* A step that changes no more of a record than the client's side, the
\* reported status and the binder.
ClientOnly(w, x) ==
    /\ x \in RecType /\ x.name = w.name /\ x.proc = w.proc /\ x.listed = w.listed
    /\ x.mStartFlag = w.mStartFlag /\ x.mConnectRecord = w.mConnectRecord /\ x.asked = w.asked

SetRec(s, n, r, x) == n = [s EXCEPT !.rec[r] = x]

\* A step of the client's side of a record keeps the invariant.
LEMMA ClientStep ==
    ASSUME NEW s, NEW c, NEW X, NEW h, Inv(s, c, X, h),
           NEW r \in Record, s.rec[r].proc # 0,
           NEW x, ClientOnly(s.rec[r], x), NEW n, SetRec(s, n, r, x),
           x.client.exists => \/ s.rec[r].client.exists
                              \/ HasApp(s, r) /\ (c => Alive(s, r, h) /\ (s.rec[r].listed \/ r \in X))
    PROVE  Step(s, n, r, c, X, h) /\ n.rec[r] = x /\ n.proc = s.proc
<1> DEFINE p == s.rec[r].proc
<1>1. s \in StateType /\ Base(s) /\ p \in Proc
  BY Parts, RecParts DEF Inv, Base
<1>0. /\ x \in RecType /\ x.proc = s.rec[r].proc /\ x.listed = s.rec[r].listed
      /\ x.name = s.rec[r].name /\ x.mStartFlag = s.rec[r].mStartFlag
      /\ x.mConnectRecord = s.rec[r].mConnectRecord /\ x.asked = s.rec[r].asked
  BY DEF ClientOnly
<1>2. n.rec[r] = x /\ n.proc = s.proc
  BY <1>0, <1>1 DEF StateType, SetRec
<1> HIDE DEF p
<1>3. Both(s, n, r, x, p, s.proc[p])
  BY <1>0, <1>1, BothOfRec DEF SetRec
<1>4. LocalRec(s.rec[r], x)
  BY <1>0 DEF LocalRec
<1>5. Sound(s, r)
  BY <1>1 DEF Base
<1>6. x.listed => /\ HasApp(s, r) => ("BINDED" \in x.mStartFlag <=> x.mConnectRecord # {})
                  /\ HasApp(s, r) \/ x.asked \/ x.mStartFlag = {}
  BY <1>0, <1>5 DEF Sound
<1>7. c => /\ s.proc[p].mStatus = "RUNNING" /\ r \in Exists(s, p) =>
                x.listed /\ ~x.asked /\ x.mStartFlag # {}
           /\ s.rec[r].listed => x.listed \/ r \in X
  <2>1. ASSUME c PROVE Tidy(s, p)
    BY <2>1, <1>1 DEF Inv, Orderly
  <2>2. QED
    BY <2>1, <1>0 DEF Tidy
<1>8. s.rec[r].proc = p
  BY DEF p
<1>9. Step(s, n, r, c, X, h)
  <2> HIDE DEF Base
  <2>1. x.listed /\ x.mStartFlag # {} => s.rec[r].mStartFlag # {}
    BY <1>0
  <2>2. QED
    BY <1>1, <1>3, <1>4, <1>6, <1>7, <1>8, <2>1, StepOfRec
<1>10. QED
  BY <1>2, <1>9

\* The reports that leave the service.
LEMMA ReportStep ==
    ASSUME NEW s, NEW c, NEW X, NEW h, Inv(s, c, X, h),
           NEW r \in Record, s.rec[r].proc # 0, NEW status \in {CREATED, STARTED, BINDED, UNBINDED},
           c /\ status = UNBINDED => Free(s, r)
    PROVE  Step(s, Report(s, r, status), r, c, X, h)
<1> DEFINE w == s.rec[r]
           x1 == [w EXCEPT !.client = [w.client EXCEPT !.mStatus = status]]
           s1 == [s EXCEPT !.rec[r].client.mStatus = status]
<1>1. s \in StateType /\ Base(s) /\ w \in RecType /\ w.client \in ClientType
  BY Parts, RecParts DEF Inv, Base
<1>2. ClientOnly(w, x1)
  BY <1>1 DEF ClientOnly, RecType, ClientType
<1>3. SetRec(s, s1, r, x1)
  BY DEF SetRec
<1>4. x1.listed = w.listed /\ x1.proc = w.proc /\ x1.client.exists = w.client.exists
  BY <1>1 DEF RecType, ClientType
<1> HIDE DEF x1, s1
<1>5. Step(s, s1, r, c, X, h) /\ s1.rec[r] = x1 /\ s1.proc = s.proc
  <2>1. ClientOnly(s.rec[r], x1) /\ (x1.client.exists => s.rec[r].client.exists)
    BY <1>2, <1>4
  <2> HIDE DEF w
  <2>2. QED
    BY <1>3, <2>1, ClientStep
<1>6. Inv(s1, c, X, h) /\ s1 \in StateType /\ s1.rec[r].proc # 0
  BY <1>4, <1>5 DEF Step, Inv, Base
<1>7. Report(s, r, status) = ReportServiceStatus(s1, r, status)
  BY DEF Report, s1
<1>8. CASE ~s1.rec[r].listed
  BY <1>5, <1>7, <1>8 DEF ReportServiceStatus
<1>9. CASE s1.rec[r].listed
  <2> DEFINE s2 == IF status = UNBINDED /\ s1.rec[r].mStartFlag = {} THEN Stop(s1, r) ELSE s1
             x2 == [s2.rec[r] EXCEPT !.mStatus = status]
             n == [s2 EXCEPT !.rec[r].mStatus = status]
  <2>1. Step(s1, s2, r, c, X, h)
    <3>1. CASE status = UNBINDED /\ s1.rec[r].mStartFlag = {}
      <4>1. c => Free(s1, r)
        BY <3>1, <1>5 DEF Free, Queue
      <4>2. Step(s1, Stop(s1, r), r, c, X, h)
        BY <4>1, <1>6, <1>9, StopStep
      <4>3. QED
        BY <3>1, <4>2
    <3>2. CASE ~(status = UNBINDED /\ s1.rec[r].mStartFlag = {})
      BY <3>2, <1>6, StepIsReflexive
    <3>3. QED
      BY <3>1, <3>2
  <2>2. ReportServiceStatus(s1, r, status) = n
    BY <1>9 DEF ReportServiceStatus
  <2> HIDE DEF s2
  <2>3. Inv(s2, c, X, h) /\ s2 \in StateType /\ s2.rec[r] \in RecType /\ s2.rec[r].proc # 0
    BY <2>1, <1>6, Parts DEF Step, Inv, Base, Local, LocalRec
  <2>4. ClientOnly(s2.rec[r], x2) /\ SetRec(s2, n, r, x2)
    BY <2>3 DEF ClientOnly, RecType, SetRec
  <2>5. x2.client = s2.rec[r].client
    BY <2>3 DEF RecType
  <2> HIDE DEF x2, n
  <2>6. Step(s2, n, r, c, X, h)
    BY <2>3, <2>4, <2>5, ClientStep
  <2>7. Step(s1, n, r, c, X, h)
    BY <2>1, <2>6, <1>6, StepIsTransitive
  <2>8. Step(s, n, r, c, X, h)
    BY <2>7, <1>1, <1>5, StepIsTransitive
  <2>9. QED
    BY <1>7, <2>2, <2>8
<1>10. QED
  BY <1>8, <1>9

\* The record of a service that reports its end is exempt from Orderly until
\* its client is gone.
LEMMA Exempt ==
    ASSUME NEW s, NEW c, NEW X, NEW h, Inv(s, c, X, h), NEW Y, X \subseteq Y
    PROVE  Inv(s, c, Y, h)
BY DEF Inv, Orderly

\* A record that is finished, or listed, needs no exemption.
LEMMA NotExempt ==
    ASSUME NEW s, NEW c, NEW X, NEW h, NEW r \in Record, Inv(s, c, X \union {r}, h),
           c => r \in X \/ s.rec[r].listed \/ Finished(s, r)
    PROVE  Inv(s, c, X, h)
<1>1. ASSUME c, NEW q \in Record \ X PROVE s.rec[q].listed \/ Finished(s, q)
  BY <1>1 DEF Inv, Orderly
<1>2. QED
  BY <1>1 DEF Inv, Orderly

\* What the report of the end leaves.
LEMMA DestroyedStep ==
    ASSUME NEW s, NEW c, NEW X, NEW h, Inv(s, c, X, h),
           NEW r \in Record, s.rec[r].proc # 0,
           c => ~(s.proc[s.rec[r].proc].mStatus = "RUNNING" /\ r \in Exists(s, s.rec[r].proc))
    PROVE  LET n == Report(s, r, DESTROYED)
           IN /\ Step(s, n, r, c, X \union {r}, h)
              /\ \A q \in Proc : \A m \in Queue(n, q) : m \in Queue(s, q) \/ m.r = 0
<1> DEFINE w == s.rec[r]
           Y == X \union {r}
           x1 == [w EXCEPT !.client = [w.client EXCEPT !.mStatus = DESTROYED]]
           s1 == [s EXCEPT !.rec[r].client.mStatus = DESTROYED]
<1>0. Inv(s, c, Y, h)
  BY Exempt
<1>1. s \in StateType /\ Base(s) /\ w \in RecType /\ w.client \in ClientType
  BY Parts, RecParts DEF Inv, Base
<1>2. ClientOnly(w, x1)
  BY <1>1 DEF ClientOnly, RecType, ClientType
<1>3. SetRec(s, s1, r, x1)
  BY DEF SetRec
<1>4. x1.listed = w.listed /\ x1.proc = w.proc /\ x1.client.exists = w.client.exists
  BY <1>1 DEF RecType, ClientType
<1>5. r \in Y
  OBVIOUS
<1> HIDE DEF x1, s1, Y
<1>6. Step(s, s1, r, c, Y, h) /\ s1.rec[r] = x1 /\ s1.proc = s.proc
  <2>1. ClientOnly(s.rec[r], x1) /\ (x1.client.exists => s.rec[r].client.exists)
    BY <1>2, <1>4
  <2> HIDE DEF w
  <2>2. QED
    BY <1>0, <1>3, <2>1, ClientStep
<1>7. Inv(s1, c, Y, h) /\ s1 \in StateType /\ s1.rec[r].proc # 0
  BY <1>4, <1>6 DEF Step, Inv, Base
<1>8. Report(s, r, DESTROYED) = ReportServiceStatus(s1, r, DESTROYED)
  BY DEF Report, s1
<1>9. CASE ~s1.rec[r].listed
  <2>1. Report(s, r, DESTROYED) = s1
    BY <1>8, <1>9 DEF ReportServiceStatus
  <2>2. QED
    BY <2>1, <1>6 DEF Queue, Y
<1>10. CASE s1.rec[r].listed
  <2> DEFINE p == s1.rec[r].proc
             x2 == [s1.rec[r] EXCEPT !.listed = FALSE]
             s2 == [s1 EXCEPT !.rec[r].listed = FALSE]
             s3 == Destroyed(s1, r)
             x4 == [s3.rec[r] EXCEPT !.mStatus = DESTROYED]
             n == [s3 EXCEPT !.rec[r].mStatus = DESTROYED]
  <2>1. ReportServiceStatus(s1, r, DESTROYED) = n
    BY <1>10 DEF ReportServiceStatus
  <2>2. x2 \in RecType /\ s2 = [s1 EXCEPT !.rec[r] = x2] /\ p \in Proc
    <3>1. s1.rec[r] \in RecType
      BY <1>7, Parts
    <3>2. x2 \in RecType /\ s2 = [s1 EXCEPT !.rec[r] = x2]
      BY <3>1 DEF RecType
    <3>3. QED
      BY <3>1, <3>2, <1>7, RecParts
  <2>3. /\ x2.name = s1.rec[r].name /\ x2.proc = p /\ ~x2.listed /\ x2.asked = s1.rec[r].asked
        /\ x2.client = s1.rec[r].client
    BY <1>7, Parts DEF RecType
  <2>4. s3 = IF s1.proc[p].mExistService = <<>> THEN StopApplication(s2, p) ELSE s2
    BY DEF Destroyed
  <2>5. p = s.rec[r].proc
    BY <1>4, <1>6
  <2>6. s1.rec[r].proc = p
    OBVIOUS
  <2> HIDE DEF p, x2, s2, s3
  <2>7. Step(s1, s2, r, c, Y, h) /\ s2.proc = s1.proc /\ s2.rec[r].proc = p
    <3>1. Both(s1, s2, r, x2, p, s1.proc[p])
      BY <1>7, <2>2, BothOfRec
    <3>2. LocalRec(s1.rec[r], x2)
      BY <2>3, <2>6 DEF LocalRec
    <3>3. s2.proc = s1.proc /\ s2.rec[r].proc = p
      BY <1>7, <2>2, <2>3 DEF StateType
    <3>4. c => ~(s1.proc[p].mStatus = "RUNNING" /\ r \in Exists(s1, p))
      BY <1>6, <2>5 DEF Exists
    <3>5. Step(s1, s2, r, c, Y, h)
      BY <1>5, <1>7, <2>2, <2>3, <2>6, <3>1, <3>2, <3>4, StepOfRec
    <3>6. QED
      BY <3>3, <3>5
  <2>8. /\ Step(s2, s3, r, c, Y, h)
        /\ \A q \in Proc : \A m \in Queue(s3, q) : m \in Queue(s2, q) \/ m.r = 0
    <3>1. Inv(s2, c, Y, h)
      BY <2>7 DEF Step
    <3>2. CASE s1.proc[p].mExistService = <<>>
      <4>1. s3 = StopApplication(s2, p)
        BY <3>2, <2>4
      <4>2. /\ Inv(StopApplication(s2, p), c, Y, h) /\ Local(s2, StopApplication(s2, p), r)
            /\ \A q \in Proc : \A m \in Queue(StopApplication(s2, p), q) : m \in Queue(s2, q) \/ m.r = 0
        <5>1. s2.rec[r].proc = p /\ p \in Proc
          BY <2>2, <2>7
        <5>2. LET n2 == StopApplication(s2, p)
              IN /\ Inv(n2, c, Y, h)
                 /\ \A q \in Proc : \A m \in Queue(n2, q) : m \in Queue(s2, q) \/ m.r = 0
                 /\ \A i \in Record : s2.rec[i].proc = p => Local(s2, n2, i)
          BY <3>1, <5>1, StopApplicationInv
        <5>3. QED
          BY <5>1, <5>2
      <4>3. QED
        BY <4>1, <4>2 DEF Step
    <3>3. CASE s1.proc[p].mExistService # <<>>
      <4>1. s3 = s2
        BY <3>3, <2>4
      <4>2. QED
        BY <4>1, <3>1, StepIsReflexive
    <3>4. QED
      BY <3>2, <3>3
  <2>9. Inv(s3, c, Y, h) /\ s3 \in StateType /\ s3.rec[r] \in RecType /\ s3.rec[r].proc # 0
    BY <2>2, <2>7, <2>8, Parts, BoundsAssumption DEF Step, Inv, Base, Local, LocalRec, Proc
  <2>10. ClientOnly(s3.rec[r], x4) /\ SetRec(s3, n, r, x4)
    BY <2>9 DEF ClientOnly, RecType, SetRec
  <2>11. x4.client = s3.rec[r].client
    BY <2>9 DEF RecType
  <2> HIDE DEF x4, n
  <2>12. Step(s3, n, r, c, Y, h) /\ n.proc = s3.proc
    BY <2>9, <2>10, <2>11, ClientStep
  <2>13. Step(s, n, r, c, Y, h)
    <3>1. s2 \in StateType
      BY <2>7 DEF Step, Local
    <3>2. Step(s2, n, r, c, Y, h)
      BY <3>1, <2>8, <2>12, StepIsTransitive
    <3>3. Step(s1, n, r, c, Y, h)
      BY <3>2, <1>7, <2>7, StepIsTransitive
    <3>4. QED
      BY <3>3, <1>1, <1>6, StepIsTransitive
  <2>14. \A q \in Proc : \A m \in Queue(n, q) : m \in Queue(s, q) \/ m.r = 0
    BY <2>7, <2>8, <2>12, <1>6 DEF Queue
  <2>15. QED
    BY <1>8, <2>1, <2>13, <2>14 DEF Y
<1>11. QED
  BY <1>9, <1>10

-----------------------------------------------------------------------------
(* The client's side of a service.                                         *)

\* The client may make the service: its process is up, and careful callers
\* have not lost it.
MayMake(s, r, c, X, h) ==
    HasApp(s, r) /\ (c => Alive(s, r, h) /\ (s.rec[r].listed \/ r \in X))

\* The creation of the Service of a message in hand keeps the invariant.
LEMMA CreatedStep ==
    ASSUME NEW s, NEW c, NEW X, NEW h, Inv(s, c, X, h),
           NEW r \in Record, s.rec[r].proc # 0, MayMake(s, r, c, X, h)
    PROVE  Step(s, Created(s, r), r, c, X, h)
<1> DEFINE w == s.rec[r]
           x == [w EXCEPT !.client = [NoClient EXCEPT !.exists = TRUE]]
           made == IF w.client.exists THEN s
                   ELSE [s EXCEPT !.rec[r].client = [NoClient EXCEPT !.exists = TRUE]]
<1>1. s \in StateType /\ w \in RecType
  BY Parts DEF Inv, Base
<1>2. Step(s, made, r, c, X, h)
  <2>1. CASE w.client.exists
    BY <2>1, StepIsReflexive
  <2>2. CASE ~w.client.exists
    <3>1. ClientOnly(w, x)
      <4>0. NoClient \in ClientType
        BY DEF NoClient, ClientType
      <4>1. [NoClient EXCEPT !.exists = TRUE] \in ClientType
        BY <4>0 DEF ClientType
      <4>2. x \in RecType
        BY <4>1, <1>1 DEF RecType
      <4>3. QED
        BY <4>2, <1>1 DEF ClientOnly, RecType
    <3>2. SetRec(s, made, r, x)
      BY <2>2 DEF SetRec
    <3>3. s.rec[r] = w
      OBVIOUS
    <3> HIDE DEF w, x, made
    <3>4. QED
      BY <3>1, <3>2, <3>3, ClientStep DEF MayMake
  <2>3. QED
    BY <2>1, <2>2
<1>3. Created(s, r) = IF made.rec[r].client.mStatus = CREATING THEN Report(made, r, CREATED) ELSE made
  BY DEF Created
<1> HIDE DEF made
<1>4. Inv(made, c, X, h) /\ made.rec[r].proc # 0
  BY <1>2 DEF Step, Local, LocalRec
<1>5. Step(made, Report(made, r, CREATED), r, c, X, h)
  <2>1. CREATED # UNBINDED /\ CREATED \in {CREATED, STARTED, BINDED, UNBINDED}
    OBVIOUS
  <2> HIDE DEF CREATED, UNBINDED
  <2>2. QED
    BY <1>4, <2>1, ReportStep
<1>6. Step(s, Report(made, r, CREATED), r, c, X, h)
  BY <1>1, <1>2, <1>5, StepIsTransitive
<1>7. QED
  BY <1>2, <1>3, <1>6

\* The START message keeps the invariant.
LEMMA OnStartStep ==
    ASSUME NEW s, NEW c, NEW X, NEW h, Inv(s, c, X, h),
           NEW r \in Record, s.rec[r].proc # 0, MayMake(s, r, c, X, h)
    PROVE  Step(s, OnStart(s, r), r, c, X, h)
<1> DEFINE made == Created(s, r)
<1>1. s \in StateType
  BY DEF Inv, Base
<1>2. Step(s, made, r, c, X, h)
  BY CreatedStep
<1> HIDE DEF made
<1>3. Inv(made, c, X, h) /\ made.rec[r].proc # 0
  BY <1>2 DEF Step, Local, LocalRec
<1>4. Step(made, Report(made, r, STARTED), r, c, X, h)
  <2>1. STARTED # UNBINDED /\ STARTED \in {CREATED, STARTED, BINDED, UNBINDED}
    OBVIOUS
  <2> HIDE DEF STARTED, UNBINDED
  <2>2. QED
    BY <1>3, <2>1, ReportStep
<1>5. Step(s, Report(made, r, STARTED), r, c, X, h)
  BY <1>1, <1>2, <1>4, StepIsTransitive
<1>6. QED
  BY <1>5 DEF OnStart, made

\* The BIND message keeps the invariant.
LEMMA OnBindStep ==
    ASSUME NEW s, NEW c, NEW X, NEW h, Inv(s, c, X, h),
           NEW r \in Record, s.rec[r].proc # 0, MayMake(s, r, c, X, h), NEW conn
    PROVE  Step(s, OnBind(s, r, conn), r, c, X, h)
<1> DEFINE made == Created(s, r)
           bound == IF made.rec[r].client.mIsBinded THEN made
                    ELSE [PublishService(made, r) EXCEPT !.rec[r].client.mIsBinded = TRUE]
           told == IF s.rec[r].name \in HasBinder THEN Tell(bound, {conn}, "connected") ELSE bound
           n == [told EXCEPT !.rec[r].client.binded = TRUE]
<1>1. s \in StateType
  BY DEF Inv, Base
<1>2. Step(s, made, r, c, X, h)
  BY CreatedStep
<1>3. OnBind(s, r, conn) = Report(n, r, BINDED)
  BY DEF OnBind
<1> HIDE DEF made
<1>4. Inv(made, c, X, h) /\ made \in StateType /\ made.rec[r].proc # 0
  BY <1>2 DEF Step, Local, LocalRec
<1>5. Step(made, bound, r, c, X, h)
  <2>1. CASE made.rec[r].client.mIsBinded
    BY <2>1, <1>4, StepIsReflexive
  <2>2. CASE ~made.rec[r].client.mIsBinded
    <3> DEFINE w == made.rec[r]
               binder == IF w.listed THEN w.name \in HasBinder ELSE w.mServiceBinder
               x1 == [w EXCEPT !.mServiceBinder = binder]
               x == [x1 EXCEPT !.client = [x1.client EXCEPT !.mIsBinded = TRUE]]
               s1 == PublishService(made, r)
    <3>1. w \in RecType
      BY <1>4, Parts
    <3>2. binder \in BOOLEAN
      <4>1. w.mServiceBinder \in BOOLEAN
        BY <3>1, RecParts
      <4>2. (w.name \in HasBinder) \in BOOLEAN
        OBVIOUS
      <4> HIDE DEF w
      <4>3. QED
        BY <4>1, <4>2
    <3>3. s1 = [made EXCEPT !.rec[r] = x1]
      <4>1. CASE w.listed
        BY <4>1 DEF PublishService
      <4>2. CASE ~w.listed
        <5>1. x1 = w
          BY <4>2, <3>1 DEF RecType
        <5>2. [made EXCEPT !.rec[r] = w] = made
          BY <1>4 DEF StateType
        <5>3. s1 = made
          BY <4>2 DEF PublishService
        <5> HIDE DEF x1, s1
        <5>4. QED
          BY <5>1, <5>2, <5>3
      <4>3. QED
        BY <4>1, <4>2
    <3>4. x1 \in RecType
      <4> HIDE DEF binder
      <4>1. QED
        BY <3>1, <3>2 DEF RecType
    <3>5. ClientOnly(w, x) /\ x.client.exists = w.client.exists
      <4>1. ClientOnly(w, x1) /\ x1.client.exists = w.client.exists
        <5>1. /\ x1.name = w.name /\ x1.proc = w.proc /\ x1.listed = w.listed
              /\ x1.mStartFlag = w.mStartFlag /\ x1.mConnectRecord = w.mConnectRecord
              /\ x1.asked = w.asked /\ x1.client = w.client
          <6> HIDE DEF binder, w
          <6>1. QED
            BY <3>1 DEF RecType
        <5> HIDE DEF x1
        <5>2. QED
          BY <3>4, <5>1 DEF ClientOnly
      <4> HIDE DEF x1
      <4>2. QED
        BY <3>4, <4>1 DEF ClientOnly, RecType, ClientType
    <3>6. bound = [s1 EXCEPT !.rec[r] = [s1.rec[r] EXCEPT !.client = [s1.rec[r].client EXCEPT !.mIsBinded = TRUE]]]
      BY <2>2
    <3>7. s1.rec[r] = x1
      <4> HIDE DEF s1, x1
      <4>1. QED
        BY <3>3, <1>4 DEF StateType
    <3>8. SetRec(made, bound, r, x)
      <4>1. bound = [s1 EXCEPT !.rec[r] = x]
        BY <3>6, <3>7
      <4> HIDE DEF bound, x, x1, s1
      <4>2. QED
        BY <3>3, <4>1, <1>4 DEF SetRec, StateType
    <3>9. made.rec[r] = w
      OBVIOUS
    <3>10. x.client.exists => w.client.exists
      BY <3>5
    <3> HIDE DEF w, x, x1, bound
    <3>11. QED
      BY <1>4, <3>5, <3>8, <3>9, <3>10, ClientStep
  <2>3. QED
    BY <2>1, <2>2
<1> HIDE DEF bound
<1>6. Inv(bound, c, X, h) /\ bound \in StateType /\ bound.rec[r].proc # 0
  BY <1>4, <1>5 DEF Step, Local, LocalRec
<1>7. Step(bound, told, r, c, X, h)
  <2>1. CASE s.rec[r].name \in HasBinder
    BY <2>1, <1>6, StepOfTell
  <2>2. CASE s.rec[r].name \notin HasBinder
    BY <2>2, <1>6, StepIsReflexive
  <2>3. QED
    BY <2>1, <2>2
<1> HIDE DEF told
<1>8. Inv(told, c, X, h) /\ told \in StateType /\ told.rec[r].proc # 0
  BY <1>6, <1>7 DEF Step, Local, LocalRec
<1>9. Step(told, n, r, c, X, h)
  <2> DEFINE w == told.rec[r]
             x == [w EXCEPT !.client = [w.client EXCEPT !.binded = TRUE]]
  <2>1. w \in RecType
    BY <1>8, Parts
  <2>2. ClientOnly(w, x) /\ (x.client.exists => w.client.exists)
    BY <2>1 DEF ClientOnly, RecType, ClientType
  <2>3. SetRec(told, n, r, x)
    BY DEF SetRec
  <2>4. told.rec[r] = w
    OBVIOUS
  <2> HIDE DEF w, x, n
  <2>5. QED
    BY <1>8, <2>2, <2>3, <2>4, ClientStep
<1> HIDE DEF n
<1>10. Inv(n, c, X, h) /\ n \in StateType /\ n.rec[r].proc # 0
  BY <1>8, <1>9 DEF Step, Local, LocalRec
<1>11. Step(n, Report(n, r, BINDED), r, c, X, h)
  <2>1. BINDED # UNBINDED /\ BINDED \in {CREATED, STARTED, BINDED, UNBINDED}
    OBVIOUS
  <2> HIDE DEF BINDED, UNBINDED
  <2>2. QED
    BY <1>10, <2>1, ReportStep
<1>12. Step(s, Report(n, r, BINDED), r, c, X, h)
  <2>1. Step(told, Report(n, r, BINDED), r, c, X, h)
    BY <1>8, <1>9, <1>11, StepIsTransitive
  <2>2. Step(bound, Report(n, r, BINDED), r, c, X, h)
    BY <1>6, <1>7, <2>1, StepIsTransitive
  <2>3. Step(made, Report(n, r, BINDED), r, c, X, h)
    BY <1>4, <1>5, <2>2, StepIsTransitive
  <2>4. QED
    BY <1>1, <1>2, <2>3, StepIsTransitive
<1>13. QED
  BY <1>3, <1>12

\* The UNBIND message keeps the invariant, also where the report leads to stop().
LEMMA OnUnbindStep ==
    ASSUME NEW s, NEW c, NEW X, NEW h, Inv(s, c, X, h),
           NEW r \in Record, s.rec[r].proc # 0, c => Free(s, r)
    PROVE  Step(s, OnUnbind(s, r), r, c, X, h)
<1>1. CASE ~s.rec[r].client.binded
  BY <1>1, StepIsReflexive DEF OnUnbind
<1>2. CASE s.rec[r].client.binded
  <2> DEFINE w == s.rec[r]
             x == [w EXCEPT !.client = [w.client EXCEPT !.mIsBinded = FALSE]]
             n == [s EXCEPT !.rec[r].client.mIsBinded = FALSE]
  <2>1. s \in StateType /\ w \in RecType
    BY Parts DEF Inv, Base
  <2>2. ClientOnly(w, x) /\ (x.client.exists => w.client.exists)
    BY <2>1 DEF ClientOnly, RecType, ClientType
  <2>3. SetRec(s, n, r, x)
    BY DEF SetRec
  <2>4. s.rec[r] = w /\ OnUnbind(s, r) = Report(n, r, UNBINDED)
    BY <1>2 DEF OnUnbind
  <2> HIDE DEF w, x, n
  <2>5. Step(s, n, r, c, X, h) /\ n.proc = s.proc
    BY <2>2, <2>3, <2>4, ClientStep
  <2>6. Inv(n, c, X, h) /\ n.rec[r].proc # 0
    BY <2>5 DEF Step, Local, LocalRec
  <2>7. c => Free(n, r)
    BY <2>5 DEF Free, Queue
  <2>8. Step(n, Report(n, r, UNBINDED), r, c, X, h)
    <3>1. UNBINDED \in {CREATED, STARTED, BINDED, UNBINDED}
      OBVIOUS
    <3> HIDE DEF UNBINDED
    <3>2. QED
      BY <2>6, <2>7, <3>1, ReportStep
  <2>9. QED
    BY <2>1, <2>4, <2>5, <2>8, StepIsTransitive
<1>3. QED
  BY <1>1, <1>2

\* The STOP message keeps the invariant: the record leaves mServices with its client.
LEMMA OnDestroyStep ==
    ASSUME NEW s, NEW c, NEW X, NEW h, Inv(s, c, X, h),
           NEW r \in Record, s.rec[r].proc # 0,
           c => ~(s.proc[s.rec[r].proc].mStatus = "RUNNING" /\ r \in Exists(s, s.rec[r].proc)),
           c => r \in X \/ \A p \in Proc : \A m \in Queue(s, p) : m.r # r
    PROVE  Step(s, OnDestroy(s, r), r, c, X, h)
<1>1. CASE ~s.rec[r].client.exists
  BY <1>1, StepIsReflexive DEF OnDestroy
<1>2. CASE s.rec[r].client.exists
  <2> DEFINE Y == X \union {r}
             t == Report(s, r, DESTROYED)
             w == t.rec[r]
             x == [w EXCEPT !.client = NoClient]
             n == [t EXCEPT !.rec[r].client = NoClient]
  <2>1. s \in StateType /\ OnDestroy(s, r) = n
    BY <1>2 DEF OnDestroy, Inv, Base
  <2>2. /\ Step(s, t, r, c, Y, h)
        /\ \A q \in Proc : \A m \in Queue(t, q) : m \in Queue(s, q) \/ m.r = 0
    BY DestroyedStep
  <2> HIDE DEF t
  <2>3. Inv(t, c, Y, h) /\ t \in StateType /\ t.rec[r].proc # 0
    BY <2>2 DEF Step, Local, LocalRec
  <2>4. w \in RecType
    BY <2>3, Parts
  <2>5. ClientOnly(w, x) /\ ~x.client.exists
    <3>1. NoClient \in ClientType /\ ~NoClient.exists
      BY DEF ClientType, NoClient
    <3>2. x.client = NoClient
      BY <2>4 DEF RecType
    <3>3. x \in RecType
      BY <3>1, <2>4 DEF RecType
    <3>4. ClientOnly(w, x)
      BY <3>3, <2>4 DEF ClientOnly, RecType
    <3>5. QED
      BY <3>1, <3>2, <3>4
  <2>6. SetRec(t, n, r, x)
    BY DEF SetRec
  <2>7. t.rec[r] = w
    OBVIOUS
  <2> HIDE DEF w, x, n, Y
  <2>8. Step(t, n, r, c, Y, h) /\ n.rec[r] = x /\ n.proc = t.proc
    BY <2>3, <2>5, <2>6, <2>7, ClientStep
  <2>9. Step(s, n, r, c, Y, h)
    BY <2>1, <2>2, <2>8, StepIsTransitive
  <2>10. c => r \in X \/ Finished(n, r)
    <3>1. r # 0
      BY BoundsAssumption DEF Record
    <3>2. \A q \in Proc : \A m \in Queue(n, q) : m \in Queue(s, q) \/ m.r = 0
      BY <2>2, <2>8 DEF Queue
    <3>3. QED
      BY <2>5, <2>8, <3>1, <3>2 DEF Finished
  <2>11. Inv(n, c, X, h)
    BY <2>9, <2>10, NotExempt DEF Step, Y
  <2>12. QED
    BY <2>1, <2>9, <2>11 DEF Step
<1>3. QED
  BY <1>1, <1>2

-----------------------------------------------------------------------------
(* The client's loop takes a message.                                      *)

\* A local step changes neither whose process a record belongs to nor what
\* has been terminated.
LEMMA LocalFrame ==
    ASSUME NEW s, NEW n, NEW r \in Record, Local(s, n, r)
    PROVE  /\ \A q \in Record : n.rec[q].proc = s.rec[q].proc /\ n.rec[q].name = s.rec[q].name
           /\ \A p \in Proc : n.proc[p].terminated = s.proc[p].terminated
BY DEF Local, LocalRec, LocalProc

\* What changes neither the processes of records nor their termination
\* exempts the same records.
LEMMA SameEnded ==
    ASSUME NEW s \in StateType, NEW n,
           \A q \in Record : n.rec[q].proc = s.rec[q].proc,
           \A p \in Proc : n.proc[p].terminated = s.proc[p].terminated
    PROVE  Ended(n) = Ended(s)
<1>1. \A q \in Record : s.rec[q].proc # 0 => s.rec[q].proc \in Proc
  BY Parts, RecParts
<1>2. QED
  BY <1>1 DEF Ended

\* When the message is done, its record is like the others.
LEMMA Done ==
    ASSUME NEW s, NEW c, NEW X, NEW h, Inv(s, c, X, h)
    PROVE  Inv(s, c, X, 0)
<1>1. \A r \in Record : Alive(s, r, 0) => Alive(s, r, h)
  BY BoundsAssumption DEF Alive, Record
<1>2. ASSUME c PROVE OneOfAName(s, 0)
  BY <1>1, <1>2 DEF Inv, Orderly, OneOfAName
<1>3. QED
  BY <1>2 DEF Inv, Orderly

Popped(s, p) == [s EXCEPT !.proc[p].sent = Tail(@)]

\* What taking the first message leaves.
LEMMA PoppedFacts ==
    ASSUME NEW s \in StateType, NEW p \in Proc, s.proc[p].sent # <<>>
    PROVE  LET n == Popped(s, p)
               m == Head(s.proc[p].sent)
           IN /\ m \in Message /\ m \in Queue(s, p)
              /\ n \in StateType /\ n.rec = s.rec
              /\ n.records = s.records /\ n.procs = s.procs /\ n.undefined = s.undefined
              /\ n.proc[p].sent = Tail(s.proc[p].sent)
              /\ \A q \in Proc : /\ q # p => n.proc[q] = s.proc[q]
                                 /\ n.proc[q].mStatus = s.proc[q].mStatus
                                 /\ n.proc[q].attach = s.proc[q].attach
                                 /\ n.proc[q].terminated = s.proc[q].terminated
                                 /\ n.proc[q].mExistService = s.proc[q].mExistService
                                 /\ Queue(n, q) \subseteq Queue(s, q)
<1> DEFINE n == Popped(s, p)
           a == s.proc[p]
           y == [a EXCEPT !.sent = Tail(a.sent)]
<1>1. a \in ProcType /\ a.sent \in Seq(Message) /\ a.sent # <<>>
  BY Parts, ProcParts
<1>2. /\ Head(a.sent) \in Message /\ Head(a.sent) \in ToSet(a.sent)
      /\ Tail(a.sent) \in Seq(Message) /\ ToSet(Tail(a.sent)) \subseteq ToSet(a.sent)
  BY <1>1, Taken
<1>3. /\ y \in ProcType /\ y.sent = Tail(a.sent) /\ y.mStatus = a.mStatus /\ y.attach = a.attach
      /\ y.terminated = a.terminated /\ y.mExistService = a.mExistService
  <2> HIDE DEF a
  <2>1. QED
    BY <1>1, <1>2 DEF ProcType
<1>4. n = [s EXCEPT !.proc[p] = y]
  BY DEF Popped
<1>5. s.proc[p] = a
  OBVIOUS
<1> HIDE DEF n, y, a
<1>6. /\ n \in StateType /\ n.rec = s.rec /\ n.proc[p] = y
      /\ n.records = s.records /\ n.procs = s.procs /\ n.undefined = s.undefined
      /\ \A q \in Proc : q # p => n.proc[q] = s.proc[q]
  BY <1>3, <1>4 DEF StateType
<1>7. \A q \in Proc : /\ n.proc[q].mStatus = s.proc[q].mStatus
                      /\ n.proc[q].attach = s.proc[q].attach
                      /\ n.proc[q].terminated = s.proc[q].terminated
                      /\ n.proc[q].mExistService = s.proc[q].mExistService
                      /\ Queue(n, q) \subseteq Queue(s, q)
  BY <1>2, <1>3, <1>5, <1>6 DEF Queue
<1>8. Head(a.sent) \in Queue(s, p)
  BY <1>2, <1>5 DEF Queue
<1>9. QED
  BY <1>2, <1>3, <1>5, <1>6, <1>7, <1>8 DEF n

\* The message that is in hand keeps its record alive.
LEMMA PoppedInv ==
    ASSUME NEW s, NEW c, NEW X, Inv(s, c, X, 0), NEW p \in Proc, s.proc[p].sent # <<>>
    PROVE  LET n == Popped(s, p)
               m == Head(s.proc[p].sent)
           IN /\ Inv(n, c, X, m.r)
              /\ c /\ m.op \in {"UNBIND", "STOP"} =>
                   \A q \in Proc : \A i \in Queue(n, q) : i.r # m.r
<1> DEFINE n == Popped(s, p)
           m == Head(s.proc[p].sent)
<1>1. s \in StateType /\ Base(s)
  BY DEF Inv, Base
<1>2. /\ m \in Message /\ m \in Queue(s, p)
      /\ n \in StateType /\ n.rec = s.rec
      /\ n.records = s.records /\ n.procs = s.procs /\ n.undefined = s.undefined
      /\ n.proc[p].sent = Tail(s.proc[p].sent)
      /\ \A q \in Proc : /\ q # p => n.proc[q] = s.proc[q]
                         /\ n.proc[q].mStatus = s.proc[q].mStatus
                         /\ n.proc[q].attach = s.proc[q].attach
                         /\ n.proc[q].terminated = s.proc[q].terminated
                         /\ n.proc[q].mExistService = s.proc[q].mExistService
                         /\ Queue(n, q) \subseteq Queue(s, q)
  BY <1>1, PoppedFacts
<1>3. /\ s.proc[p].sent \in Seq(Message)
      /\ InOrder(s.proc[p].sent) =>
           /\ InOrder(Tail(s.proc[p].sent))
           /\ m.op \in {"UNBIND", "STOP"} => \A i \in ToSet(Tail(s.proc[p].sent)) : i.r # m.r
  <2>1. s.proc[p].sent \in Seq(Message)
    BY <1>1, Parts, ProcParts
  <2>2. QED
    BY <2>1, Taken
<1>4. \A q \in Proc : Exists(n, q) = Exists(s, q) /\ (Up(n, q) <=> Up(s, q))
  BY <1>2 DEF Exists, Up
<1>5. \A r \in Record : s.rec[r].proc # 0 => s.rec[r].proc \in Proc
  BY <1>1, Parts, RecParts
<1> HIDE DEF n, m
<1>6. \A r \in Record : (HasApp(n, r) <=> HasApp(s, r))
  BY <1>2, <1>5 DEF HasApp
<1>7. Base(n)
  <2>1. Fresh(n)
    BY <1>1, <1>2 DEF Base, Fresh
  <2>2. Placed(n)
    BY <1>1, <1>2, <1>5 DEF Base, Placed
  <2>3. Idle(n)
    <3> SUFFICES ASSUME NEW q \in Proc, ~Up(n, q)
                 PROVE  /\ n.proc[q].mExistService = <<>> /\ n.proc[q].sent = <<>>
                        /\ \A r \in Record : n.rec[r].proc = q => ~n.rec[r].client.exists
      BY DEF Idle
    <3>1. ~Up(s, q)
      BY <1>4
    <3>2. /\ s.proc[q].mExistService = <<>> /\ s.proc[q].sent = <<>>
          /\ \A r \in Record : s.rec[r].proc = q => ~s.rec[r].client.exists
      BY <3>1, <1>1 DEF Base, Idle
    <3>3. q # p
      BY <3>2
    <3>4. QED
      BY <3>2, <3>3, <1>2
  <2>4. Own(n)
    <3>1. \A q \in Proc : \A r \in Exists(n, q) : n.rec[r].proc = q
      BY <1>1, <1>2, <1>4 DEF Base, Own
    <3>2. ASSUME NEW q \in Proc, NEW i \in Queue(n, q)
          PROVE  IF i.op = "TERMINATE" THEN i.r = 0 ELSE i.r \in Record /\ n.rec[i.r].proc = q
      <4>1. i \in Queue(s, q)
        BY <1>2
      <4>2. QED
        BY <4>1, <1>1, <1>2 DEF Base, Own
    <3>3. QED
      BY <3>1, <3>2 DEF Own
  <2>5. ASSUME NEW r \in Record PROVE Counted(n, r) /\ Sound(n, r)
    <3>1. Counted(s, r) /\ Sound(s, r)
      BY <1>1 DEF Base
    <3>2. HasApp(s, r) => Exists(n, s.rec[r].proc) = Exists(s, s.rec[r].proc)
      BY <1>4, <1>5 DEF HasApp
    <3>3. QED
      BY <3>1, <3>2, <1>2, <1>6 DEF Counted, Sound
  <2>6. QED
    BY <1>2, <2>1, <2>2, <2>3, <2>4, <2>5 DEF Base
<1>8. ASSUME c
      PROVE  /\ Orderly(n, X, m.r)
             /\ m.op \in {"UNBIND", "STOP"} => \A q \in Proc : \A i \in Queue(n, q) : i.r # m.r
  <2>1. Orderly(s, X, 0)
    BY <1>8 DEF Inv
  <2>2. \A q \in Proc : Tidy(n, q) /\ Going(n, q)
    BY <2>1, <1>2, <1>4 DEF Orderly, Tidy, Going
  <2>3. ASSUME NEW q \in Proc PROVE QueueOK(n, q)
    <3>1. QueueOK(s, q) /\ QueueOK(s, p)
      BY <2>1 DEF Orderly
    <3>2. InOrder(n.proc[q].sent)
      <4>1. CASE q = p
        BY <4>1, <3>1, <1>2, <1>3 DEF QueueOK
      <4>2. CASE q # p
        BY <4>2, <3>1, <1>2 DEF QueueOK
      <4>3. QED
        BY <4>1, <4>2
    <3>3. QED
      BY <3>1, <3>2, <1>2 DEF QueueOK
  <2>4. TasksDiffer(n)
    BY <2>1, <1>2 DEF Orderly, TasksDiffer
  <2>5. ASSUME NEW r \in Record, Finished(s, r) PROVE Finished(n, r)
    BY <2>5, <1>2 DEF Finished
  <2>6. ASSUME NEW r \in Record, Alive(n, r, m.r) PROVE Alive(s, r, 0)
    <3>1. CASE r = m.r
      BY <3>1, <1>2 DEF Alive, Finished
    <3>2. CASE r # m.r
      BY <3>2, <2>5, <2>6, <1>2 DEF Alive
    <3>3. QED
      BY <3>1, <3>2
  <2>7. OneOfAName(n, m.r)
    BY <2>1, <2>6, <1>2 DEF Orderly, OneOfAName
  <2>8. \A r \in Record \ X : n.rec[r].listed \/ Finished(n, r)
    BY <2>1, <2>5, <1>2 DEF Orderly
  <2>9. Orderly(n, X, m.r)
    BY <2>1, <2>2, <2>3, <2>4, <2>7, <2>8, <1>2 DEF Orderly
  <2>10. ASSUME m.op \in {"UNBIND", "STOP"}, NEW q \in Proc, NEW i \in Queue(n, q)
         PROVE  i.r # m.r
    <3>1. m.op # "TERMINATE"
      BY <2>10
    <3>2. m.r \in Record /\ s.rec[m.r].proc = p
      BY <3>1, <1>1, <1>2 DEF Base, Own
    <3>3. m.r # 0
      BY <3>2, BoundsAssumption DEF Record
    <3>4. CASE q = p
      <4>1. i \in ToSet(Tail(s.proc[p].sent))
        BY <3>4, <1>2 DEF Queue
      <4>2. InOrder(s.proc[p].sent)
        BY <2>1 DEF Orderly, QueueOK
      <4>3. QED
        BY <4>1, <4>2, <1>3, <2>10
    <3>5. CASE q # p
      <4>1. i \in Queue(s, q)
        BY <1>2
      <4>2. IF i.op = "TERMINATE" THEN i.r = 0 ELSE i.r \in Record /\ s.rec[i.r].proc = q
        BY <4>1, <1>1 DEF Base, Own
      <4>3. QED
        BY <4>2, <3>2, <3>3, <3>5
    <3>6. QED
      BY <3>4, <3>5
  <2>11. QED
    BY <2>9, <2>10
<1>9. QED
  BY <1>7, <1>8 DEF Inv, n, m

-----------------------------------------------------------------------------
(* Loops over records: what each round keeps, the loop keeps.              *)

DestroyLoop(s, S, f) ==
    f = [n \in 0..MaxRecords |->
           IF n = 0 THEN s
           ELSE IF n \in S THEN OnDestroy(f[n - 1], n) ELSE f[n - 1]]

\* The loop of clearActivityAndService() stays in a set that onDestroy() keeps.
LEMMA DestroyLoopKeeps ==
    ASSUME NEW T, NEW s \in T, NEW S, \A r \in Record \cap S : \A t \in T : OnDestroy(t, r) \in T
    PROVE  ForEach(OnDestroy, s, S) \in T
<1> DEFINE N == MaxRecords
           step == [n \in 1..N |-> [t \in T |-> IF n \in S THEN OnDestroy(t, n) ELSE t]]
           f == CHOOSE g : DestroyLoop(s, S, g)
           good == {n \in 0..N : f[n] \in T}
<1>1. N \in Nat /\ Record = 1..N
  BY BoundsAssumption DEF Record
<1>2. step \in [1..N -> [T -> T]]
  BY <1>1
<1>3. \E g : DestroyLoop(s, S, g)
  <2>1. PICK g \in [0..N -> T] : Iterated(s, step, N, g)
    <3> HIDE DEF step, N
    <3>1. QED
      BY <1>1, <1>2, IteratedExists
  <2> DEFINE h == [n \in 0..N |-> IF n = 0 THEN s
                                  ELSE IF n \in S THEN OnDestroy(g[n - 1], n) ELSE g[n - 1]]
  <2>2. \A n \in 0..N : g[n] = IF n = 0 THEN s ELSE step[n][g[n - 1]]
    BY <2>1 DEF Iterated
  <2>3. ASSUME NEW n \in 0..N PROVE g[n] = h[n]
    <3>1. n # 0 => n \in 1..N /\ n - 1 \in 0..N
      BY <1>1
    <3>2. n # 0 => g[n - 1] \in T
      BY <3>1
    <3>3. QED
      BY <2>2, <3>1, <3>2
  <2>4. g = h
    <3>1. g = [n \in 0..N |-> g[n]] /\ h = [n \in 0..N |-> h[n]]
      OBVIOUS
    <3> HIDE DEF h
    <3>2. QED
      BY <3>1, <2>3
  <2>5. DestroyLoop(s, S, g)
    BY <2>4 DEF DestroyLoop
  <2>6. QED
    BY <2>5
<1>4. ForEach(OnDestroy, s, S) = f[N]
  BY DEF ForEach, DestroyLoop
<1>5. DestroyLoop(s, S, f)
  BY <1>3
<1> HIDE DEF f
<1>6. \A n \in 0..N : f[n] = IF n = 0 THEN s
                             ELSE IF n \in S THEN OnDestroy(f[n - 1], n) ELSE f[n - 1]
  BY <1>5 DEF DestroyLoop
<1> HIDE DEF N
<1>7. 0 \in good
  BY <1>1, <1>6
<1>8. ASSUME NEW k \in 0..(N - 1), k \in good PROVE k + 1 \in good
  <2> DEFINE j == k + 1
  <2>1. j \in 1..N /\ j \in 0..N /\ j # 0 /\ j - 1 = k
    BY <1>1
  <2> HIDE DEF j
  <2>2. f[j] = (IF j \in S THEN OnDestroy(f[k], j) ELSE f[k]) /\ f[k] \in T
    BY <2>1, <1>6, <1>8
  <2>3. f[j] \in T
    BY <2>1, <2>2, <1>1
  <2>4. QED
    BY <2>1, <2>3 DEF j
<1>9. N \in good
  <2>1. 0..N \subseteq good
    <3> HIDE DEF good
    <3>1. QED
      BY <1>1, <1>7, <1>8, UpTo
  <2>2. QED
    BY <2>1, <1>1
<1>10. QED
  BY <1>4, <1>9

ExitLoop(s, S, f) ==
    f = [n \in 0..MaxRecords |->
           IF n = 0 THEN s
           ELSE IF n \in S THEN AbnormalExit(f[n - 1], n) ELSE f[n - 1]]

\* The loop of procAppTerminated(), round by round: G holds what each round leaves.
LEMMA ExitLoopFollows ==
    ASSUME NEW T, NEW s \in T, NEW S, \A r \in Record \cap S : \A t \in T : AbnormalExit(t, r) \in T,
           NEW G, s \in G[0],
           \A r \in Record : \A t \in T \cap G[r - 1] : (IF r \in S THEN AbnormalExit(t, r) ELSE t) \in G[r]
    PROVE  ForEach(AbnormalExit, s, S) \in T \cap G[MaxRecords]
<1> DEFINE N == MaxRecords
           step == [n \in 1..N |-> [t \in T |-> IF n \in S THEN AbnormalExit(t, n) ELSE t]]
           f == CHOOSE g : ExitLoop(s, S, g)
           good == {n \in 0..N : f[n] \in T \cap G[n]}
<1>1. N \in Nat /\ Record = 1..N
  BY BoundsAssumption DEF Record
<1>2. step \in [1..N -> [T -> T]]
  BY <1>1
<1>3. \E g : ExitLoop(s, S, g)
  <2>1. PICK g \in [0..N -> T] : Iterated(s, step, N, g)
    <3> HIDE DEF step, N
    <3>1. QED
      BY <1>1, <1>2, IteratedExists
  <2> DEFINE h == [n \in 0..N |-> IF n = 0 THEN s
                                  ELSE IF n \in S THEN AbnormalExit(g[n - 1], n) ELSE g[n - 1]]
  <2>2. \A n \in 0..N : g[n] = IF n = 0 THEN s ELSE step[n][g[n - 1]]
    BY <2>1 DEF Iterated
  <2>3. ASSUME NEW n \in 0..N PROVE g[n] = h[n]
    <3>1. n # 0 => n \in 1..N /\ n - 1 \in 0..N
      BY <1>1
    <3>2. n # 0 => g[n - 1] \in T
      BY <3>1
    <3>3. QED
      BY <2>2, <3>1, <3>2
  <2>4. g = h
    <3>1. g = [n \in 0..N |-> g[n]] /\ h = [n \in 0..N |-> h[n]]
      OBVIOUS
    <3> HIDE DEF h
    <3>2. QED
      BY <3>1, <2>3
  <2>5. ExitLoop(s, S, g)
    BY <2>4 DEF ExitLoop
  <2>6. QED
    BY <2>5
<1>4. ForEach(AbnormalExit, s, S) = f[N]
  BY DEF ForEach, ExitLoop
<1>5. ExitLoop(s, S, f)
  BY <1>3
<1> HIDE DEF f
<1>6. \A n \in 0..N : f[n] = IF n = 0 THEN s
                             ELSE IF n \in S THEN AbnormalExit(f[n - 1], n) ELSE f[n - 1]
  BY <1>5 DEF ExitLoop
<1> HIDE DEF N
<1>7. 0 \in good
  <2>1. 0 \in 0..N /\ f[0] = s
    BY <1>1, <1>6
  <2>2. QED
    BY <2>1
<1>8. ASSUME NEW k \in 0..(N - 1), k \in good PROVE k + 1 \in good
  <2> DEFINE j == k + 1
  <2>1. j \in 1..N /\ j \in 0..N /\ j # 0 /\ j - 1 = k
    BY <1>1
  <2> HIDE DEF j
  <2>2. f[j] = (IF j \in S THEN AbnormalExit(f[k], j) ELSE f[k]) /\ f[k] \in T
    BY <2>1, <1>6, <1>8
  <2>3. f[j] \in T
    BY <2>1, <2>2, <1>1
  <2>4. f[j] \in G[j]
    <3>1. j \in Record /\ f[k] \in T \cap G[j - 1]
      BY <2>1, <1>1, <1>8
    <3>2. QED
      BY <3>1, <2>2
  <2>5. QED
    BY <2>1, <2>3, <2>4 DEF j
<1>9. N \in good
  <2>1. 0..N \subseteq good
    <3> HIDE DEF good
    <3>1. QED
      BY <1>1, <1>7, <1>8, UpTo
  <2>2. QED
    BY <2>1, <1>1
<1>10. QED
  BY <1>4, <1>9 DEF N

\* It stays in a set that each round keeps.
LEMMA ExitLoopKeeps ==
    ASSUME NEW T, NEW s \in T, NEW S, \A r \in Record \cap S : \A t \in T : AbnormalExit(t, r) \in T
    PROVE  ForEach(AbnormalExit, s, S) \in T
<1> DEFINE G == [n \in 0..MaxRecords |-> T]
<1>1. /\ \A r \in Record : G[r - 1] = T /\ G[r] = T
      /\ s \in G[0]
  BY BoundsAssumption DEF Record
<1>2. \A r \in Record : \A t \in T \cap G[r - 1] : (IF r \in S THEN AbnormalExit(t, r) ELSE t) \in G[r]
  BY <1>1
<1> HIDE DEF G
<1>3. ForEach(AbnormalExit, s, S) \in T \cap G[MaxRecords]
  BY <1>1, <1>2, ExitLoopFollows
<1>4. QED
  BY <1>3

UnbindEach(s, S, conn) == ForEach(LAMBDA t, r : Unbind(t, r, conn), s, S)

UnbindLoop(conn, s, S, f) ==
    f = [n \in 0..MaxRecords |->
           IF n = 0 THEN s
           ELSE IF n \in S THEN Unbind(f[n - 1], n, conn) ELSE f[n - 1]]

\* The loop of unbindService(), round by round.
LEMMA UnbindLoopFollows ==
    ASSUME NEW conn, NEW T, NEW s \in T, NEW S, \A r \in Record \cap S : \A t \in T : Unbind(t, r, conn) \in T,
           NEW G, s \in G[0],
           \A r \in Record : \A t \in T \cap G[r - 1] : (IF r \in S THEN Unbind(t, r, conn) ELSE t) \in G[r]
    PROVE  UnbindEach(s, S, conn) \in T \cap G[MaxRecords]
<1> DEFINE N == MaxRecords
           step == [n \in 1..N |-> [t \in T |-> IF n \in S THEN Unbind(t, n, conn) ELSE t]]
           f == CHOOSE g : UnbindLoop(conn, s, S, g)
           good == {n \in 0..N : f[n] \in T \cap G[n]}
<1>1. N \in Nat /\ Record = 1..N
  BY BoundsAssumption DEF Record
<1>2. step \in [1..N -> [T -> T]]
  BY <1>1
<1>3. \E g : UnbindLoop(conn, s, S, g)
  <2>1. PICK g \in [0..N -> T] : Iterated(s, step, N, g)
    <3> HIDE DEF step, N
    <3>1. QED
      BY <1>1, <1>2, IteratedExists
  <2> DEFINE h == [n \in 0..N |-> IF n = 0 THEN s
                                  ELSE IF n \in S THEN Unbind(g[n - 1], n, conn) ELSE g[n - 1]]
  <2>2. \A n \in 0..N : g[n] = IF n = 0 THEN s ELSE step[n][g[n - 1]]
    BY <2>1 DEF Iterated
  <2>3. ASSUME NEW n \in 0..N PROVE g[n] = h[n]
    <3>1. n # 0 => n \in 1..N /\ n - 1 \in 0..N
      BY <1>1
    <3>2. n # 0 => g[n - 1] \in T
      BY <3>1
    <3>3. QED
      BY <2>2, <3>1, <3>2
  <2>4. g = h
    <3>1. g = [n \in 0..N |-> g[n]] /\ h = [n \in 0..N |-> h[n]]
      OBVIOUS
    <3> HIDE DEF h
    <3>2. QED
      BY <3>1, <2>3
  <2>5. UnbindLoop(conn, s, S, g)
    BY <2>4 DEF UnbindLoop
  <2>6. QED
    BY <2>5
<1>4. UnbindEach(s, S, conn) = f[N]
  BY DEF UnbindEach, ForEach, UnbindLoop
<1>5. UnbindLoop(conn, s, S, f)
  BY <1>3
<1> HIDE DEF f
<1>6. \A n \in 0..N : f[n] = IF n = 0 THEN s
                             ELSE IF n \in S THEN Unbind(f[n - 1], n, conn) ELSE f[n - 1]
  BY <1>5 DEF UnbindLoop
<1> HIDE DEF N
<1>7. 0 \in good
  <2>1. 0 \in 0..N /\ f[0] = s
    BY <1>1, <1>6
  <2>2. QED
    BY <2>1
<1>8. ASSUME NEW k \in 0..(N - 1), k \in good PROVE k + 1 \in good
  <2> DEFINE j == k + 1
  <2>1. j \in 1..N /\ j \in 0..N /\ j # 0 /\ j - 1 = k
    BY <1>1
  <2> HIDE DEF j
  <2>2. f[j] = (IF j \in S THEN Unbind(f[k], j, conn) ELSE f[k]) /\ f[k] \in T
    BY <2>1, <1>6, <1>8
  <2>3. f[j] \in T
    BY <2>1, <2>2, <1>1
  <2>4. f[j] \in G[j]
    <3>1. j \in Record /\ f[k] \in T \cap G[j - 1]
      BY <2>1, <1>1, <1>8
    <3>2. QED
      BY <3>1, <2>2
  <2>5. QED
    BY <2>1, <2>3, <2>4 DEF j
<1>9. N \in good
  <2>1. 0..N \subseteq good
    <3> HIDE DEF good
    <3>1. QED
      BY <1>1, <1>7, <1>8, UpTo
  <2>2. QED
    BY <2>1, <1>1
<1>10. QED
  BY <1>4, <1>9 DEF N

\* It stays in a set that each round keeps.
LEMMA UnbindLoopKeeps ==
    ASSUME NEW conn, NEW T, NEW s \in T, NEW S, \A r \in Record \cap S : \A t \in T : Unbind(t, r, conn) \in T
    PROVE  UnbindEach(s, S, conn) \in T
<1> DEFINE G == [n \in 0..MaxRecords |-> T]
<1>1. /\ \A r \in Record : G[r - 1] = T /\ G[r] = T
      /\ s \in G[0]
  BY BoundsAssumption DEF Record
<1>2. \A r \in Record : \A t \in T \cap G[r - 1] : (IF r \in S THEN Unbind(t, r, conn) ELSE t) \in G[r]
  BY <1>1
<1> HIDE DEF G
<1>3. UnbindEach(s, S, conn) \in T \cap G[MaxRecords]
  BY <1>1, <1>2, UnbindLoopFollows
<1>4. QED
  BY <1>3

-----------------------------------------------------------------------------
(* What the client's loop does with a message.                             *)

\* The records whose client is told to terminate are exempt from then on.
Terminates(s, n, p) ==
    /\ \A r \in Record : n.rec[r].proc = s.rec[r].proc
    /\ n.proc[p].terminated
    /\ \A q \in Proc : q # p => n.proc[q].terminated = s.proc[q].terminated

\* terminateApplication() keeps the invariant, with the records of the process
\* exempt.
LEMMA TerminateStep ==
    ASSUME NEW s, NEW c, NEW X, Inv(s, c, X, 0), NEW p \in Proc,
           c => s.proc[p].mStatus = "STOPPING",
           NEW Y, X \subseteq Y, {r \in Record : s.rec[r].proc = p} \subseteq Y
    PROVE  LET n == [ForEach(OnDestroy, s, Clients(s, p)) EXCEPT !.proc[p].terminated = TRUE]
           IN Inv(n, c, Y, 0) /\ Terminates(s, n, p)
<1> DEFINE S == Clients(s, p)
           T == {t \in StateType :
                   /\ Inv(t, c, Y, 0)
                   /\ \A r \in Record : t.rec[r].proc = s.rec[r].proc
                   /\ \A q \in Proc : t.proc[q].terminated = s.proc[q].terminated
                   /\ c => t.proc[p].mStatus = "STOPPING"}
           f == ForEach(OnDestroy, s, S)
           n == [f EXCEPT !.proc[p].terminated = TRUE]
<1>1. s \in T
  <2>1. Inv(s, c, Y, 0)
    BY Exempt
  <2>2. QED
    BY <2>1 DEF Inv, Base
<1>2. ASSUME NEW r \in Record \cap S, NEW t \in T PROVE OnDestroy(t, r) \in T
  <2>1. Inv(t, c, Y, 0) /\ t.rec[r].proc = p /\ p # 0 /\ r \in Y
    BY <1>2 DEF Clients, Proc
  <2>2. Step(t, OnDestroy(t, r), r, c, Y, 0)
    <3>1. c => ~(t.proc[t.rec[r].proc].mStatus = "RUNNING" /\ r \in Exists(t, t.rec[r].proc))
      BY <2>1
    <3>2. QED
      BY <2>1, <3>1, OnDestroyStep
  <2> DEFINE d == OnDestroy(t, r)
  <2>3. \A q \in Proc : t.proc[q].mStatus = "STOPPING" => d.proc[q].mStatus = "STOPPING"
    BY <2>2 DEF Step, Local, LocalProc
  <2>4. /\ \A q \in Record : d.rec[q].proc = t.rec[q].proc
        /\ \A q \in Proc : d.proc[q].terminated = t.proc[q].terminated
    BY <2>2, LocalFrame DEF Step
  <2>5. d \in StateType /\ Inv(d, c, Y, 0)
    BY <2>2 DEF Step, Local
  <2> HIDE DEF d
  <2>6. d \in T
    BY <2>3, <2>4, <2>5
  <2>7. QED
    BY <2>6 DEF d
<1>3. f \in T
  <2> HIDE DEF T, S
  <2>1. QED
    BY <1>1, <1>2, DestroyLoopKeeps
<1> HIDE DEF f, S
<1>4. /\ f \in StateType /\ Inv(f, c, Y, 0)
      /\ \A r \in Record : f.rec[r].proc = s.rec[r].proc
      /\ \A q \in Proc : f.proc[q].terminated = s.proc[q].terminated
      /\ c => f.proc[p].mStatus = "STOPPING"
  BY <1>3
<1> HIDE DEF T
<1> DEFINE a == f.proc[p]
           y == [a EXCEPT !.terminated = TRUE]
<1>5. a \in ProcType
  BY <1>4, Parts
<1>6. /\ y \in ProcType /\ y.terminated /\ y.mStatus = a.mStatus /\ y.attach = a.attach
      /\ y.sent = a.sent /\ y.mExistService = a.mExistService
  <2> HIDE DEF a
  <2>1. QED
    BY <1>5 DEF ProcType
<1>7. n = [f EXCEPT !.proc[p] = y] /\ f.proc[p] = a
  OBVIOUS
<1> HIDE DEF y, a, n
<1>8. /\ n \in StateType /\ n.rec = f.rec /\ n.proc[p] = y
      /\ n.records = f.records /\ n.procs = f.procs /\ n.undefined = f.undefined
      /\ \A q \in Proc : q # p => n.proc[q] = f.proc[q]
  BY <1>4, <1>6, <1>7 DEF StateType
<1>9. \A q \in Proc : /\ n.proc[q].mStatus = f.proc[q].mStatus /\ n.proc[q].attach = f.proc[q].attach
                      /\ n.proc[q].sent = f.proc[q].sent
                      /\ n.proc[q].mExistService = f.proc[q].mExistService
                      /\ q # p => n.proc[q].terminated = f.proc[q].terminated
  BY <1>6, <1>7, <1>8
<1>10. Inv(n, c, Y, 0)
  <2>1. \A q \in Proc : /\ Exists(n, q) = Exists(f, q) /\ Queue(n, q) = Queue(f, q)
                        /\ Up(n, q) <=> Up(f, q)
    BY <1>9 DEF Exists, Queue, Up
  <2>2. \A r \in Record : f.rec[r].proc # 0 => f.rec[r].proc \in Proc
    BY <1>4, Parts, RecParts
  <2>3. \A r \in Record : HasApp(n, r) <=> HasApp(f, r)
    BY <1>8, <1>9, <2>2 DEF HasApp
  <2>4. Base(f)
    BY <1>4 DEF Inv
  <2>5. Base(n)
    <3>1. Fresh(n) /\ Placed(n) /\ Idle(n) /\ Own(n)
      BY <1>8, <1>9, <2>1, <2>2, <2>4 DEF Base, Fresh, Placed, Idle, Own
    <3>2. ASSUME NEW r \in Record PROVE Counted(n, r) /\ Sound(n, r)
      <4>1. Counted(f, r) /\ Sound(f, r)
        BY <2>4 DEF Base
      <4>2. HasApp(f, r) => Exists(n, f.rec[r].proc) = Exists(f, f.rec[r].proc)
        BY <2>1, <2>2 DEF HasApp
      <4>3. QED
        BY <4>1, <4>2, <1>8, <2>3 DEF Counted, Sound
    <3>3. QED
      BY <3>1, <3>2, <1>8 DEF Base
  <2>6. ASSUME c PROVE Orderly(n, Y, 0)
    <3>1. Orderly(f, Y, 0)
      BY <2>6, <1>4 DEF Inv
    <3>2. \A q \in Proc : Tidy(n, q) /\ QueueOK(n, q)
      BY <3>1, <1>8, <1>9, <2>1 DEF Orderly, Tidy, QueueOK
    <3>3. \A q \in Proc : Going(n, q)
      <4>1. f.proc[p].mStatus = "STOPPING"
        BY <2>6, <1>4
      <4>2. \A q \in Proc : Going(f, q)
        BY <3>1 DEF Orderly
      <4>3. QED
        BY <4>1, <4>2, <1>9 DEF Going
    <3>4. TasksDiffer(n)
      BY <3>1, <1>9 DEF Orderly, TasksDiffer
    <3>5. \A r \in Record : Finished(n, r) <=> Finished(f, r)
      BY <1>8, <2>1 DEF Finished
    <3>6. OneOfAName(n, 0)
      BY <3>1, <3>5, <1>8 DEF Orderly, OneOfAName, Alive
    <3>7. QED
      BY <3>1, <3>2, <3>3, <3>4, <3>5, <3>6, <1>8 DEF Orderly
  <2>7. QED
    BY <2>5, <2>6 DEF Inv
<1>11. Terminates(s, n, p)
  BY <1>4, <1>6, <1>8, <1>9 DEF Terminates
<1>12. QED
  BY <1>10, <1>11 DEF n, f, S

\* A message about a service is a step of that service.
LEMMA HandledStep ==
    ASSUME NEW s, NEW c, Inv(s, c, Ended(s), 0), NEW p \in Proc, s.proc[p].sent # <<>>,
           Head(s.proc[p].sent).op # "TERMINATE"
    PROVE  LET a == Popped(s, p)
               m == Head(s.proc[p].sent)
           IN /\ m.r \in Record /\ s.rec[m.r].proc = p
              /\ Step(a, Handled(a, p, m), m.r, c, Ended(s), m.r)
<1> DEFINE X == Ended(s)
           a == Popped(s, p)
           m == Head(s.proc[p].sent)
           n == Handled(a, p, m)
<1>1. s \in StateType /\ Base(s)
  BY DEF Inv, Base
<1>2. /\ m \in Message /\ m \in Queue(s, p)
      /\ a \in StateType /\ a.rec = s.rec
      /\ \A q \in Proc : /\ a.proc[q].mStatus = s.proc[q].mStatus
                         /\ a.proc[q].terminated = s.proc[q].terminated
                         /\ a.proc[q].mExistService = s.proc[q].mExistService
  BY <1>1, PoppedFacts
<1>3. /\ Inv(a, c, X, m.r)
      /\ c /\ m.op \in {"UNBIND", "STOP"} => \A q \in Proc : \A i \in Queue(a, q) : i.r # m.r
  BY PoppedInv
<1>4. Up(s, p)
  BY <1>1 DEF Base, Idle
<1>5. Ended(a) = X
  BY <1>1, <1>2, SameEnded
<1>6. IF m.op = "TERMINATE" THEN m.r = 0 ELSE m.r \in Record /\ s.rec[m.r].proc = p
  BY <1>1, <1>2 DEF Base, Own
<1>7. p # 0
  BY DEF Proc
<1>8. m.op \in Ops
  BY <1>2 DEF Message
<1>9. m.op # "TERMINATE"
  OBVIOUS
<1> HIDE DEF a, m, X
<1>10. m.r \in Record /\ s.rec[m.r].proc = p /\ Step(a, n, m.r, c, X, m.r)
  <2> DEFINE r == m.r
  <2>1. r \in Record /\ a.rec[r].proc = p /\ HasApp(a, r)
    BY <1>2, <1>4, <1>6, <1>7, <1>9 DEF HasApp, Up
  <2>2. MayMake(a, r, c, X, r)
    <3>1. ASSUME c PROVE s.rec[r].listed \/ r \in X
      <4>1. ~Finished(s, r)
        BY <1>2 DEF Finished
      <4>2. QED
        BY <3>1, <4>1, <2>1 DEF Inv, Orderly, X
    <3>2. QED
      BY <2>1, <3>1, <1>2 DEF MayMake, Alive
  <2>3. Inv(a, c, X, r)
    BY <1>3
  <2>4. c /\ m.op \in {"UNBIND", "STOP"} => \A q \in Proc : \A i \in Queue(a, q) : i.r # r
    BY <1>3
  <2>5. ASSUME c, m.op = "STOP" PROVE ~(s.proc[p].mStatus = "RUNNING" /\ r \in Exists(s, p))
    <3>1. Tidy(s, p) /\ QueueOK(s, p)
      BY <2>5 DEF Inv, Orderly
    <3>2. s.rec[r].asked
      BY <3>1, <2>5, <1>2 DEF QueueOK
    <3>3. QED
      BY <3>1, <3>2 DEF Tidy
  <2>6. a.rec[r].proc = p /\ a.rec[r].proc # 0 /\ Exists(a, p) = Exists(s, p)
        /\ a.proc[p].mStatus = s.proc[p].mStatus
    BY <1>2, <1>7, <2>1 DEF Exists
  <2>7. m.r = r
    OBVIOUS
  <2> HIDE DEF r
  <2>8. Step(a, n, r, c, X, r)
    <3>1. CASE m.op = "START"
      <4>1. n = OnStart(a, r)
        BY <3>1, <2>7 DEF Handled
      <4>2. QED
        BY <4>1, <2>1, <2>2, <2>3, <2>6, OnStartStep
    <3>2. CASE m.op = "BIND"
      <4>1. n = OnBind(a, r, m.conn)
        BY <3>2, <2>7 DEF Handled
      <4>2. QED
        BY <4>1, <2>1, <2>2, <2>3, <2>6, OnBindStep
    <3>3. CASE m.op = "UNBIND"
      <4>1. n = OnUnbind(a, r)
        BY <3>3, <2>7 DEF Handled
      <4>2. c => Free(a, r)
        BY <3>3, <2>4 DEF Free
      <4>3. QED
        BY <4>1, <4>2, <2>1, <2>3, <2>6, OnUnbindStep
    <3>4. CASE m.op = "STOP"
      <4>1. n = OnDestroy(a, r)
        BY <3>4, <2>7 DEF Handled
      <4>2. c => ~(a.proc[a.rec[r].proc].mStatus = "RUNNING" /\ r \in Exists(a, a.rec[r].proc))
        BY <3>4, <2>5, <2>6
      <4>3. c => r \in X \/ \A q \in Proc : \A i \in Queue(a, q) : i.r # r
        BY <3>4, <2>4
      <4>4. QED
        BY <4>1, <4>2, <4>3, <2>1, <2>3, <2>6, OnDestroyStep
    <3>5. QED
      BY <3>1, <3>2, <3>3, <3>4, <1>8, <1>9 DEF Ops
  <2> HIDE DEF n
  <2>9. QED
    BY <2>1, <2>7, <2>8, <1>2
<1>11. QED
  BY <1>10 DEF a, m, X, n

\* Every message that a client takes keeps the invariant.
LEMMA HandleInv ==
    ASSUME NEW s, NEW c, Inv(s, c, Ended(s), 0), NEW p \in Proc, s.proc[p].sent # <<>>
    PROVE  LET n == Handled(Popped(s, p), p, Head(s.proc[p].sent))
           IN Inv(n, c, Ended(n), 0)
<1> DEFINE X == Ended(s)
           a == Popped(s, p)
           m == Head(s.proc[p].sent)
           n == Handled(a, p, m)
<1>1. s \in StateType /\ Base(s)
  BY DEF Inv, Base
<1>2. /\ m \in Message /\ m \in Queue(s, p)
      /\ a \in StateType /\ a.rec = s.rec
      /\ \A q \in Proc : /\ a.proc[q].mStatus = s.proc[q].mStatus
                         /\ a.proc[q].terminated = s.proc[q].terminated
                         /\ a.proc[q].mExistService = s.proc[q].mExistService
  BY <1>1, PoppedFacts
<1>3. /\ Inv(a, c, X, m.r)
      /\ c /\ m.op \in {"UNBIND", "STOP"} => \A q \in Proc : \A i \in Queue(a, q) : i.r # m.r
  BY PoppedInv
<1>4. Up(s, p)
  BY <1>1 DEF Base, Idle
<1>5. Ended(a) = X
  BY <1>1, <1>2, SameEnded
<1>6. IF m.op = "TERMINATE" THEN m.r = 0 ELSE m.r \in Record /\ s.rec[m.r].proc = p
  BY <1>1, <1>2 DEF Base, Own
<1>7. p # 0
  BY DEF Proc
<1>8. m.op \in Ops
  BY <1>2 DEF Message
<1> HIDE DEF a, m, X
<1>9. CASE m.op # "TERMINATE"
  <2> DEFINE r == m.r
  <2>1. r \in Record /\ Step(a, n, r, c, X, r)
    BY <1>9, HandledStep DEF a, m, n, X
  <2> HIDE DEF n, r
  <2>2. Inv(n, c, X, 0) /\ Ended(n) = X
    <3>1. Inv(n, c, X, r) /\ Local(a, n, r)
      BY <2>1 DEF Step
    <3>2. Inv(n, c, X, 0)
      BY <3>1, Done
    <3>3. Ended(n) = Ended(a)
      BY <3>1, <1>2, <2>1, LocalFrame, SameEnded
    <3>4. QED
      BY <3>2, <3>3, <1>5
  <2>3. QED
    BY <2>2 DEF n, a, m
<1>10. CASE m.op = "TERMINATE"
  <2> DEFINE Y == X \union {r \in Record : s.rec[r].proc = p}
  <2>1. n = [ForEach(OnDestroy, a, Clients(a, p)) EXCEPT !.proc[p].terminated = TRUE]
    BY <1>10 DEF Handled
  <2>2. Inv(a, c, X, 0)
    BY <1>3, <1>6, <1>10
  <2>3. ASSUME c PROVE a.proc[p].mStatus = "STOPPING"
    <3>1. Tidy(s, p)
      BY <2>3 DEF Inv, Orderly
    <3>2. QED
      BY <3>1, <1>2, <1>4, <1>10 DEF Tidy, Up
  <2>4. X \subseteq Y /\ {r \in Record : a.rec[r].proc = p} \subseteq Y
    BY <1>2
  <2> HIDE DEF Y
  <2> DEFINE t == [ForEach(OnDestroy, a, Clients(a, p)) EXCEPT !.proc[p].terminated = TRUE]
  <2> HIDE DEF n
  <2>5. Inv(t, c, Y, 0) /\ Terminates(a, t, p)
    BY <2>2, <2>3, <2>4, TerminateStep
  <2> HIDE DEF t
  <2>6. Y \subseteq Ended(t)
    <3>1. \A r \in Record : s.rec[r].proc # 0 => s.rec[r].proc \in Proc
      BY <1>1, Parts, RecParts
    <3>2. ASSUME NEW r \in Record, s.rec[r].proc = p PROVE r \in Ended(t)
      BY <3>2, <1>2, <1>7, <2>5 DEF Ended, Terminates
    <3>3. ASSUME NEW r \in Record, r \in X PROVE r \in Ended(t)
      <4>1. CASE s.rec[r].proc = p
        BY <4>1, <3>2
      <4>2. CASE s.rec[r].proc # p
        BY <4>2, <3>1, <3>3, <1>2, <2>5 DEF Ended, Terminates, X
      <4>3. QED
        BY <4>1, <4>2
    <3>4. QED
      BY <3>2, <3>3 DEF Ended, X, Y
  <2>7. Inv(t, c, Ended(t), 0)
    BY <2>5, <2>6, Exempt
  <2>8. QED
    BY <2>1, <2>7 DEF n, a, m, t
<1>11. QED
  BY <1>9, <1>10

-----------------------------------------------------------------------------
(* New records and new processes.                                          *)

NamesInUse(s, p, h) == {s.rec[q].name : q \in {q \in Record : s.rec[q].proc = p /\ Alive(s, q, h)}}

Enlisted(s, name, p) ==
    [s EXCEPT !.records = s.records + 1,
              !.rec[s.records + 1] = [NoRecord EXCEPT !.name = name, !.proc = p, !.listed = TRUE]]

\* A record that has not been made has the type of one.
LEMMA NoRecordType == NoRecord \in RecType
<1>1. NoClient \in ClientType
  BY DEF NoClient, ClientType
<1>2. QED
  BY <1>1, BoundsAssumption DEF NoRecord, RecType, Flags

\* A new record, which is not yet asked for anything.
LEMMA EnlistedInv ==
    ASSUME NEW s, NEW c, NEW X, NEW h, Inv(s, c, X, h), NEW name \in Name, NEW p \in Proc,
           s.proc[p].mStatus = "RUNNING", s.records < MaxRecords,
           c => name \notin NamesInUse(s, p, h)
    PROVE  LET n == Enlisted(s, name, p)
               r == s.records + 1
           IN /\ Inv(n, c, X, h) /\ r \in Record /\ s.rec[r].proc = 0
              /\ n.proc = s.proc /\ n.records = r /\ n.procs = s.procs
              /\ \A q \in Record \ {r} : n.rec[q] = s.rec[q]
              /\ n.rec[r].name = name /\ n.rec[r].proc = p /\ n.rec[r].listed
              /\ ~n.rec[r].asked /\ n.rec[r].mStartFlag = {} /\ Free(n, r)
<1> DEFINE r == s.records + 1
           x == [NoRecord EXCEPT !.name = name, !.proc = p, !.listed = TRUE]
           n == Enlisted(s, name, p)
<1>1. s \in StateType /\ Base(s) /\ r \in Record /\ r > s.records /\ r # 0 /\ p # 0
  <2>1. s \in StateType /\ Base(s)
    BY DEF Inv, Base
  <2>2. s.records \in 0..MaxRecords
    BY <2>1, Parts
  <2>3. QED
    BY <2>1, <2>2, BoundsAssumption DEF Record, Proc
<1>2. /\ x \in RecType /\ x.name = name /\ x.proc = p /\ x.listed /\ ~x.asked
      /\ x.mStartFlag = {} /\ x.mConnectRecord = {} /\ ~x.client.exists
  <2>1. NoRecord \in RecType /\ p \in 0..MaxProcs
    BY NoRecordType, BoundsAssumption DEF Proc
  <2>2. /\ ~NoRecord.asked /\ NoRecord.mStartFlag = {} /\ NoRecord.mConnectRecord = {}
        /\ ~NoRecord.client.exists
    BY DEF NoRecord, NoClient
  <2>3. /\ x.asked = NoRecord.asked /\ x.mStartFlag = NoRecord.mStartFlag
        /\ x.mConnectRecord = NoRecord.mConnectRecord /\ x.client = NoRecord.client
        /\ x \in RecType /\ x.name = name /\ x.proc = p /\ x.listed
    <3> HIDE DEF CREATING, CREATED
    <3>1. QED
      BY <2>1 DEF RecType
  <2>4. QED
    BY <2>2, <2>3
<1>3. n = [s EXCEPT !.records = r, !.rec[r] = x]
  BY DEF Enlisted
<1>4. s.rec[r] = NoRecord
  BY <1>1 DEF Base, Fresh
<1>5. s.rec[r].proc = 0
  BY <1>4 DEF NoRecord
<1> HIDE DEF x, r
<1>6. /\ n \in StateType /\ n.rec[r] = x /\ n.records = r
      /\ \A q \in Record \ {r} : n.rec[q] = s.rec[q]
      /\ n.proc = s.proc /\ n.procs = s.procs /\ n.undefined = s.undefined
  <2>1. r \in 0..MaxRecords
    BY <1>1, BoundsAssumption DEF Record
  <2> HIDE DEF n
  <2>2. QED
    BY <1>1, <1>2, <1>3, <2>1 DEF StateType
<1> HIDE DEF n
<1>7. \A q \in Proc : /\ Exists(n, q) = Exists(s, q) /\ Queue(n, q) = Queue(s, q)
                      /\ Up(n, q) <=> Up(s, q)
  BY <1>6 DEF Exists, Queue, Up
<1>8. ASSUME NEW q \in Proc PROVE r \notin Exists(s, q) /\ \A m \in Queue(s, q) : m.r # r
  <2>1. q # 0
    BY DEF Proc
  <2>2. /\ \A i \in Exists(s, q) : s.rec[i].proc = q
        /\ \A m \in Queue(s, q) : IF m.op = "TERMINATE" THEN m.r = 0
                                  ELSE m.r \in Record /\ s.rec[m.r].proc = q
    BY <1>1 DEF Base, Own
  <2>3. QED
    BY <1>1, <1>5, <2>1, <2>2
<1>9. Base(n)
  <2>1. Fresh(n)
    <3>1. s.records \in 0..MaxRecords
      BY <1>1, Parts
    <3>2. ASSUME NEW q \in Record, q > n.records PROVE n.rec[q] = NoRecord
      <4>1. q > s.records /\ q # r
        BY <3>1, <3>2, <1>6, BoundsAssumption DEF r, Record
      <4>2. QED
        BY <4>1, <1>1, <1>6 DEF Base, Fresh
    <3>3. QED
      BY <3>2, <1>1, <1>6 DEF Base, Fresh
  <2>2. Placed(n)
    <3>1. ASSUME NEW q \in Record
          PROVE  /\ n.rec[q].listed \/ n.rec[q].client.exists => n.rec[q].proc # 0
                 /\ n.rec[q].proc # 0 => n.proc[n.rec[q].proc].mStatus \in {"RUNNING", "STOPPING", "GONE"}
      <4>1. CASE q = r
        BY <4>1, <1>1, <1>2, <1>6
      <4>2. CASE q # r
        BY <4>2, <1>1, <1>6 DEF Base, Placed
      <4>3. QED
        BY <4>1, <4>2
    <3>2. QED
      BY <3>1 DEF Placed
  <2>3. Idle(n)
    <3> SUFFICES ASSUME NEW q \in Proc, ~Up(n, q)
                 PROVE  /\ n.proc[q].mExistService = <<>> /\ n.proc[q].sent = <<>>
                        /\ \A i \in Record : n.rec[i].proc = q => ~n.rec[i].client.exists
      BY DEF Idle
    <3>1. /\ s.proc[q].mExistService = <<>> /\ s.proc[q].sent = <<>>
          /\ \A i \in Record : s.rec[i].proc = q => ~s.rec[i].client.exists
      BY <1>1, <1>7 DEF Base, Idle
    <3>2. QED
      BY <3>1, <1>2, <1>6
  <2>4. Own(n)
    <3>1. ASSUME NEW q \in Proc, NEW i \in Exists(n, q) PROVE n.rec[i].proc = q
      <4>1. s.rec[i].proc = q /\ i # r /\ i \in Record
        <5>1. s.proc[q].mExistService \in Seq(Record)
          BY <1>1, Parts, ProcParts
        <5>2. i \in Exists(s, q)
          BY <1>7
        <5>3. i \in Record
          BY <5>1, <5>2 DEF Exists, ToSet
        <5>4. QED
          BY <5>2, <5>3, <1>1, <1>8 DEF Base, Own
      <4>2. QED
        BY <4>1, <1>6
    <3>2. ASSUME NEW q \in Proc, NEW m \in Queue(n, q)
          PROVE  IF m.op = "TERMINATE" THEN m.r = 0 ELSE m.r \in Record /\ n.rec[m.r].proc = q
      <4>1. m \in Queue(s, q) /\ m.r # r
        BY <1>7, <1>8
      <4>2. IF m.op = "TERMINATE" THEN m.r = 0 ELSE m.r \in Record /\ s.rec[m.r].proc = q
        BY <4>1, <1>1 DEF Base, Own
      <4>3. QED
        BY <4>1, <4>2, <1>6
    <3>3. QED
      BY <3>1, <3>2 DEF Own
  <2>5. ASSUME NEW q \in Record PROVE Counted(n, q) /\ Sound(n, q)
    <3>1. CASE q = r
      <4>1. HasApp(n, q)
        BY <3>1, <1>1, <1>2, <1>6 DEF HasApp
      <4>2. QED
        BY <3>1, <4>1, <1>2, <1>6 DEF Counted, Sound
    <3>2. CASE q # r
      <4>1. Counted(s, q) /\ Sound(s, q)
        BY <1>1 DEF Base
      <4>2. s.rec[q].proc # 0 => s.rec[q].proc \in Proc
        BY <1>1, Parts, RecParts
      <4>3. HasApp(n, q) <=> HasApp(s, q)
        BY <3>2, <1>6 DEF HasApp
      <4>4. QED
        BY <3>2, <4>1, <4>2, <4>3, <1>6, <1>7 DEF Counted, Sound, HasApp
    <3>3. QED
      BY <3>1, <3>2
  <2>6. QED
    BY <1>6, <2>1, <2>2, <2>3, <2>4, <2>5 DEF Base
<1>10. ASSUME c PROVE Orderly(n, X, h)
  <2>1. Orderly(s, X, h)
    BY <1>10 DEF Inv
  <2>2. ASSUME NEW q \in Proc PROVE Tidy(n, q) /\ Going(n, q) /\ QueueOK(n, q)
    <3>1. Tidy(s, q) /\ Going(s, q) /\ QueueOK(s, q)
      BY <2>1 DEF Orderly
    <3>2. \A i \in Exists(n, q) : i \in Exists(s, q) /\ n.rec[i] = s.rec[i]
      <4>1. s.proc[q].mExistService \in Seq(Record)
        BY <1>1, Parts, ProcParts
      <4>2. Exists(s, q) \subseteq Record
        BY <4>1 DEF Exists, ToSet
      <4>3. QED
        BY <4>2, <1>6, <1>7, <1>8
    <3>3. Tidy(n, q)
      BY <3>1, <3>2, <1>6, <1>7 DEF Tidy
    <3>4. ASSUME NEW m \in Queue(n, q), m.op = "STOP" PROVE n.rec[m.r].asked
      <4>1. m \in Queue(s, q) /\ m.r # r
        BY <1>7, <1>8
      <4>2. m.r \in Record
        BY <3>4, <4>1, <1>1 DEF Base, Own
      <4>3. QED
        BY <3>1, <3>4, <4>1, <4>2, <1>6 DEF QueueOK
    <3>5. QED
      BY <3>1, <3>3, <3>4, <1>6 DEF Going, QueueOK
  <2>3. TasksDiffer(n)
    BY <2>1, <1>6 DEF Orderly, TasksDiffer
  <2>4. \A q \in Record \ {r} : Finished(n, q) <=> Finished(s, q)
    BY <1>6, <1>7 DEF Finished
  <2>5. \A q \in Record \ {r} : Alive(n, q, h) <=> Alive(s, q, h)
    BY <2>4, <1>6 DEF Alive
  <2>6. ASSUME NEW q \in Record, NEW i \in Record, Alive(n, q, h), Alive(n, i, h),
               n.rec[q].proc = n.rec[i].proc, n.rec[q].name = n.rec[i].name
        PROVE  q = i
    <3>1. CASE q # r /\ i # r
      <4>1. /\ Alive(s, q, h) /\ Alive(s, i, h)
            /\ s.rec[q].proc = s.rec[i].proc /\ s.rec[q].name = s.rec[i].name
        BY <3>1, <2>5, <2>6, <1>6
      <4>2. QED
        BY <4>1, <2>1 DEF Orderly, OneOfAName
    <3>2. ASSUME NEW j \in Record, j # r, Alive(n, j, h), n.rec[j].proc = p, n.rec[j].name = name
          PROVE  FALSE
      <4>1. Alive(s, j, h) /\ s.rec[j].proc = p /\ s.rec[j].name = name
        BY <3>2, <2>5, <1>6
      <4>2. QED
        BY <4>1, <1>10 DEF NamesInUse
    <3>3. QED
      BY <3>1, <3>2, <2>6, <1>2, <1>6
  <2>7. OneOfAName(n, h)
    BY <2>6 DEF OneOfAName
  <2>8. \A q \in Record \ X : n.rec[q].listed \/ Finished(n, q)
    BY <2>1, <2>4, <1>2, <1>6 DEF Orderly
  <2>9. QED
    BY <2>1, <2>2, <2>3, <2>7, <2>8, <1>6 DEF Orderly
<1>11. Free(n, r)
  BY <1>7, <1>8 DEF Free
<1>12. QED
  BY <1>1, <1>2, <1>5, <1>6, <1>9, <1>10, <1>11 DEF Inv, n, r

\* What a new service leaves, and whose names it adds.
NewServiceFacts(s, n, name, p, c, X) ==
    /\ n \in StateType /\ Inv(n, c, X, 0)
    /\ n.records = s.records + 1 /\ n.procs = s.procs
    /\ n.proc[p].mStatus = "RUNNING"
    /\ c => NamesInUse(n, p, 0) \subseteq NamesInUse(s, p, 0) \union {name}
    /\ \A q \in Proc : n.proc[q].terminated = s.proc[q].terminated
    /\ \A q \in Record : \/ n.rec[q].proc = s.rec[q].proc
                         \/ s.rec[q].proc = 0 /\ n.rec[q].proc = p

\* A new record for a process that runs keeps the invariant.
LEMMA NewServiceInv ==
    ASSUME NEW s, NEW c, NEW X, Inv(s, c, X, 0), NEW name \in Name, NEW p \in Proc,
           s.proc[p].mStatus = "RUNNING", s.records < MaxRecords,
           NEW conn \in Conn \union {NoConn},
           c => name \notin NamesInUse(s, p, 0)
    PROVE  NewServiceFacts(s, NewService(s, name, p, conn), name, p, c, X)
<1> DEFINE r == s.records + 1
           t == Enlisted(s, name, p)
           n == NewService(s, name, p, conn)
<1>1. /\ Inv(t, c, X, 0) /\ r \in Record /\ s.rec[r].proc = 0
      /\ t.proc = s.proc /\ t.records = r /\ t.procs = s.procs
      /\ \A q \in Record \ {r} : t.rec[q] = s.rec[q]
      /\ t.rec[r].name = name /\ t.rec[r].proc = p /\ t.rec[r].listed
      /\ ~t.rec[r].asked /\ t.rec[r].mStartFlag = {} /\ Free(t, r)
  BY EnlistedInv
<1>2. n = Serve(t, r, conn)
  BY DEF NewService, Enlisted
<1>3. p # 0
  BY DEF Proc
<1>4. s.records + 1 = r
  OBVIOUS
<1>5. s \in StateType
  BY DEF Inv, Base
<1> HIDE DEF t, r, n
<1>6. Step(t, n, r, c, X, 0) /\ SameStatus(t, n, r)
  <2>1. CASE conn = NoConn
    <3>1. n = Start(t, r)
      BY <2>1, <1>2 DEF Serve
    <3>2. QED
      BY <3>1, <1>1, <1>3, StartStep
  <2>2. CASE conn # NoConn
    <3>1. n = Bind(t, r, conn) /\ conn \in Conn
      BY <2>2, <1>2 DEF Serve
    <3>2. QED
      BY <3>1, <1>1, <1>3, BindStep
  <2>3. QED
    BY <2>1, <2>2
<1>7. Local(t, n, r) /\ Inv(n, c, X, 0)
  BY <1>6 DEF Step
<1>8. n \in StateType /\ n.records = t.records /\ n.procs = t.procs
  BY <1>7 DEF Local
<1>9. n.proc[p].mStatus = "RUNNING"
  BY <1>1, <1>6 DEF SameStatus
<1>10. /\ \A q \in Record : n.rec[q].proc = t.rec[q].proc /\ n.rec[q].name = t.rec[q].name
       /\ \A q \in Proc : n.proc[q].terminated = t.proc[q].terminated
  BY <1>1, <1>7, LocalFrame
<1>11. ASSUME NEW q \in Record 
       PROVE  n.rec[q].proc = s.rec[q].proc \/ (s.rec[q].proc = 0 /\ n.rec[q].proc = p)
  BY <1>1, <1>10
<1>12. ASSUME c, NEW q \in Record, n.rec[q].proc = p, Alive(n, q, 0)
       PROVE  n.rec[q].name \in NamesInUse(s, p, 0) \union {name}
  <2>1. CASE q = r
    BY <2>1, <1>1, <1>10
  <2>2. CASE q # r
    <3>1. s.rec[q].proc = p /\ s.rec[q].name = n.rec[q].name /\ q # 0
      BY <2>2, <1>1, <1>10, <1>12, BoundsAssumption DEF Record
    <3>2. n.rec[q] = s.rec[q]
      BY <2>2, <1>1, <1>7 DEF Local
    <3>3. ASSUME Finished(s, q) PROVE Finished(n, q)
      <4>1. \A i \in Proc : \A m \in Queue(n, i) : m \in Queue(s, i) \/ m.r = r \/ m.r = 0
        <5>1. \A i \in Proc : LocalProc(s.proc[i], n.proc[i], r)
          BY <1>1, <1>7 DEF Local
        <5>2. QED
          BY <5>1 DEF LocalProc, Queue
      <4>2. QED
        BY <4>1, <3>1, <3>2, <3>3, <2>2 DEF Finished
    <3>4. Alive(s, q, 0)
      BY <3>1, <3>2, <3>3, <1>12 DEF Alive
    <3>5. QED
      BY <3>1, <3>4 DEF NamesInUse
  <2>3. QED
    BY <2>1, <2>2
<1>13. c => NamesInUse(n, p, 0) \subseteq NamesInUse(s, p, 0) \union {name}
  BY <1>12 DEF NamesInUse
<1>14. \A q \in Proc : n.proc[q].terminated = s.proc[q].terminated
  BY <1>1, <1>10
<1>15. n.records = s.records + 1 /\ n.procs = s.procs
  BY <1>1, <1>4, <1>8
<1>16. NewServiceFacts(s, n, name, p, c, X)
  BY <1>7, <1>8, <1>9, <1>11, <1>13, <1>14, <1>15 DEF NewServiceFacts
<1>17. QED
  BY <1>16 DEF n

\* A process that goes on makes none of its new records exempt.
LEMMA GoesOn ==
    ASSUME NEW s \in StateType, NEW n \in StateType, NEW p \in Proc, ~n.proc[p].terminated,
           \A q \in Proc : n.proc[q].terminated = s.proc[q].terminated,
           \A q \in Record : n.rec[q].proc = s.rec[q].proc \/ (s.rec[q].proc = 0 /\ n.rec[q].proc = p)
    PROVE  Ended(n) = Ended(s)
<1>1. \A q \in Record : s.rec[q].proc # 0 => s.rec[q].proc \in Proc
  BY Parts, RecParts
<1>2. ASSUME NEW q \in Record PROVE q \in Ended(n) <=> q \in Ended(s)
  <2>1. CASE n.rec[q].proc = s.rec[q].proc
    BY <2>1, <1>1 DEF Ended
  <2>2. CASE s.rec[q].proc = 0 /\ n.rec[q].proc = p
    BY <2>2 DEF Ended
  <2>3. QED
    BY <2>1, <2>2
<1>3. QED
  BY <1>2 DEF Ended

\* A task for a process that is waited for, or for a new one.
Waiting(s, n, p, y, k, c) ==
    /\ n = [s EXCEPT !.procs = k, !.proc[p] = y]
    /\ k >= s.procs /\ p <= k
    /\ s.proc[p].mStatus \in {"NONE", "ATTACHING"} /\ y.mStatus = "ATTACHING"
    /\ y.mExistService = <<>> /\ y.sent = <<>>
    /\ c => ~y.terminated
    /\ c => \A i, j \in DOMAIN y.attach : y.attach[i].name = y.attach[j].name => i = j

\* submitAppStartupTask() keeps the invariant.
LEMMA SubmitInv ==
    ASSUME NEW s, NEW c, Inv(s, c, Ended(s), 0), NEW name \in Name, NEW conn \in Conn \union {NoConn},
           c => \A p \in Proc : \A i \in DOMAIN s.proc[p].attach : s.proc[p].attach[i].name # name,
           NEW n \in SubmitAppStartupTask(s, name, conn)
    PROVE  Inv(n, c, Ended(n), 0)
<1> DEFINE task == [name |-> name, conn |-> conn]
<1>1. s \in StateType /\ Base(s) /\ s.procs \in 0..MaxProcs
  BY Parts DEF Inv, Base
<1>2. task \in Task /\ task.name = name
  BY DEF Task
<1> HIDE DEF task
<1>0. PICK p \in Proc, y \in ProcType, k \in 0..MaxProcs : Waiting(s, n, p, y, k, c)
  <2>1. CASE In(s, "ATTACHING") # {}
    <3>1. PICK p \in In(s, "ATTACHING") : n = [s EXCEPT !.proc[p].attach = Append(s.proc[p].attach, task)]
      BY <2>1 DEF SubmitAppStartupTask, task
    <3> DEFINE a == s.proc[p]
               y == [a EXCEPT !.attach = Append(a.attach, task)]
    <3>2. p \in Proc /\ a.mStatus = "ATTACHING" /\ a \in ProcType /\ a.attach \in Seq(Task)
      BY <1>1, Parts, ProcParts DEF In
    <3>3. a.mExistService = <<>> /\ a.sent = <<>>
      BY <3>2, <1>1 DEF Base, Idle, Up
    <3>4. n = [s EXCEPT !.proc[p] = y] /\ s.proc[p] = a
      BY <3>1
    <3>5. c => ~a.terminated
      BY <3>2 DEF Inv, Orderly, Going
    <3>6. ASSUME c, NEW i \in DOMAIN a.attach PROVE a.attach[i].name # name
      BY <3>2, <3>6
    <3>7. ASSUME c, NEW i \in DOMAIN a.attach, NEW j \in DOMAIN a.attach, a.attach[i].name = a.attach[j].name
          PROVE  i = j
      BY <3>2, <3>7 DEF Inv, Orderly, TasksDiffer
    <3> HIDE DEF a
    <3>8. /\ y \in ProcType /\ y.attach = Append(a.attach, task) /\ y.mStatus = a.mStatus
          /\ y.mExistService = a.mExistService /\ y.sent = a.sent /\ y.terminated = a.terminated
      <4>1. Append(a.attach, task) \in Seq(Task)
        BY <3>2, <1>2
      <4>2. QED
        BY <4>1, <3>2 DEF ProcType
    <3> HIDE DEF y
    <3>9. c => \A i, j \in DOMAIN y.attach : y.attach[i].name = y.attach[j].name => i = j
      <4> SUFFICES ASSUME c, NEW i \in DOMAIN y.attach, NEW j \in DOMAIN y.attach,
                          y.attach[i].name = y.attach[j].name
                   PROVE  i = j
        OBVIOUS
      <4> DEFINE k == Len(a.attach)
      <4>1. k \in Nat /\ DOMAIN a.attach = 1..k
        BY <3>2
      <4>2. /\ DOMAIN y.attach = 1..(k + 1) /\ y.attach[k + 1] = task
            /\ \A l \in 1..k : y.attach[l] = a.attach[l]
        BY <3>2, <3>8, <1>2, AppendProperties
      <4>3. \A l \in 1..(k + 1) : l \in 1..k \/ l = k + 1
        BY <4>1
      <4> HIDE DEF k
      <4>4. QED
        BY <4>1, <4>2, <4>3, <3>6, <3>7, <1>2
    <3>10. n = [s EXCEPT !.procs = s.procs, !.proc[p] = y]
      BY <3>4, <1>1 DEF StateType
    <3>11. p <= s.procs
      <4>1. p \in Nat /\ ~(p > s.procs)
        BY <3>2, <3>4, <1>1, BoundsAssumption DEF Base, Fresh, Proc
      <4>2. QED
        BY <4>1, <1>1, BoundsAssumption
    <3>12. s.procs >= s.procs
      BY <1>1, BoundsAssumption
    <3>13. Waiting(s, n, p, y, s.procs, c)
      BY <3>2, <3>3, <3>4, <3>5, <3>8, <3>9, <3>10, <3>11, <3>12 DEF Waiting
    <3>14. QED
      BY <3>2, <3>8, <3>13, <1>1
  <2>2. CASE In(s, "ATTACHING") = {}
    <3> DEFINE p == s.procs + 1
               y == [NoProc EXCEPT !.mStatus = "ATTACHING", !.attach = <<task>>]
    <3>1. s.procs # MaxProcs /\ n = [s EXCEPT !.procs = p, !.proc[p] = y]
      BY <2>2 DEF SubmitAppStartupTask, task
    <3>2. p \in Proc /\ p \in 0..MaxProcs /\ p >= s.procs /\ p > s.procs /\ p <= p
      BY <3>1, <1>1, BoundsAssumption DEF Proc
    <3>3. /\ y \in ProcType /\ y.attach = <<task>> /\ y.mStatus = "ATTACHING"
          /\ y.mExistService = <<>> /\ y.sent = <<>> /\ ~y.terminated
      <4>1. NoProc \in ProcType
        BY DEF NoProc, ProcType
      <4>2. NoProc.mExistService = <<>> /\ NoProc.sent = <<>> /\ ~NoProc.terminated
        BY DEF NoProc
      <4>3. <<task>> \in Seq(Task)
        BY <1>2
      <4>4. QED
        BY <4>1, <4>2, <4>3 DEF ProcType
    <3>4. s.proc[p].mStatus = "NONE"
      BY <3>2, <1>1 DEF Base, Fresh
    <3>5. \A i, j \in DOMAIN <<task>> : i = j
      OBVIOUS
    <3> HIDE DEF y, p
    <3>6. Waiting(s, n, p, y, p, c)
      BY <3>1, <3>2, <3>3, <3>4, <3>5 DEF Waiting
    <3>7. QED
      BY <3>2, <3>3, <3>6
  <2>3. QED
    BY <2>1, <2>2
<1>3. /\ n = [s EXCEPT !.procs = k, !.proc[p] = y]
      /\ k >= s.procs /\ p <= k
      /\ s.proc[p].mStatus \in {"NONE", "ATTACHING"} /\ y.mStatus = "ATTACHING"
      /\ y.mExistService = <<>> /\ y.sent = <<>>
      /\ c => ~y.terminated
      /\ c => \A i, j \in DOMAIN y.attach : y.attach[i].name = y.attach[j].name => i = j
  BY <1>0 DEF Waiting
<1>4. /\ n \in StateType /\ n.rec = s.rec /\ n.proc[p] = y /\ n.procs = k
      /\ n.records = s.records /\ n.undefined = s.undefined
      /\ \A q \in Proc : q # p => n.proc[q] = s.proc[q]
  BY <1>1, <1>3 DEF StateType
<1>5. \A r \in Record : s.rec[r].proc # p /\ (s.rec[r].proc # 0 => s.rec[r].proc \in Proc)
  <2>1. p # 0
    BY DEF Proc
  <2>2. QED
    BY <2>1, <1>1, <1>3, Parts, RecParts DEF Base, Placed
<1>6. ~Up(n, p) /\ ~Up(s, p)
  BY <1>3, <1>4 DEF Up
<1>7. \A q \in Proc : Exists(n, q) = Exists(s, q) /\ Queue(n, q) = Queue(s, q) /\ (Up(n, q) <=> Up(s, q))
  <2>1. s.proc[p].mExistService = <<>> /\ s.proc[p].sent = <<>>
    BY <1>1, <1>6 DEF Base, Idle
  <2>2. QED
    BY <2>1, <1>3, <1>4, <1>6 DEF Exists, Queue, Up
<1>8. \A r \in Record : HasApp(n, r) <=> HasApp(s, r)
  BY <1>4, <1>5 DEF HasApp
<1>9. Base(n)
  <2>1. Fresh(n)
    <3>1. ASSUME NEW q \in Proc, q > n.procs PROVE n.proc[q].mStatus = "NONE"
      <4>1. q # p /\ q > s.procs
        BY <3>1, <1>1, <1>3, <1>4, BoundsAssumption DEF Proc
      <4>2. QED
        BY <4>1, <1>1, <1>4 DEF Base, Fresh
    <3>2. QED
      BY <3>1, <1>1, <1>4 DEF Base, Fresh
  <2>2. Placed(n)
    BY <1>1, <1>4, <1>5 DEF Base, Placed
  <2>3. Idle(n)
    <3>1. ASSUME NEW q \in Proc, ~Up(n, q)
          PROVE  /\ n.proc[q].mExistService = <<>> /\ n.proc[q].sent = <<>>
                 /\ \A i \in Record : n.rec[i].proc = q => ~n.rec[i].client.exists
      <4>1. /\ s.proc[q].mExistService = <<>> /\ s.proc[q].sent = <<>>
            /\ \A i \in Record : s.rec[i].proc = q => ~s.rec[i].client.exists
        BY <3>1, <1>1, <1>7 DEF Base, Idle
      <4>2. QED
        BY <4>1, <1>3, <1>4
    <3>2. QED
      BY <3>1 DEF Idle
  <2>4. Own(n)
    BY <1>1, <1>4, <1>7 DEF Base, Own
  <2>5. ASSUME NEW r \in Record PROVE Counted(n, r) /\ Sound(n, r)
    <3>1. Counted(s, r) /\ Sound(s, r)
      BY <1>1 DEF Base
    <3>2. QED
      BY <3>1, <1>4, <1>5, <1>7, <1>8 DEF Counted, Sound, HasApp
  <2>6. QED
    BY <1>4, <2>1, <2>2, <2>3, <2>4, <2>5 DEF Base
<1>10. Ended(n) = Ended(s)
  <2>1. ASSUME NEW r \in Record PROVE r \in Ended(n) <=> r \in Ended(s)
    BY <1>4, <1>5 DEF Ended
  <2>2. QED
    BY <2>1 DEF Ended
<1>11. ASSUME c PROVE Orderly(n, Ended(s), 0)
  <2>1. Orderly(s, Ended(s), 0)
    BY <1>11 DEF Inv
  <2>2. ASSUME NEW q \in Proc PROVE Tidy(n, q) /\ Going(n, q) /\ QueueOK(n, q)
    <3>1. CASE q = p
      <4>1. InOrder(<<>>) /\ ToSet(<<>>) = {}
        BY DEF InOrder, ToSet
      <4>2. QED
        BY <3>1, <4>1, <1>3, <1>4, <1>11 DEF Tidy, Going, QueueOK, Queue
    <3>2. CASE q # p
      <4>1. Tidy(s, q) /\ Going(s, q) /\ QueueOK(s, q)
        BY <2>1 DEF Orderly
      <4>2. QED
        BY <3>2, <4>1, <1>4, <1>7 DEF Tidy, Going, QueueOK
    <3>3. QED
      BY <3>1, <3>2
  <2>3. TasksDiffer(n)
    <3>1. ASSUME NEW q \in Proc, NEW i \in DOMAIN n.proc[q].attach, NEW j \in DOMAIN n.proc[q].attach,
                 n.proc[q].attach[i].name = n.proc[q].attach[j].name
          PROVE  i = j
      <4>1. CASE q = p
        BY <3>1, <4>1, <1>3, <1>4, <1>11
      <4>2. CASE q # p
        BY <3>1, <4>2, <1>4, <2>1 DEF Orderly, TasksDiffer
      <4>3. QED
        BY <4>1, <4>2
    <3>2. QED
      BY <3>1 DEF TasksDiffer
  <2>4. \A r \in Record : Finished(n, r) <=> Finished(s, r)
    BY <1>4, <1>7 DEF Finished
  <2>5. OneOfAName(n, 0)
    BY <2>1, <2>4, <1>4 DEF Orderly, OneOfAName, Alive
  <2>6. QED
    BY <2>1, <2>2, <2>3, <2>4, <2>5, <1>4 DEF Orderly
<1>12. QED
  BY <1>9, <1>10, <1>11 DEF Inv

-----------------------------------------------------------------------------
(* A process attaches: one record for each task that waited for it.        *)

Begun(s, p) == [s EXCEPT !.proc[p].mStatus = "RUNNING", !.proc[p].attach = <<>>]

\* Before its first task is done, the process has nothing.
LEMMA BegunInv ==
    ASSUME NEW s, NEW c, NEW X, Inv(s, c, X, 0), NEW p \in Proc, s.proc[p].mStatus = "ATTACHING"
    PROVE  LET n == Begun(s, p)
           IN /\ Inv(n, c, X, 0) /\ n \in StateType
              /\ n.rec = s.rec /\ n.records = s.records
              /\ n.proc[p].mStatus = "RUNNING" /\ NamesInUse(n, p, 0) = {}
              /\ \A q \in Proc : n.proc[q].terminated = s.proc[q].terminated
<1> DEFINE n == Begun(s, p)
           a == s.proc[p]
           y == [a EXCEPT !.mStatus = "RUNNING", !.attach = <<>>]
<1>1. s \in StateType /\ Base(s) /\ a \in ProcType
  BY Parts DEF Inv, Base
<1>2. a.mExistService = <<>> /\ a.sent = <<>>
  BY <1>1 DEF Base, Idle, Up
<1>3. /\ y \in ProcType /\ y.mStatus = "RUNNING" /\ y.attach = <<>>
      /\ y.mExistService = a.mExistService /\ y.sent = a.sent /\ y.terminated = a.terminated
  <2> DEFINE y1 == [a EXCEPT !.mStatus = "RUNNING"]
  <2> HIDE DEF a
  <2>1. /\ y1 \in ProcType /\ y1.mStatus = "RUNNING"
        /\ y1.mExistService = a.mExistService /\ y1.sent = a.sent /\ y1.terminated = a.terminated
    BY <1>1 DEF ProcType
  <2>2. y = [y1 EXCEPT !.attach = <<>>] /\ <<>> \in Seq(Task)
    OBVIOUS
  <2> HIDE DEF y, y1
  <2>3. QED
    BY <2>1, <2>2 DEF ProcType
<1>4. n = [s EXCEPT !.proc[p] = y] /\ s.proc[p] = a
  BY DEF Begun
<1> HIDE DEF a, y, n
<1>5. /\ n \in StateType /\ n.rec = s.rec /\ n.proc[p] = y
      /\ n.records = s.records /\ n.procs = s.procs /\ n.undefined = s.undefined
      /\ \A q \in Proc : q # p => n.proc[q] = s.proc[q]
  BY <1>1, <1>3, <1>4 DEF StateType
<1>6. \A r \in Record : s.rec[r].proc # p /\ (s.rec[r].proc # 0 => s.rec[r].proc \in Proc)
  <2>1. p # 0
    BY DEF Proc
  <2>2. QED
    BY <2>1, <1>1, Parts, RecParts DEF Base, Placed
<1>7. \A q \in Proc : /\ Exists(n, q) = Exists(s, q) /\ Queue(n, q) = Queue(s, q)
                      /\ n.proc[q].terminated = s.proc[q].terminated
                      /\ n.proc[q].sent = s.proc[q].sent
  BY <1>3, <1>4, <1>5 DEF Exists, Queue
<1>8. \A r \in Record : HasApp(n, r) <=> HasApp(s, r)
  BY <1>5, <1>6 DEF HasApp
<1>9. ToSet(<<>>) = {} /\ OneEach(<<>>)
  BY DEF ToSet, OneEach
<1>10. Base(n)
  <2>1. Fresh(n)
    <3>1. p \in Nat /\ ~(p > s.procs)
      BY <1>1, BoundsAssumption DEF Base, Fresh, Proc
    <3>2. QED
      BY <3>1, <1>1, <1>5 DEF Base, Fresh
  <2>2. Placed(n)
    BY <1>1, <1>5, <1>6 DEF Base, Placed
  <2>3. Idle(n)
    <3>1. Up(n, p)
      BY <1>3, <1>5 DEF Up
    <3>2. QED
      BY <3>1, <1>1, <1>5 DEF Base, Idle, Up
  <2>4. Own(n)
    BY <1>1, <1>5, <1>7 DEF Base, Own
  <2>5. ASSUME NEW r \in Record PROVE Counted(n, r) /\ Sound(n, r)
    <3>1. Counted(s, r) /\ Sound(s, r)
      BY <1>1 DEF Base
    <3>2. QED
      BY <3>1, <1>5, <1>6, <1>7, <1>8 DEF Counted, Sound, HasApp
  <2>6. QED
    BY <1>5, <2>1, <2>2, <2>3, <2>4, <2>5 DEF Base
<1>11. ASSUME c PROVE Orderly(n, X, 0)
  <2>1. Orderly(s, X, 0)
    BY <1>11 DEF Inv
  <2>2. ASSUME NEW q \in Proc PROVE Tidy(n, q) /\ Going(n, q) /\ QueueOK(n, q)
    <3>1. Tidy(s, q) /\ Going(s, q) /\ QueueOK(s, q)
      BY <2>1 DEF Orderly
    <3>2. QueueOK(n, q)
      BY <3>1, <1>5, <1>7 DEF QueueOK
    <3>3. CASE q = p
      <4>1. s.proc[p].mStatus = "ATTACHING" /\ n.proc[p].terminated = s.proc[p].terminated
        BY <1>7
      <4>2. Going(n, q)
        BY <3>1, <3>3, <4>1 DEF Going
      <4>3. n.proc[p].mExistService = <<>> /\ Exists(n, p) = {} /\ Queue(n, p) = {}
        BY <1>2, <1>3, <1>5, <1>9 DEF Exists, Queue
      <4>4. Tidy(n, q)
        BY <3>3, <4>3, <1>9 DEF Tidy
      <4>5. QED
        BY <3>2, <4>2, <4>4
    <3>4. CASE q # p
      BY <3>1, <3>2, <3>4, <1>5, <1>7 DEF Tidy, Going
    <3>5. QED
      BY <3>3, <3>4
  <2>3. TasksDiffer(n)
    <3>1. DOMAIN n.proc[p].attach = {}
      BY <1>3, <1>5
    <3>2. QED
      BY <3>1, <2>1, <1>5 DEF Orderly, TasksDiffer
  <2>4. \A r \in Record : Finished(n, r) <=> Finished(s, r)
    BY <1>5, <1>7 DEF Finished
  <2>5. OneOfAName(n, 0)
    BY <2>1, <2>4, <1>5 DEF Orderly, OneOfAName, Alive
  <2>6. QED
    BY <2>1, <2>2, <2>3, <2>4, <2>5, <1>5 DEF Orderly
<1>12. NamesInUse(n, p, 0) = {}
  BY <1>5, <1>6 DEF NamesInUse
<1>13. n.proc[p].mStatus = "RUNNING"
  BY <1>3, <1>5
<1>14. QED
  BY <1>5, <1>7, <1>10, <1>11, <1>12, <1>13 DEF Inv, n

AttachLoop(s, p, tasks, f) ==
    f = [n \in 0..Len(tasks) |->
           IF n = 0 THEN Begun(s, p) ELSE NewService(f[n - 1], tasks[n].name, p, tasks[n].conn)]

\* The recursive function of Attached() exists: its values are those of a loop
\* of bounded length.
LEMMA AttachLoopExists ==
    ASSUME NEW s, Inv(s, FALSE, {}, 0), NEW p \in Proc, s.proc[p].mStatus = "ATTACHING",
           NEW tasks \in Seq(Task), s.records + Len(tasks) <= MaxRecords
    PROVE  \E f : AttachLoop(s, p, tasks, f)
<1> DEFINE N == Len(tasks)
           New(t, i) == NewService(t, tasks[i].name, p, tasks[i].conn)
           S == {t \in StateType : Base(t) /\ t.proc[p].mStatus = "RUNNING"}
           step == [i \in 1..N |-> [t \in S |-> IF t.records < MaxRecords THEN New(t, i) ELSE t]]
           x == Begun(s, p)
<1>1. N \in Nat /\ MaxRecords \in Nat /\ s.records \in Nat
  BY Parts, BoundsAssumption DEF Inv, Base
<1>2. x \in S /\ x.records = s.records
  BY BegunInv DEF Inv
<1>3. ASSUME NEW i \in 1..N, NEW t \in S, t.records < MaxRecords
      PROVE  New(t, i) \in S /\ New(t, i).records = t.records + 1
  <2>1. Inv(t, FALSE, {}, 0) /\ t.proc[p].mStatus = "RUNNING"
    BY DEF Inv
  <2>2. tasks[i] \in Task
    OBVIOUS
  <2>3. tasks[i].name \in Name /\ tasks[i].conn \in Conn \union {NoConn}
    BY <2>2 DEF Task
  <2>4. NewServiceFacts(t, New(t, i), tasks[i].name, p, FALSE, {})
    BY <1>3, <2>1, <2>3, NewServiceInv
  <2> HIDE DEF New
  <2>5. QED
    BY <2>4 DEF NewServiceFacts, Inv
<1> HIDE DEF New
<1>4. step \in [1..N -> [S -> S]]
  <2> HIDE DEF S
  <2>1. QED
    BY <1>3
<1> HIDE DEF S, x
<1>5. PICK g \in [0..N -> S] : Iterated(x, step, N, g)
  <2> HIDE DEF step, N
  <2>1. QED
    BY <1>1, <1>2, <1>4, IteratedExists
<1>6. /\ \A i \in 0..N : g[i] \in S
      /\ \A i \in 0..N : g[i] = IF i = 0 THEN x ELSE step[i][g[i - 1]]
  BY <1>5 DEF Iterated
<1> DEFINE good == {i \in 0..N : g[i].records = s.records + i}
<1>7. 0..N \subseteq good
  <2>1. 0 \in good
    <3>1. 0 \in 0..N /\ s.records + 0 = s.records
      BY <1>1
    <3>2. g[0] = x
      BY <3>1, <1>6
    <3>3. QED
      BY <3>1, <3>2, <1>2
  <2>2. ASSUME NEW k \in 0..(N - 1), k \in good PROVE k + 1 \in good
    <3> DEFINE j == k + 1
    <3>1. j \in 1..N /\ j \in 0..N /\ j # 0 /\ j - 1 = k /\ k \in 0..N
      BY <1>1
    <3>2. s.records + k < MaxRecords
      BY <1>1
    <3> HIDE DEF j
    <3>3. g[k].records = s.records + k /\ g[k] \in S
      BY <2>2, <3>1, <1>6
    <3>4. g[j] = New(g[k], j)
      BY <3>1, <3>2, <3>3, <1>6
    <3>5. g[j].records = g[k].records + 1
      BY <3>1, <3>2, <3>3, <3>4, <1>3
    <3>6. g[j].records = s.records + j
      BY <3>3, <3>5, <1>1 DEF j
    <3>7. QED
      BY <3>1, <3>6 DEF j
  <2> HIDE DEF good, N
  <2>3. QED
    BY <2>1, <2>2, <1>1, UpTo
<1> DEFINE h == [i \in 0..N |-> IF i = 0 THEN x ELSE New(g[i - 1], i)]
<1>8. ASSUME NEW i \in 0..N PROVE g[i] = h[i]
  <2>1. CASE i = 0
    BY <2>1, <1>6
  <2>2. CASE i # 0
    <3>1. i \in 1..N /\ i - 1 \in 0..N
      BY <2>2, <1>1
    <3>2. g[i - 1].records < MaxRecords
      BY <3>1, <1>1, <1>7
    <3>3. QED
      BY <3>1, <3>2, <2>2, <1>6
  <2>3. QED
    BY <2>1, <2>2
<1>9. g = h
  <2>1. g = [i \in 0..N |-> g[i]] /\ h = [i \in 0..N |-> h[i]]
    BY <1>5
  <2> HIDE DEF h
  <2>2. QED
    BY <2>1, <1>8
<1>10. AttachLoop(s, p, tasks, g)
  BY <1>9 DEF AttachLoop, New, x
<1>11. QED
  BY <1>10

NamesOf(tasks, k) == {tasks[i].name : i \in 1..k}

\* What the attachment has done after k of the tasks.
AttachedSoFar(s, c, p, k, t) ==
    /\ t \in StateType /\ Inv(t, c, Ended(s), 0)
    /\ t.records = s.records + k
    /\ t.proc[p].mStatus = "RUNNING"
    /\ c => NamesInUse(t, p, 0) \subseteq NamesOf(s.proc[p].attach, k)
    /\ c => Ended(t) = Ended(s)
    /\ \A q \in Proc : t.proc[q].terminated = s.proc[q].terminated

\* Each of the tasks makes a record, and the tasks of careful callers have different names.
LEMMA AttachedFollows ==
    ASSUME NEW s, NEW c, Inv(s, c, Ended(s), 0), NEW p \in Proc, s.proc[p].mStatus = "ATTACHING",
           s.records + Len(s.proc[p].attach) <= MaxRecords
    PROVE  LET tasks == s.proc[p].attach
           IN \E f : /\ AttachLoop(s, p, tasks, f) /\ Attached(s, p) = f[Len(tasks)]
                     /\ \A k \in 0..Len(tasks) : AttachedSoFar(s, c, p, k, f[k])
                     /\ c => \A k \in 1..Len(tasks) :
                               tasks[k].name \notin NamesInUse(f[k - 1], p, 0)
<1> DEFINE tasks == s.proc[p].attach
           N == Len(tasks)
           X == Ended(s)
           f == CHOOSE g : AttachLoop(s, p, tasks, g)
           good == {k \in 0..N : AttachedSoFar(s, c, p, k, f[k])}
<1>1. s \in StateType /\ tasks \in Seq(Task) /\ s.records \in 0..MaxRecords
  BY Parts, ProcParts DEF Inv, Base
<1>2. /\ N \in Nat /\ MaxRecords \in Nat /\ s.records \in Nat /\ \A i \in 1..N : tasks[i] \in Task
      /\ s.records + N <= MaxRecords
  BY <1>1, BoundsAssumption
<1>3. Attached(s, p) = f[N]
  BY DEF Attached, AttachLoop, Begun
<1>4. AttachLoop(s, p, tasks, f)
  <2>1. Inv(s, FALSE, {}, 0)
    BY DEF Inv
  <2>2. QED
    BY <2>1, <1>1, AttachLoopExists
<1>5. c => ~s.proc[p].terminated
  BY DEF Inv, Orderly, Going
<1>6. ASSUME c, NEW i \in 1..N, NEW j \in 1..N, tasks[i].name = tasks[j].name PROVE i = j
  BY <1>1, <1>6 DEF Inv, Orderly, TasksDiffer
<1> HIDE DEF tasks, f
<1>7. \A n \in 0..N : f[n] = IF n = 0 THEN Begun(s, p)
                             ELSE NewService(f[n - 1], tasks[n].name, p, tasks[n].conn)
  BY <1>4 DEF AttachLoop
<1> HIDE DEF N
<1>8. 0 \in good
  <2> DEFINE b == Begun(s, p)
  <2>1. /\ Inv(b, c, X, 0) /\ b \in StateType
        /\ b.rec = s.rec /\ b.records = s.records
        /\ b.proc[p].mStatus = "RUNNING" /\ NamesInUse(b, p, 0) = {}
        /\ \A q \in Proc : b.proc[q].terminated = s.proc[q].terminated
    BY BegunInv
  <2> HIDE DEF b, X
  <2>2. Ended(b) = X
    BY <1>1, <2>1, SameEnded DEF X
  <2>3. 0 \in 0..N /\ f[0] = b /\ s.records = s.records + 0
    BY <1>2, <1>7 DEF b
  <2>4. AttachedSoFar(s, c, p, 0, b)
    BY <2>1, <2>2, <2>3 DEF AttachedSoFar, X
  <2>5. QED
    BY <2>3, <2>4
<1>9. ASSUME NEW k \in 0..(N - 1), k \in good PROVE k + 1 \in good
  <2> DEFINE j == k + 1
             t == f[k]
             n == f[j]
  <2>1. j \in 1..N /\ j \in 0..N /\ j # 0 /\ j - 1 = k /\ s.records + k < MaxRecords
        /\ j \notin 1..k /\ \A i \in 1..k : i \in 1..N
    BY <1>2
  <2>2. NamesOf(tasks, j) = NamesOf(tasks, k) \union {tasks[j].name}
    <3>1. 1..j = (1..k) \union {j}
      BY <1>2
    <3> HIDE DEF j
    <3>2. QED
      BY <3>1 DEF NamesOf
  <2>3. c => tasks[j].name \notin NamesOf(tasks, k)
    <3> HIDE DEF j
    <3>1. QED
      BY <2>1, <1>6 DEF NamesOf
  <2> HIDE DEF j
  <2>4. /\ t \in StateType /\ Inv(t, c, X, 0)
        /\ t.records = s.records + k /\ t.proc[p].mStatus = "RUNNING"
        /\ c => NamesInUse(t, p, 0) \subseteq NamesOf(tasks, k)
        /\ c => Ended(t) = X
        /\ \A q \in Proc : t.proc[q].terminated = s.proc[q].terminated
    BY <1>9 DEF AttachedSoFar, tasks
  <2> HIDE DEF X
  <2>5. n = NewService(t, tasks[j].name, p, tasks[j].conn)
    BY <2>1, <1>7
  <2>6. tasks[j].name \in Name /\ tasks[j].conn \in Conn \union {NoConn}
    BY <2>1, <1>2 DEF Task
  <2> HIDE DEF t, n
  <2>7. NewServiceFacts(t, n, tasks[j].name, p, c, X)
    <3>1. t.records < MaxRecords /\ (c => tasks[j].name \notin NamesInUse(t, p, 0))
      BY <2>1, <2>3, <2>4
    <3>2. QED
      BY <2>4, <2>5, <2>6, <3>1, NewServiceInv
  <2>8. /\ n \in StateType /\ Inv(n, c, X, 0)
        /\ n.records = t.records + 1 /\ n.proc[p].mStatus = "RUNNING"
        /\ c => NamesInUse(n, p, 0) \subseteq NamesInUse(t, p, 0) \union {tasks[j].name}
        /\ \A q \in Proc : n.proc[q].terminated = t.proc[q].terminated
        /\ \A q \in Record : \/ n.rec[q].proc = t.rec[q].proc
                             \/ t.rec[q].proc = 0 /\ n.rec[q].proc = p
    BY <2>7 DEF NewServiceFacts
  <2>9. n.records = s.records + j
    <3>1. k \in Nat
      BY <1>2
    <3>2. (s.records + k) + 1 = s.records + j
      BY <3>1, <1>2 DEF j
    <3>3. QED
      BY <3>2, <2>4, <2>8
  <2>10. c => NamesInUse(n, p, 0) \subseteq NamesOf(tasks, j)
    BY <2>2, <2>4, <2>8
  <2>11. c => Ended(n) = X
    <3>1. ASSUME c PROVE ~n.proc[p].terminated
      BY <3>1, <2>4, <2>8, <1>5
    <3>2. ASSUME c PROVE Ended(n) = Ended(t)
      BY <3>1, <3>2, <2>4, <2>8, GoesOn
    <3>3. QED
      BY <3>2, <2>4
  <2>12. n = f[j]
    BY DEF n
  <2>13. AttachedSoFar(s, c, p, j, n)
    BY <2>4, <2>8, <2>9, <2>10, <2>11 DEF AttachedSoFar, tasks, X
  <2>14. j \in good
    BY <2>1, <2>12, <2>13
  <2>15. QED
    BY <2>14 DEF j
<1>10. 0..N \subseteq good
  <2> HIDE DEF good
  <2>1. QED
    BY <1>2, <1>8, <1>9, UpTo
<1>11. \A k \in 0..N : AttachedSoFar(s, c, p, k, f[k])
  BY <1>10
<1>12. ASSUME c, NEW k \in 1..N PROVE tasks[k].name \notin NamesInUse(f[k - 1], p, 0)
  <2> DEFINE j == k - 1
  <2>1. j \in 0..N /\ k \notin 1..j /\ \A i \in 1..j : i \in 1..N
    BY <1>2
  <2> HIDE DEF j
  <2>2. NamesInUse(f[j], p, 0) \subseteq NamesOf(tasks, j)
    BY <2>1, <1>11, <1>12 DEF AttachedSoFar, tasks
  <2>3. tasks[k].name \notin NamesOf(tasks, j)
    BY <2>1, <1>6, <1>12 DEF NamesOf
  <2>4. QED
    BY <2>2, <2>3 DEF j
<1>13. QED
  BY <1>3, <1>4, <1>11, <1>12 DEF N, tasks

\* The attachment of a process keeps the invariant.
LEMMA AttachedInv ==
    ASSUME NEW s, NEW c, Inv(s, c, Ended(s), 0), NEW p \in Proc, s.proc[p].mStatus = "ATTACHING",
           s.records + Len(s.proc[p].attach) <= MaxRecords
    PROVE  Inv(Attached(s, p), c, Ended(Attached(s, p)), 0)
<1> DEFINE n == Attached(s, p)
           N == Len(s.proc[p].attach)
<1>1. N \in 0..N
  <2>1. s.proc[p].attach \in Seq(Task)
    BY Parts, ProcParts DEF Inv, Base
  <2>2. QED
    BY <2>1
<1>2. AttachedSoFar(s, c, p, N, n)
  BY <1>1, AttachedFollows
<1> HIDE DEF n
<1>3. Inv(n, c, Ended(s), 0) /\ (c => Ended(n) = Ended(s))
  BY <1>2 DEF AttachedSoFar
<1>4. Inv(n, c, Ended(n), 0)
  BY <1>3 DEF Inv
<1>5. QED
  BY <1>4 DEF n

-----------------------------------------------------------------------------
(* The requests.                                                           *)

\* A step about one record leaves the same processes told to terminate.
LEMMA StepKeeps ==
    ASSUME NEW s, NEW c, NEW n, NEW r \in Record, s \in StateType, Step(s, n, r, c, Ended(s), 0)
    PROVE  Inv(n, c, Ended(n), 0)
<1>1. Ended(n) = Ended(s)
  BY LocalFrame, SameEnded DEF Step
<1>2. QED
  BY <1>1 DEF Step

\* Starting or binding a listed record keeps the invariant.
LEMMA ServeInv ==
    ASSUME NEW s, NEW c, Inv(s, c, Ended(s), 0), NEW r \in Record, s.rec[r].listed,
           NEW conn \in Conn \union {NoConn},
           c => /\ ~s.rec[r].asked /\ Free(s, r)
                /\ conn = NoConn => s.rec[r].mStartFlag = {}
    PROVE  Inv(Serve(s, r, conn), c, Ended(Serve(s, r, conn)), 0)
<1>1. s \in StateType /\ s.rec[r].proc # 0
  BY DEF Inv, Base, Placed
<1>2. Step(s, Serve(s, r, conn), r, c, Ended(s), 0)
  <2>1. CASE conn = NoConn
    BY <2>1, <1>1, StartStep DEF Serve
  <2>2. CASE conn # NoConn
    BY <2>2, <1>1, BindStep DEF Serve
  <2>3. QED
    BY <2>1, <2>2
<1>3. QED
  BY <1>1, <1>2, StepKeeps

\* In a process that runs, the names in use are those of the services it would find.
LEMMA NameIsFree ==
    ASSUME NEW s, NEW c, Inv(s, c, Ended(s), 0), c, NEW name, NEW p \in Proc,
           s.proc[p].mStatus = "RUNNING", Found(s, name) = {}
    PROVE  name \notin NamesInUse(s, p, 0)
<1> SUFFICES ASSUME NEW q \in Record, s.rec[q].proc = p, Alive(s, q, 0), s.rec[q].name = name
             PROVE  FALSE
  BY DEF NamesInUse
<1>1. ~s.proc[p].terminated
  BY DEF Inv, Orderly, Going
<1>2. q \notin Ended(s) /\ q # 0
  BY <1>1, BoundsAssumption DEF Ended, Record
<1>3. s.rec[q].listed
  BY <1>2 DEF Inv, Orderly, Alive
<1>4. HasApp(s, q)
  BY DEF HasApp, Proc
<1>5. QED
  BY <1>3, <1>4 DEF Found

\* startServiceReal() keeps the invariant, in each of its three cases.
LEMMA StartServiceRealInv ==
    ASSUME NEW s, NEW c, Inv(s, c, Ended(s), 0), NEW name \in Name, NEW conn \in Conn \union {NoConn},
           c => \A p \in Proc : \A i \in DOMAIN s.proc[p].attach : s.proc[p].attach[i].name # name,
           c => \A r \in Found(s, name) : /\ ~s.rec[r].asked /\ Free(s, r)
                                          /\ conn = NoConn => s.rec[r].mStartFlag = {},
           NEW n \in StartServiceReal(s, name, conn)
    PROVE  Inv(n, c, Ended(n), 0)
<1>1. CASE Found(s, name) # {}
  <2>1. PICK r \in Found(s, name) : n = Serve(s, r, conn)
    BY <1>1 DEF StartServiceReal
  <2>2. r \in Record /\ s.rec[r].listed
    BY DEF Found
  <2>3. c => /\ ~s.rec[r].asked /\ Free(s, r)
             /\ conn = NoConn => s.rec[r].mStartFlag = {}
    OBVIOUS
  <2>4. QED
    BY <2>1, <2>2, <2>3, ServeInv
<1>2. CASE Found(s, name) = {} /\ In(s, "RUNNING") # {}
  <2>1. PICK p \in In(s, "RUNNING") : n = NewService(s, name, p, conn) /\ s.records < MaxRecords
    BY <1>2 DEF StartServiceReal
  <2>2. p \in Proc /\ s.proc[p].mStatus = "RUNNING" /\ s \in StateType
    BY DEF In, Inv, Base
  <2>3. c => name \notin NamesInUse(s, p, 0)
    BY <1>2, <2>2, NameIsFree
  <2>4. NewServiceFacts(s, NewService(s, name, p, conn), name, p, c, Ended(s))
    BY <2>1, <2>2, <2>3, NewServiceInv
  <2>5. NewServiceFacts(s, n, name, p, c, Ended(s))
    BY <2>1, <2>4
  <2>6. /\ n \in StateType /\ Inv(n, c, Ended(s), 0)
        /\ \A q \in Proc : n.proc[q].terminated = s.proc[q].terminated
        /\ \A q \in Record : \/ n.rec[q].proc = s.rec[q].proc
                             \/ s.rec[q].proc = 0 /\ n.rec[q].proc = p
    BY <2>5 DEF NewServiceFacts
  <2>7. ASSUME c PROVE Ended(n) = Ended(s)
    <3>1. ~s.proc[p].terminated
      BY <2>2, <2>7 DEF Inv, Orderly, Going
    <3>2. QED
      BY <3>1, <2>2, <2>6, GoesOn
  <2>8. QED
    BY <2>6, <2>7 DEF Inv
<1>3. CASE Found(s, name) = {} /\ In(s, "RUNNING") = {}
  <2>1. n \in SubmitAppStartupTask(s, name, conn)
    BY <1>3 DEF StartServiceReal
  <2>2. QED
    BY <2>1, SubmitInv
<1>4. QED
  BY <1>1, <1>2, <1>3

\* stopService() keeps the invariant.
LEMMA StopServiceRealInv ==
    ASSUME NEW s, NEW c, Inv(s, c, Ended(s), 0), NEW r \in Record, s.rec[r].listed,
           c => Free(s, r)
    PROVE  Inv(StopServiceReal(s, r), c, Ended(StopServiceReal(s, r)), 0)
<1>1. s \in StateType /\ s.rec[r].proc # 0
  BY DEF Inv, Base, Placed
<1>2. CASE s.rec[r].mStatus < DESTROYING
  <2>1. Step(s, Stop(s, r), r, c, Ended(s), 0)
    BY <1>1, StopStep
  <2>2. Inv(Stop(s, r), c, Ended(Stop(s, r)), 0)
    BY <2>1, <1>1, StepKeeps
  <2>3. QED
    BY <2>2, <1>2 DEF StopServiceReal
<1>3. CASE ~(s.rec[r].mStatus < DESTROYING)
  BY <1>3 DEF StopServiceReal
<1>4. QED
  BY <1>2, <1>3

\* unbindService() keeps the invariant: a connection of a careful caller is
\* used only by records that are free.
LEMMA UnbindConnectionInv ==
    ASSUME NEW s, NEW c, Inv(s, c, Ended(s), 0), NEW conn \in Conn,
           c => \A r \in Record : conn \in s.rec[r].mConnectRecord => Free(s, r)
    PROVE  Inv(UnbindConnection(s, conn), c, Ended(UnbindConnection(s, conn)), 0)
<1> DEFINE S == {r \in Record : s.rec[r].listed}
           X == Ended(s)
           Ready(t, r) == /\ t.rec[r].proc # 0
                          /\ c => /\ t.rec[r].listed
                                  /\ conn \in t.rec[r].mConnectRecord => Free(t, r)
           T == {t \in StateType : /\ Inv(t, c, X, 0) /\ Ended(t) = X
                                   /\ \A r \in S : Ready(t, r)}
           n == UnbindConnection(s, conn)
<1>1. s \in T
  BY DEF Inv, Base, Placed
<1>2. ASSUME NEW r \in Record \cap S, NEW t \in T PROVE Unbind(t, r, conn) \in T
  <2> DEFINE u == Unbind(t, r, conn)
  <2>1. Inv(t, c, X, 0) /\ Ended(t) = X /\ t \in StateType /\ \A q \in S : Ready(t, q)
    OBVIOUS
  <2>2. t.rec[r].proc # 0 /\ (c => t.rec[r].listed /\ (conn \in t.rec[r].mConnectRecord => Free(t, r)))
    BY <2>1
  <2> HIDE DEF X
  <2>3. /\ Step(t, u, r, c, X, 0)
        /\ u = t \/ conn \notin u.rec[r].mConnectRecord
        /\ u.rec[r].listed = t.rec[r].listed
    BY <2>1, <2>2, UnbindStep
  <2> HIDE DEF u
  <2>4. Inv(u, c, X, 0) /\ Local(t, u, r) /\ u \in StateType
    BY <2>3 DEF Step, Local
  <2>5. Ended(u) = X
    BY <2>1, <2>4, LocalFrame, SameEnded
  <2>6. ASSUME NEW q \in S PROVE Ready(u, q)
    <3>1. CASE u = t
      BY <3>1, <2>1
    <3>2. CASE q = r /\ u # t
      BY <3>2, <2>2, <2>3, <2>4, LocalFrame
    <3>3. CASE q # r
      <4>1. u.rec[q] = t.rec[q] /\ q # 0
        BY <3>3, <2>4, BoundsAssumption DEF Local, Record
      <4>2. \A p \in Proc : \A m \in Queue(u, p) : m \in Queue(t, p) \/ m.r = r \/ m.r = 0
        <5>1. \A p \in Proc : LocalProc(t.proc[p], u.proc[p], r)
          BY <2>4 DEF Local
        <5>2. QED
          BY <5>1 DEF LocalProc, Queue
      <4>3. Free(t, q) => Free(u, q)
        BY <4>1, <4>2, <3>3 DEF Free
      <4>4. QED
        BY <4>1, <4>3, <2>1
    <3>4. QED
      BY <3>1, <3>2, <3>3
  <2> HIDE DEF Ready, S
  <2>7. u \in T
    BY <2>4, <2>5, <2>6
  <2>8. QED
    BY <2>7 DEF u
<1>3. n \in T
  <2>1. n = UnbindEach(s, S, conn)
    BY DEF UnbindConnection, UnbindEach
  <2> HIDE DEF T, S, n
  <2>2. QED
    BY <1>1, <1>2, <2>1, UnbindLoopKeeps
<1>4. QED
  BY <1>3

\* checkService() keeps the invariant: what a running process of careful callers
\* counts is listed.
LEMMA CheckServiceInv ==
    ASSUME NEW s, NEW c, Inv(s, c, Ended(s), 0), NEW p \in Proc, s.proc[p].mStatus = "RUNNING"
    PROVE  Inv(CheckService(s, p), c, Ended(CheckService(s, p)), 0)
<1> DEFINE b == \E r \in ToSet(s.proc[p].mExistService) : ~s.rec[r].listed
           n == CheckService(s, p)
<1>1. s \in StateType /\ Base(s) /\ b \in BOOLEAN
  BY DEF Inv, Base
<1>2. n = [s EXCEPT !.undefined = b]
  BY DEF CheckService
<1>3. c => ~b
  <2>1. ASSUME c PROVE Tidy(s, p)
    BY <2>1 DEF Inv, Orderly
  <2>2. QED
    BY <2>1 DEF Tidy, Exists
<1> HIDE DEF b, n
<1>4. /\ n \in StateType /\ n.rec = s.rec /\ n.proc = s.proc /\ n.undefined = b
      /\ n.records = s.records /\ n.procs = s.procs
  BY <1>1, <1>2 DEF StateType
<1>5. Base(n)
  BY <1>1, <1>4 DEF Base, Fresh, Placed, Idle, Own, Counted, Sound, HasApp, Exists, Queue, Up
<1>6. Ended(n) = Ended(s)
  BY <1>4 DEF Ended
<1>7. ASSUME c PROVE Orderly(n, Ended(s), 0)
  <2>1. Orderly(s, Ended(s), 0)
    BY <1>7 DEF Inv
  <2>2. ~n.undefined
    BY <1>3, <1>4, <1>7
  <2>3. \A q \in Proc : Tidy(n, q) /\ Going(n, q) /\ QueueOK(n, q)
    BY <2>1, <1>4 DEF Orderly, Tidy, Going, QueueOK, Exists, Queue
  <2>4. TasksDiffer(n) /\ OneOfAName(n, 0)
    BY <2>1, <1>4 DEF Orderly, TasksDiffer, OneOfAName, Alive, Finished, Queue
  <2>5. \A r \in Record \ Ended(s) : n.rec[r].listed \/ Finished(n, r)
    BY <2>1, <1>4 DEF Orderly, Finished, Queue
  <2>6. QED
    BY <2>2, <2>3, <2>4, <2>5 DEF Orderly
<1>8. QED
  BY <1>5, <1>6, <1>7 DEF Inv, n

\* stopApplication() of a process keeps the invariant.
LEMMA StopProcessInv ==
    ASSUME NEW s, NEW c, Inv(s, c, Ended(s), 0), NEW p \in Proc
    PROVE  Inv(StopApplication(s, p), c, Ended(StopApplication(s, p)), 0)
<1> DEFINE n == StopApplication(s, p)
<1>1. /\ Inv(n, c, Ended(s), 0) /\ n.rec = s.rec
      /\ \A q \in Proc : n.proc[q].terminated = s.proc[q].terminated
  BY StopApplicationInv
<1>2. s \in StateType
  BY DEF Inv, Base
<1> HIDE DEF n
<1>3. Ended(n) = Ended(s)
  BY <1>1, <1>2, SameEnded
<1>4. QED
  BY <1>1, <1>3 DEF n

-----------------------------------------------------------------------------
(* A process ends.                                                         *)

Exited(s, p) ==
    LET done == ProcAppTerminated(s, p)
    IN [done EXCEPT !.proc[p] = [@ EXCEPT !.mStatus = "GONE", !.attach = <<>>, !.sent = <<>>],
                    !.rec = [r \in Record |->
                               IF @[r].proc = p THEN [@[r] EXCEPT !.client = NoClient] ELSE @[r]]]

Entries(s, p) == {r \in Exists(s, p) : s.rec[r].listed}

\* What its end leaves of a record.
Left(s, p, x, y, r) ==
    /\ y \in RecType
    /\ y.name = x.name /\ y.proc = x.proc /\ (y.listed <=> x.listed /\ r \notin Entries(s, p))
    /\ y.mStartFlag = x.mStartFlag /\ y.mConnectRecord = x.mConnectRecord /\ y.asked = x.asked
    /\ y.client = IF x.proc = p THEN NoClient ELSE x.client
    /\ x.proc # p /\ r \notin Entries(s, p) => y = x

\* What the end of a process changes.
LEMMA ExitedFacts ==
    ASSUME NEW s \in StateType, NEW p \in Proc
    PROVE  LET n == Exited(s, p)
           IN /\ n \in StateType
              /\ n.records = s.records /\ n.procs = s.procs /\ n.undefined = s.undefined
              /\ \A q \in Proc : q # p => n.proc[q] = s.proc[q]
              /\ n.proc[p].mStatus = "GONE" /\ n.proc[p].attach = <<>> /\ n.proc[p].sent = <<>>
              /\ n.proc[p].mExistService = <<>> /\ n.proc[p].terminated = s.proc[p].terminated
              /\ \A r \in Record : Left(s, p, s.rec[r], n.rec[r], r)
<1> DEFINE E == Entries(s, p)
           T == {t \in StateType : /\ t.rec = s.rec /\ t.proc = s.proc /\ t.records = s.records
                                   /\ t.procs = s.procs /\ t.undefined = s.undefined}
           told == ForEach(AbnormalExit, s, E)
           x1 == [r \in Record |-> [s.rec[r] EXCEPT !.listed = @ /\ r \notin E]]
           x2 == [r \in Record |-> IF x1[r].proc = p THEN [x1[r] EXCEPT !.client = NoClient] ELSE x1[r]]
           y1 == [s.proc[p] EXCEPT !.mExistService = <<>>]
           y2 == [y1 EXCEPT !.mStatus = "GONE"]
           y3 == [y2 EXCEPT !.attach = <<>>]
           y4 == [y3 EXCEPT !.sent = <<>>]
           n == Exited(s, p)
<1>1. told \in T
  <2>1. s \in T
    OBVIOUS
  <2>2. ASSUME NEW r \in Record \cap E, NEW t \in T PROVE AbnormalExit(t, r) \in T
    <3>1. t \in StateType
      OBVIOUS
    <3>2. LET k == AbnormalExit(t, r)
          IN /\ k \in StateType /\ k.rec = t.rec /\ k.proc = t.proc
             /\ k.records = t.records /\ k.procs = t.procs /\ k.undefined = t.undefined
      BY <3>1, TellChange DEF AbnormalExit
    <3>3. QED
      BY <3>2
  <2> HIDE DEF T, E
  <2>3. QED
    BY <2>1, <2>2, ExitLoopKeeps
<1>2. /\ told \in StateType /\ told.rec = s.rec /\ told.proc = s.proc /\ told.records = s.records
      /\ told.procs = s.procs /\ told.undefined = s.undefined
  BY <1>1
<1>3. ProcAppTerminated(s, p) = [told EXCEPT !.rec = [r \in Record |-> [told.rec[r] EXCEPT !.listed = @ /\ r \notin E]],
                                             !.proc[p].mExistService = <<>>]
  BY DEF ProcAppTerminated, Entries, Exists
<1> HIDE DEF told, T
<1> DEFINE d == ProcAppTerminated(s, p)
<1>4. d = [told EXCEPT !.rec = x1, !.proc[p] = y1]
  BY <1>2, <1>3
<1>5. \A r \in Record : s.rec[r] \in RecType
  BY Parts
<1>6. ASSUME NEW r \in Record
      PROVE  LET x == s.rec[r]
                 y == x1[r]
             IN /\ y \in RecType /\ y.name = x.name /\ y.proc = x.proc
                /\ y.listed <=> x.listed /\ r \notin E
                /\ y.mStartFlag = x.mStartFlag /\ y.mConnectRecord = x.mConnectRecord
                /\ y.asked = x.asked /\ y.client = x.client
                /\ r \notin E => y = x
  <2> DEFINE x == s.rec[r]
             b == x.listed /\ r \notin E
             y == [x EXCEPT !.listed = b]
  <2>1. x \in RecType /\ b \in BOOLEAN /\ x1[r] = y /\ x.listed \in BOOLEAN
    BY <1>5, RecParts
  <2>2. r \notin E => b = x.listed
    BY <2>1
  <2>3. b <=> x.listed /\ r \notin E
    OBVIOUS
  <2> HIDE DEF x, b
  <2>4. /\ y \in RecType /\ y.name = x.name /\ y.proc = x.proc /\ y.listed = b
        /\ y.mStartFlag = x.mStartFlag /\ y.mConnectRecord = x.mConnectRecord
        /\ y.asked = x.asked /\ y.client = x.client
    BY <2>1 DEF RecType
  <2>5. b = x.listed => y = x
    BY <2>1 DEF RecType
  <2> HIDE DEF x1
  <2>6. QED
    BY <2>1, <2>2, <2>3, <2>4, <2>5 DEF x
<1>7. y1 \in ProcType /\ y1.terminated = s.proc[p].terminated /\ y1.mExistService = <<>>
  <2>1. s.proc[p] \in ProcType /\ <<>> \in Seq(Record)
    BY Parts
  <2>2. QED
    BY <2>1 DEF ProcType
<1>8. y2 \in ProcType /\ y2.terminated = s.proc[p].terminated /\ y2.mExistService = <<>> /\ y2.mStatus = "GONE"
  <2> HIDE DEF y1
  <2>1. QED
    BY <1>7 DEF ProcType
<1>9. /\ y3 \in ProcType /\ y3.terminated = s.proc[p].terminated /\ y3.mExistService = <<>>
      /\ y3.mStatus = "GONE" /\ y3.attach = <<>>
  <2>1. <<>> \in Seq(Task)
    OBVIOUS
  <2> HIDE DEF y2
  <2>2. QED
    BY <1>8, <2>1 DEF ProcType
<1>10. /\ y4 \in ProcType /\ y4.terminated = s.proc[p].terminated /\ y4.mExistService = <<>>
       /\ y4.mStatus = "GONE" /\ y4.attach = <<>> /\ y4.sent = <<>>
  <2>1. <<>> \in Seq(Message)
    OBVIOUS
  <2> HIDE DEF y3
  <2>2. QED
    BY <1>9, <2>1 DEF ProcType
<1>11. ASSUME NEW r \in Record PROVE Left(s, p, s.rec[r], x2[r], r)
  <2> DEFINE w == x1[r]
             y == x2[r]
             x == s.rec[r]
  <2>1. /\ w \in RecType /\ w.name = x.name /\ w.proc = x.proc
        /\ w.listed <=> x.listed /\ r \notin E
        /\ w.mStartFlag = x.mStartFlag /\ w.mConnectRecord = x.mConnectRecord
        /\ w.asked = x.asked /\ w.client = x.client
        /\ r \notin E => w = x
    BY <1>6
  <2>2. y = IF w.proc = p THEN [w EXCEPT !.client = NoClient] ELSE w
    OBVIOUS
  <2>3. NoClient \in ClientType
    BY DEF NoClient, ClientType
  <2> DEFINE v == [w EXCEPT !.client = NoClient]
  <2> HIDE DEF w, y, x, E
  <2>4. /\ v \in RecType /\ v.name = w.name /\ v.proc = w.proc /\ v.listed = w.listed
        /\ v.mStartFlag = w.mStartFlag /\ v.mConnectRecord = w.mConnectRecord
        /\ v.asked = w.asked /\ v.client = NoClient
    BY <2>1, <2>3 DEF RecType
  <2> HIDE DEF v
  <2>5. Left(s, p, x, y, r)
    <3>1. CASE w.proc = p
      <4>1. y = v
        BY <3>1, <2>2 DEF v
      <4>2. QED
        BY <3>1, <4>1, <2>1, <2>4 DEF Left, E
    <3>2. CASE w.proc # p
      <4>1. y = w
        BY <3>2, <2>2
      <4>2. QED
        BY <3>2, <4>1, <2>1 DEF Left, E
    <3>3. QED
      BY <3>1, <3>2
  <2>6. QED
    BY <2>5 DEF x, y
<1> DEFINE n2 == [d EXCEPT !.proc[p] = [d.proc[p] EXCEPT !.mStatus = "GONE", !.attach = <<>>, !.sent = <<>>],
                           !.rec = [r \in Record |-> IF d.rec[r].proc = p THEN [d.rec[r] EXCEPT !.client = NoClient]
                                                     ELSE d.rec[r]]]
<1>12. n = n2
  BY DEF Exited
<1>13. d.rec = x1 /\ d.proc[p] = y1
  <2> HIDE DEF x1, y1, d
  <2>1. QED
    BY <1>2, <1>4 DEF StateType
<1>14. n = [d EXCEPT !.proc[p] = y4, !.rec = x2]
  <2> HIDE DEF d, n, x1, y1
  <2>1. QED
    BY <1>12, <1>13
<1>15. x2 \in [Record -> RecType]
  <2>1. \A r \in Record : x2[r] \in RecType
    BY <1>11 DEF Left
  <2>2. x2 = [r \in Record |-> x2[r]]
    OBVIOUS
  <2> HIDE DEF x2
  <2>3. QED
    BY <2>1, <2>2
<1>16. x1 \in [Record -> RecType]
  <2>1. \A r \in Record : x1[r] \in RecType
    BY <1>6
  <2>2. x1 = [r \in Record |-> x1[r]]
    OBVIOUS
  <2> HIDE DEF x1
  <2>3. QED
    BY <2>1, <2>2
<1> HIDE DEF x1, x2, y1, y2, y3, y4, d, n
<1>17. /\ d \in StateType /\ d.records = s.records /\ d.procs = s.procs /\ d.undefined = s.undefined
       /\ \A q \in Proc : q # p => d.proc[q] = s.proc[q]
  BY <1>2, <1>4, <1>7, <1>16 DEF StateType
<1>18. /\ n \in StateType /\ n.records = d.records /\ n.procs = d.procs /\ n.undefined = d.undefined
       /\ \A q \in Proc : q # p => n.proc[q] = d.proc[q]
       /\ n.rec = x2 /\ n.proc[p] = y4
  BY <1>10, <1>14, <1>15, <1>17 DEF StateType
<1>19. QED
  BY <1>10, <1>11, <1>17, <1>18 DEF n

\* The end of a process keeps the invariant.
LEMMA ExitInv ==
    ASSUME NEW s, NEW c, Inv(s, c, Ended(s), 0), NEW p \in Proc,
           s.proc[p].mStatus \in {"ATTACHING", "RUNNING", "STOPPING"}
    PROVE  Inv(Exited(s, p), c, Ended(Exited(s, p)), 0)
<1> DEFINE n == Exited(s, p)
<1>1. s \in StateType /\ Base(s) /\ p # 0
  BY DEF Inv, Base, Proc
<1>2. /\ n \in StateType
      /\ n.records = s.records /\ n.procs = s.procs /\ n.undefined = s.undefined
      /\ \A q \in Proc : q # p => n.proc[q] = s.proc[q]
      /\ n.proc[p].mStatus = "GONE" /\ n.proc[p].attach = <<>> /\ n.proc[p].sent = <<>>
      /\ n.proc[p].mExistService = <<>> /\ n.proc[p].terminated = s.proc[p].terminated
      /\ \A r \in Record : Left(s, p, s.rec[r], n.rec[r], r)
  BY <1>1, ExitedFacts
<1> HIDE DEF n
<1>3. /\ \A r \in Record : s.rec[r].proc # 0 => s.rec[r].proc \in Proc
      /\ \A q \in Proc : Exists(s, q) \subseteq Record
  <2>1. \A r \in Record : s.rec[r].proc # 0 => s.rec[r].proc \in Proc
    BY <1>1, Parts, RecParts
  <2>2. ASSUME NEW q \in Proc PROVE Exists(s, q) \subseteq Record
    <3>1. s.proc[q].mExistService \in Seq(Record)
      BY <1>1, Parts, ProcParts
    <3>2. QED
      BY <3>1 DEF Exists, ToSet
  <2>3. QED
    BY <2>1, <2>2
<1>4. \A r \in Record : /\ n.rec[r].name = s.rec[r].name /\ n.rec[r].proc = s.rec[r].proc
                        /\ n.rec[r].listed <=> s.rec[r].listed /\ r \notin Entries(s, p)
                        /\ n.rec[r].mStartFlag = s.rec[r].mStartFlag
                        /\ n.rec[r].mConnectRecord = s.rec[r].mConnectRecord
                        /\ n.rec[r].asked = s.rec[r].asked
                        /\ s.rec[r].proc = p => ~n.rec[r].client.exists
                        /\ n.rec[r].client.exists => s.rec[r].client.exists
                        /\ s.rec[r].proc # p => n.rec[r] = s.rec[r]
  <2>1. ~NoClient.exists
    BY DEF NoClient
  <2>2. \A r \in Entries(s, p) : s.rec[r].proc = p
    BY <1>1 DEF Base, Own, Entries
  <2>3. QED
    BY <1>2, <2>1, <2>2 DEF Left
<1>5. /\ Exists(n, p) = {} /\ Queue(n, p) = {}
      /\ \A q \in Proc : q # p => Exists(n, q) = Exists(s, q) /\ Queue(n, q) = Queue(s, q)
  <2>1. ToSet(<<>>) = {}
    BY DEF ToSet
  <2>2. QED
    BY <1>2, <2>1 DEF Exists, Queue
<1>6. ~Up(n, p) /\ \A q \in Proc : q # p => (Up(n, q) <=> Up(s, q))
  BY <1>2 DEF Up
<1>7. \A r \in Record : HasApp(n, r) <=> (HasApp(s, r) /\ s.rec[r].proc # p)
  BY <1>2, <1>3, <1>4 DEF HasApp
<1>8. Base(n)
  <2>1. Fresh(n)
    <3>1. ASSUME NEW r \in Record, r > n.records PROVE n.rec[r] = NoRecord
      <4>1. s.rec[r] = NoRecord
        BY <3>1, <1>1, <1>2 DEF Base, Fresh
      <4>2. s.rec[r].proc # p
        BY <4>1, <1>1 DEF NoRecord
      <4>3. QED
        BY <4>1, <4>2, <1>4
    <3>2. ASSUME NEW q \in Proc, q > n.procs PROVE n.proc[q].mStatus = "NONE"
      <4>1. s.proc[q].mStatus = "NONE"
        BY <3>2, <1>1, <1>2 DEF Base, Fresh
      <4>2. QED
        BY <4>1, <1>2
    <3>3. QED
      BY <3>1, <3>2 DEF Fresh
  <2>2. Placed(n)
    <3>1. ASSUME NEW r \in Record
          PROVE  /\ n.rec[r].listed \/ n.rec[r].client.exists => n.rec[r].proc # 0
                 /\ n.rec[r].proc # 0 => n.proc[n.rec[r].proc].mStatus \in {"RUNNING", "STOPPING", "GONE"}
      <4>1. /\ s.rec[r].listed \/ s.rec[r].client.exists => s.rec[r].proc # 0
            /\ s.rec[r].proc # 0 => s.proc[s.rec[r].proc].mStatus \in {"RUNNING", "STOPPING", "GONE"}
        BY <1>1 DEF Base, Placed
      <4>2. QED
        BY <4>1, <1>2, <1>3, <1>4
    <3>2. QED
      BY <3>1 DEF Placed
  <2>3. Idle(n)
    <3>1. ASSUME NEW q \in Proc, ~Up(n, q)
          PROVE  /\ n.proc[q].mExistService = <<>> /\ n.proc[q].sent = <<>>
                 /\ \A r \in Record : n.rec[r].proc = q => ~n.rec[r].client.exists
      <4>1. CASE q = p
        BY <4>1, <1>2, <1>4
      <4>2. CASE q # p
        <5>1. /\ s.proc[q].mExistService = <<>> /\ s.proc[q].sent = <<>>
              /\ \A r \in Record : s.rec[r].proc = q => ~s.rec[r].client.exists
          BY <3>1, <4>2, <1>1, <1>6 DEF Base, Idle
        <5>2. QED
          BY <4>2, <5>1, <1>2, <1>4
      <4>3. QED
        BY <4>1, <4>2
    <3>2. QED
      BY <3>1 DEF Idle
  <2>4. Own(n)
    <3>1. ASSUME NEW q \in Proc, NEW r \in Exists(n, q) PROVE n.rec[r].proc = q
      <4>1. q # p /\ r \in Exists(s, q)
        BY <3>1, <1>5
      <4>2. r \in Record /\ s.rec[r].proc = q
        BY <4>1, <1>1, <1>3 DEF Base, Own
      <4>3. QED
        BY <4>2, <1>4
    <3>2. ASSUME NEW q \in Proc, NEW m \in Queue(n, q)
          PROVE  IF m.op = "TERMINATE" THEN m.r = 0 ELSE m.r \in Record /\ n.rec[m.r].proc = q
      <4>1. q # p /\ m \in Queue(s, q)
        BY <3>2, <1>5
      <4>2. IF m.op = "TERMINATE" THEN m.r = 0 ELSE m.r \in Record /\ s.rec[m.r].proc = q
        BY <4>1, <1>1 DEF Base, Own
      <4>3. QED
        BY <4>2, <1>4
    <3>3. QED
      BY <3>1, <3>2 DEF Own
  <2>5. ASSUME NEW r \in Record PROVE Counted(n, r) /\ Sound(n, r)
    <3>1. Counted(s, r) /\ Sound(s, r)
      BY <1>1 DEF Base
    <3>2. CASE s.rec[r].proc = p
      <4>1. ~HasApp(n, r)
        BY <3>2, <1>7
      <4>2. Counted(n, r)
        BY <4>1 DEF Counted
      <4>3. ASSUME n.rec[r].listed PROVE n.rec[r].asked \/ n.rec[r].mStartFlag = {}
        <5>1. s.rec[r].listed /\ r \notin Exists(s, p)
          BY <4>3, <1>4 DEF Entries
        <5>2. CASE HasApp(s, r)
          BY <5>1, <5>2, <3>1, <3>2, <1>4 DEF Counted
        <5>3. CASE ~HasApp(s, r)
          BY <5>1, <5>3, <3>1, <1>4 DEF Sound
        <5>4. QED
          BY <5>2, <5>3
      <4>4. QED
        BY <4>1, <4>2, <4>3 DEF Sound
    <3>3. CASE s.rec[r].proc # p
      <4>1. n.rec[r] = s.rec[r] /\ (HasApp(n, r) <=> HasApp(s, r))
        BY <3>3, <1>4, <1>7
      <4>2. HasApp(s, r) => Exists(n, s.rec[r].proc) = Exists(s, s.rec[r].proc)
        BY <3>3, <1>3, <1>5 DEF HasApp
      <4>3. QED
        BY <3>1, <4>1, <4>2 DEF Counted, Sound
    <3>4. QED
      BY <3>2, <3>3
  <2>6. QED
    BY <1>2, <2>1, <2>2, <2>3, <2>4, <2>5 DEF Base
<1>9. Ended(n) = Ended(s)
  BY <1>1, <1>2, <1>4, SameEnded
<1>10. ASSUME c PROVE Orderly(n, Ended(s), 0)
  <2>1. Orderly(s, Ended(s), 0)
    BY <1>10 DEF Inv
  <2>2. ASSUME NEW q \in Proc PROVE Tidy(n, q) /\ Going(n, q) /\ QueueOK(n, q)
    <3>1. CASE q = p
      <4>1. InOrder(<<>>)
        BY DEF InOrder
      <4>2. QED
        BY <3>1, <4>1, <1>2, <1>5 DEF Tidy, Going, QueueOK
    <3>2. CASE q # p
      <4>1. Tidy(s, q) /\ Going(s, q) /\ QueueOK(s, q)
        BY <2>1 DEF Orderly
      <4>2. \A r \in Exists(s, q) : r \in Record /\ n.rec[r] = s.rec[r]
        BY <3>2, <1>1, <1>3, <1>4 DEF Base, Own
      <4>3. Tidy(n, q) /\ Going(n, q)
        BY <3>2, <4>1, <4>2, <1>2, <1>5 DEF Tidy, Going
      <4>4. ASSUME NEW m \in Queue(n, q), m.op = "STOP" PROVE n.rec[m.r].asked
        <5>1. m \in Queue(s, q) /\ m.r \in Record
          BY <3>2, <4>4, <1>1, <1>5 DEF Base, Own
        <5>2. QED
          BY <5>1, <4>1, <4>4, <1>4 DEF QueueOK
      <4>5. QED
        BY <3>2, <4>1, <4>3, <4>4, <1>2 DEF QueueOK
    <3>3. QED
      BY <3>1, <3>2
  <2>3. TasksDiffer(n)
    <3>1. DOMAIN n.proc[p].attach = {}
      BY <1>2
    <3>2. QED
      BY <3>1, <2>1, <1>2 DEF Orderly, TasksDiffer
  <2>4. ASSUME NEW r \in Record, Finished(s, r) PROVE Finished(n, r)
    BY <2>4, <1>4, <1>5 DEF Finished
  <2>5. ASSUME NEW r \in Record, s.rec[r].proc = p PROVE Finished(n, r)
    <3>1. r # 0
      BY BoundsAssumption DEF Record
    <3>2. ASSUME NEW q \in Proc, NEW m \in Queue(n, q) PROVE m.r # r
      <4>1. q # p /\ m \in Queue(s, q)
        BY <3>2, <1>5
      <4>2. IF m.op = "TERMINATE" THEN m.r = 0 ELSE m.r \in Record /\ s.rec[m.r].proc = q
        BY <4>1, <1>1 DEF Base, Own
      <4>3. QED
        BY <4>1, <4>2, <3>1, <2>5
    <3>3. QED
      BY <3>2, <2>5, <1>4 DEF Finished
  <2>6. \A r \in Record : Alive(n, r, 0) => Alive(s, r, 0)
    BY <2>4, <1>4 DEF Alive
  <2>7. OneOfAName(n, 0)
    BY <2>1, <2>6, <1>4 DEF Orderly, OneOfAName
  <2>8. ASSUME NEW r \in Record \ Ended(s) PROVE n.rec[r].listed \/ Finished(n, r)
    <3>1. CASE s.rec[r].proc = p
      BY <3>1, <2>5
    <3>2. CASE s.rec[r].proc # p
      BY <3>2, <2>1, <2>4, <1>4 DEF Orderly
    <3>3. QED
      BY <3>1, <3>2
  <2>9. QED
    BY <2>1, <2>2, <2>3, <2>7, <2>8, <1>2 DEF Orderly
<1>11. QED
  BY <1>8, <1>9, <1>10 DEF Inv, n

-----------------------------------------------------------------------------
(* The specification.                                                      *)

IInv == /\ Inv(sm, careful, Ended(sm), 0)
        /\ careful \in Manners /\ requests \in 0..MaxRequests

\* The inductive invariant holds at first.
LEMMA InitIInv == Init => IInv
<1> SUFFICES ASSUME Init PROVE IInv
  OBVIOUS
<1>1. /\ sm.rec = [r \in Record |-> NoRecord] /\ sm.records = 0
      /\ sm.proc = [p \in Proc |-> NoProc] /\ sm.procs = 0
      /\ sm.told = [c \in Conn |-> "nothing"] /\ ~sm.undefined
  BY DEF Init
<1>2. NoProc \in ProcType /\ NoRecord \in RecType
  <2>1. <<>> \in Seq(Task) /\ <<>> \in Seq(Record) /\ <<>> \in Seq(Message)
    OBVIOUS
  <2>2. QED
    BY <2>1, NoRecordType DEF NoProc, ProcType
<1>3. sm \in StateType
  <2>1. sm = [rec |-> sm.rec, records |-> 0, proc |-> sm.proc, procs |-> 0,
              told |-> sm.told, undefined |-> FALSE]
    BY <1>1 DEF Init
  <2>2. 0 \in 0..MaxRecords /\ 0 \in 0..MaxProcs
    BY BoundsAssumption
  <2>3. sm.rec \in [Record -> RecType] /\ sm.proc \in [Proc -> ProcType]
        /\ sm.told \in [Conn -> {"nothing", "connected", "disconnected"}]
    BY <1>1, <1>2
  <2>4. ASSUME NEW R \in [Record -> RecType], NEW P \in [Proc -> ProcType],
               NEW T \in [Conn -> {"nothing", "connected", "disconnected"}]
        PROVE  [rec |-> R, records |-> 0, proc |-> P, procs |-> 0, told |-> T,
                undefined |-> FALSE] \in StateType
    BY <2>2 DEF StateType
  <2>5. [rec |-> sm.rec, records |-> 0, proc |-> sm.proc, procs |-> 0, told |-> sm.told,
         undefined |-> FALSE] \in StateType
    BY <2>3, <2>4
  <2>6. QED
    BY <2>1, <2>5
<1>4. /\ \A r \in Record : ~sm.rec[r].listed /\ ~sm.rec[r].client.exists /\ sm.rec[r].proc = 0
      /\ \A p \in Proc : /\ sm.proc[p].mStatus = "NONE" /\ sm.proc[p].mExistService = <<>>
                         /\ sm.proc[p].sent = <<>> /\ sm.proc[p].attach = <<>>
      /\ \A p \in Proc : Exists(sm, p) = {} /\ Queue(sm, p) = {}
  <2>1. /\ ~NoRecord.listed /\ ~NoRecord.client.exists /\ NoRecord.proc = 0
        /\ NoProc.mStatus = "NONE" /\ NoProc.mExistService = <<>> /\ NoProc.sent = <<>> /\ NoProc.attach = <<>>
    BY DEF NoRecord, NoClient, NoProc
  <2>2. ToSet(<<>>) = {}
    BY DEF ToSet
  <2>3. QED
    BY <1>1, <2>1, <2>2 DEF Exists, Queue
<1>5. Base(sm)
  <2>1. Fresh(sm)
    BY <1>1, <1>4 DEF Fresh
  <2>2. Placed(sm) /\ Idle(sm) /\ Own(sm)
    BY <1>4 DEF Placed, Idle, Own
  <2>3. \A r \in Record : Counted(sm, r) /\ Sound(sm, r)
    BY <1>4 DEF Counted, Sound
  <2>4. QED
    BY <1>3, <2>1, <2>2, <2>3 DEF Base
<1>6. Orderly(sm, Ended(sm), 0)
  <2>1. \A p \in Proc : Tidy(sm, p) /\ Going(sm, p) /\ QueueOK(sm, p)
    <3>1. InOrder(<<>>)
      BY DEF InOrder
    <3>2. QED
      BY <3>1, <1>4 DEF Tidy, Going, QueueOK
  <2>2. TasksDiffer(sm)
    <3>1. \A p \in Proc : DOMAIN sm.proc[p].attach = {}
      BY <1>4
    <3>2. QED
      BY <3>1 DEF TasksDiffer
  <2>3. \A r \in Record : Finished(sm, r)
    BY <1>4 DEF Finished
  <2>4. OneOfAName(sm, 0)
    <3>1. \A r \in Record : r # 0
      BY BoundsAssumption DEF Record
    <3>2. QED
      BY <3>1, <2>3, <1>4 DEF OneOfAName, Alive
  <2>5. QED
    BY <1>1, <2>1, <2>2, <2>3, <2>4 DEF Orderly
<1>7. QED
  BY <1>5, <1>6, BoundsAssumption DEF Inv, IInv, Init

\* What careful callers wait for.
LEMMA SettledIsFree ==
    ASSUME NEW r \in Record, Settled(r)
    PROVE  ~sm.rec[r].asked /\ Free(sm, r)
BY DEF Settled, OnItsWay, Free, Queue, ToSet

\* What the guard of the requests of careful callers gives.
LEMMA MayAskFacts ==
    ASSUME NEW name, MayAsk(name), careful
    PROVE  /\ \A p \in Proc : \A i \in DOMAIN sm.proc[p].attach : sm.proc[p].attach[i].name # name
           /\ \A r \in Found(sm, name) : ~sm.rec[r].asked /\ Free(sm, r)
<1>1. \A r \in Found(sm, name) : r \in Record /\ Settled(r)
  BY DEF MayAsk, Found
<1>2. \A r \in Found(sm, name) : ~sm.rec[r].asked /\ Free(sm, r)
  BY <1>1, SettledIsFree
<1>3. QED
  BY <1>2 DEF MayAsk, Launching

\* Every step keeps the inductive invariant.
LEMMA NextIInv ==
    ASSUME IInv, [Next]_vars
    PROVE  IInv'
<1> DEFINE Good(n) == Inv(n, careful, Ended(n), 0)
<1>1. Inv(sm, careful, Ended(sm), 0) /\ sm \in StateType /\ Base(sm)
  BY DEF IInv, Inv, Base
<1>2. ASSUME Good(sm'), Request \/ UNCHANGED <<careful, requests>> PROVE IInv'
  <2>1. careful' = careful /\ requests' \in 0..MaxRequests
    <3>1. requests \in 0..MaxRequests
      BY DEF IInv
    <3>2. QED
      BY <1>2, <3>1, BoundsAssumption DEF Request
  <2>2. Inv(sm, careful, Ended(sm), 0)' <=> Inv(sm', careful', Ended(sm'), 0)
    BY DEF Inv, Base, Fresh, Placed, Idle, Own, Counted, Sound, HasApp, Up, Exists, Queue, Orderly, Tidy,
           Going, QueueOK, TasksDiffer, OneOfAName, Alive, Finished, Ended
  <2>3. QED
    BY <1>2, <2>1, <2>2 DEF IInv
<1>3. ASSUME NEW name \in Name, StartService(name) PROVE IInv'
  <2>1. sm' \in StartServiceReal(sm, name, NoConn) /\ Request /\ MayAsk(name)
    BY <1>3 DEF StartService
  <2>2. careful => /\ \A p \in Proc : \A i \in DOMAIN sm.proc[p].attach : sm.proc[p].attach[i].name # name
                   /\ \A r \in Found(sm, name) : /\ ~sm.rec[r].asked /\ Free(sm, r)
                                                 /\ sm.rec[r].mStartFlag = {}
    BY <1>3, <2>1, MayAskFacts DEF StartService
  <2>3. Good(sm')
    BY <1>1, <2>1, <2>2, StartServiceRealInv
  <2>4. QED
    BY <1>2, <2>1, <2>3
<1>4. ASSUME NEW name \in Name, NEW conn \in Conn, BindService(name, conn) PROVE IInv'
  <2>1. sm' \in StartServiceReal(sm, name, conn) /\ Request /\ MayAsk(name) /\ conn # NoConn
    BY <1>4, ConnAssumption DEF BindService
  <2>2. careful => /\ \A p \in Proc : \A i \in DOMAIN sm.proc[p].attach : sm.proc[p].attach[i].name # name
                   /\ \A r \in Found(sm, name) : /\ ~sm.rec[r].asked /\ Free(sm, r)
                                                 /\ conn = NoConn => sm.rec[r].mStartFlag = {}
    BY <2>1, MayAskFacts
  <2>3. Good(sm')
    BY <1>1, <2>1, <2>2, StartServiceRealInv
  <2>4. QED
    BY <1>2, <2>1, <2>3
<1>5. ASSUME NEW conn \in Conn, UnbindService(conn) PROVE IInv'
  <2>1. careful => \A r \in Record : conn \in sm.rec[r].mConnectRecord => Free(sm, r)
    BY <1>5, SettledIsFree DEF UnbindService
  <2>2. Request /\ sm' = UnbindConnection(sm, conn)
    BY <1>5 DEF UnbindService
  <2>3. Good(UnbindConnection(sm, conn))
    BY <1>1, <2>1, UnbindConnectionInv
  <2>4. QED
    BY <1>2, <2>2, <2>3
<1>6. ASSUME NEW r \in Record, sm.rec[r].listed, careful => Free(sm, r),
             Request, sm' = StopServiceReal(sm, r)
      PROVE  IInv'
  <2>1. Good(StopServiceReal(sm, r))
    BY <1>1, <1>6, StopServiceRealInv
  <2>2. QED
    BY <1>2, <1>6, <2>1
<1>7. ASSUME NEW name \in Name, StopService(name) PROVE IInv'
  <2>1. PICK r \in Found(sm, name) : sm' = StopServiceReal(sm, r)
    BY <1>7 DEF StopService
  <2>2. r \in Record /\ sm.rec[r].listed
    BY DEF Found
  <2>3. Request /\ (careful => Free(sm, r))
    BY <1>7, MayAskFacts DEF StopService
  <2>4. QED
    BY <1>6, <2>1, <2>2, <2>3
<1>8. ASSUME NEW r \in Record, StopServiceByToken(r) PROVE IInv'
  BY <1>6, <1>8, SettledIsFree DEF StopServiceByToken
<1>9. ASSUME PostIntent PROVE IInv'
  <2>1. PICK p \in In(sm, "RUNNING") : sm' = CheckService(sm, p)
    BY <1>9 DEF PostIntent
  <2>2. p \in Proc /\ sm.proc[p].mStatus = "RUNNING"
    BY DEF In
  <2>3. Good(CheckService(sm, p))
    BY <1>1, <2>2, CheckServiceInv
  <2>4. QED
    BY <1>2, <1>9, <2>1, <2>3 DEF PostIntent
<1>10. ASSUME NEW p \in Proc, StopProcess(p) PROVE IInv'
  <2>1. Good(StopApplication(sm, p))
    BY <1>1, StopProcessInv
  <2>2. QED
    BY <1>2, <1>10, <2>1 DEF StopProcess
<1>11. ASSUME NEW p \in Proc, Attach(p) PROVE IInv'
  <2>1. /\ sm.proc[p].mStatus = "ATTACHING" /\ sm.records + Len(sm.proc[p].attach) <= MaxRecords
        /\ sm' = Attached(sm, p) /\ UNCHANGED <<careful, requests>>
    BY <1>11 DEF Attach
  <2>2. Good(Attached(sm, p))
    BY <1>1, <2>1, AttachedInv
  <2>3. QED
    BY <1>2, <2>1, <2>2
<1>12. ASSUME NEW p \in Proc, Handle(p) PROVE IInv'
  <2>1. /\ sm.proc[p].sent # <<>> /\ UNCHANGED <<careful, requests>>
        /\ sm' = Handled(Popped(sm, p), p, Head(sm.proc[p].sent))
    BY <1>12 DEF Handle, Popped
  <2>2. Good(Handled(Popped(sm, p), p, Head(sm.proc[p].sent)))
    BY <1>1, <2>1, HandleInv
  <2>3. QED
    BY <1>2, <2>1, <2>2
<1>13. ASSUME NEW p \in Proc, Exit(p) PROVE IInv'
  <2>1. /\ sm.proc[p].mStatus \in {"ATTACHING", "RUNNING", "STOPPING"}
        /\ sm' = Exited(sm, p) /\ UNCHANGED <<careful, requests>>
    BY <1>13 DEF Exit, Exited
  <2>2. Good(Exited(sm, p))
    BY <1>1, <2>1, ExitInv
  <2>3. QED
    BY <1>2, <2>1, <2>2
<1>14. CASE UNCHANGED vars
  BY <1>1, <1>2, <1>14 DEF vars
<1>15. CASE Next
  BY <1>15, <1>3, <1>4, <1>5, <1>7, <1>8, <1>9, <1>10, <1>11, <1>12, <1>13 DEF Next
<1>16. QED
  BY <1>14, <1>15

\* The inductive invariant of the services.
THEOREM Invariant == Spec => []IInv
<1>1. IInv /\ [Next]_vars => IInv'
  BY NextIInv
<1>2. QED
  BY <1>1, InitIInv, PTL DEF Spec

\* Every record, message and task has its type, and a process that is not up
\* has neither services nor clients.
THEOREM TypeCorrect == Spec => []TypeOK
<1>1. IInv => TypeOK
  <2> SUFFICES ASSUME IInv PROVE TypeOK
    OBVIOUS
  <2>1. sm \in StateType /\ Idle(sm) /\ careful \in Manners /\ requests \in 0..MaxRequests
    BY DEF IInv, Inv, Base
  <2>2. \A p \in Proc : sm.proc[p].mStatus \notin {"RUNNING", "STOPPING"} =>
          /\ sm.proc[p].mExistService = <<>>
          /\ \A r \in Record : sm.rec[r].proc = p => ~sm.rec[r].client.exists
    BY <2>1 DEF Idle, Up
  <2>3. QED
    BY <2>1, <2>2 DEF TypeOK, StateType, RecType, ClientType, ProcType, Task, Message, Ops
<1>2. QED
  BY <1>1, Invariant, PTL

\* Whatever callers do, a service that is started or bound and has not been
\* stopped is in its process's mExistServices, so that the end of another
\* service does not stop the process under it.
THEOREM LiveIsCountedAlways == Spec => []LiveIsCounted
<1>1. IInv => LiveIsCounted
  BY DEF IInv, Inv, Base, Counted, Exists, LiveIsCounted
<1>2. QED
  BY <1>1, Invariant, PTL

\* Whatever callers do, a service is marked as bound exactly while it has
\* connections, and a process that ends leaves only those of its services in
\* mServices that were being stopped.
THEOREM RecordsAreSoundAlways == Spec => []RecordsAreSound
<1>1. IInv => (TypeOK => RecordsAreSound)
  BY DEF IInv, Inv, Base, Sound, RecordsAreSound
<1>2. QED
  BY <1>1, Invariant, TypeCorrect, PTL

\* No request of careful callers crashes the service manager: the entries
\* that checkService() dereferences are those of records that exist.
THEOREM CarefulIsSafeAlways == Spec => []CarefulIsSafe
<1>1. IInv => CarefulIsSafe
  BY DEF IInv, Inv, Orderly, CarefulIsSafe, NeverUndefined
<1>2. QED
  BY <1>1, Invariant, PTL

\* Until it is told to terminate, a service of a client of careful callers is
\* one that the server knows, and there is one of each name.
THEOREM ClientAgreesAlways == Spec => []ClientAgrees
<1>1. IInv => ClientAgrees
  <2> SUFFICES ASSUME IInv, careful PROVE ClientAgrees
    BY DEF ClientAgrees
  <2>1. Orderly(sm, Ended(sm), 0)
    BY DEF IInv, Inv
  <2>2. ASSUME NEW r \in Record, sm.rec[r].client.exists, ~sm.proc[sm.rec[r].proc].terminated
        PROVE  sm.rec[r].listed
    <3>1. r \notin Ended(sm) /\ ~Finished(sm, r)
      BY <2>2 DEF Ended, Finished
    <3>2. QED
      BY <2>1, <3>1 DEF Orderly
  <2>3. \A r \in Record : sm.rec[r].client.exists => Alive(sm, r, 0)
    BY DEF Alive, Finished
  <2>4. QED
    BY <2>1, <2>2, <2>3 DEF ClientAgrees, Orderly, OneOfAName
<1>2. QED
  BY <1>1, Invariant, PTL

-----------------------------------------------------------------------------
(* What the connections are told, while callers are careful.  E is the set *)
(* of the connections that an unbind() in progress is about.               *)

\* The messages for a record.
Mail(s, r) == {m \in Message : m.r = r /\ \E p \in Proc : m \in Queue(s, p)}
Expects(s, r, ops) == \E m \in Mail(s, r) : m.op \in ops

\* A record of a process that is up reaches its service: the client has it, or a message
\* that creates it is on its way; a bound one has been bound, or a BIND is on its way; one
\* that is not used is being unbound, one that is being stopped has a STOP on its way.
Reached(s, r) ==
    /\ ~s.rec[r].client.exists => ~s.rec[r].client.binded
    /\ s.rec[r].mServiceBinder => s.rec[r].name \in HasBinder
    /\ s.rec[r].listed /\ HasApp(s, r) =>
          /\ s.rec[r].client.exists \/ Expects(s, r, {"START", "BIND"})
          /\ \/ s.rec[r].client.binded \/ Expects(s, r, {"BIND"})
             \/ "BINDED" \notin s.rec[r].mStartFlag /\ ~Expects(s, r, {"UNBIND"})
          /\ s.rec[r].mServiceBinder => s.rec[r].client.binded
          /\ ~s.rec[r].asked /\ s.rec[r].mStartFlag = {} => Expects(s, r, {"UNBIND"})
          /\ s.rec[r].asked => Expects(s, r, {"STOP"})

\* A service that goes on, or whose process was told to terminate.
Held(s, r) == \/ s.rec[r].listed /\ ~s.rec[r].asked
              \/ s.rec[r].proc # 0 /\ s.proc[s.rec[r].proc].terminated

\* A connection is to be told by a BIND only of a service that it is bound to.
Addressed(s, r) == \A m \in Mail(s, r) :
    m.op = "BIND" => m.conn \in s.rec[r].mConnectRecord /\ Held(s, r)

\* A connection of a service that goes on has been told of it, or will be.
Heard(s, r, E) ==
    s.rec[r].listed /\ HasApp(s, r) /\ ~s.rec[r].asked /\ s.rec[r].name \in HasBinder =>
    \A c \in s.rec[r].mConnectRecord \ E :
        s.told[c] = "connected" \/ \E m \in Mail(s, r) : m.op = "BIND" /\ m.conn = c

Answered(s, r, E) == Reached(s, r) /\ Addressed(s, r) /\ Heard(s, r, E)

\* A connection is used once, for a listed record or for a task that waits for a process.
Uses(s, r, c) == s.rec[r].listed /\ c \in s.rec[r].mConnectRecord
Asks(s, p, i) == s.proc[p].attach[i].conn
Busy(s, c) == \/ \E r \in Record : Uses(s, r, c)
              \/ \E p \in Proc : \E i \in DOMAIN s.proc[p].attach : Asks(s, p, i) = c
Single(s) ==
    /\ \A r, q \in Record : \A c \in Conn : Uses(s, r, c) /\ Uses(s, q, c) => r = q
    /\ \A p \in Proc : \A i \in DOMAIN s.proc[p].attach : \A r \in Record : ~Uses(s, r, Asks(s, p, i))
    /\ \A p, q \in Proc : \A i \in DOMAIN s.proc[p].attach, j \in DOMAIN s.proc[q].attach :
          Asks(s, p, i) = Asks(s, q, j) /\ Asks(s, p, i) # NoConn => p = q /\ i = j

\* A connection that believes in a service is one of a service that goes on, or of one
\* whose process was told to terminate.
Believer(s, r, c) == c \in s.rec[r].mConnectRecord /\ s.rec[r].name \in HasBinder /\ Held(s, r)
Believes(s, c) == s.told[c] = "connected" => \E r \in Record : Believer(s, r, c)

\* A process that is waited for is waited for by a task.
Waited(s, p) == s.proc[p].mStatus = "ATTACHING" => s.proc[p].attach # <<>>

Told(s, E) ==
    /\ \A r \in Record : Answered(s, r, E)
    /\ Single(s)
    /\ \A c \in Conn : Believes(s, c)
    /\ \A p \in Proc : Waited(s, p)

\* A process that runs without a service is about to stop one.
Leaving(s, r, p) == /\ s.rec[r].proc = p /\ s.rec[r].listed
                    /\ s.rec[r].asked \/ s.rec[r].mStartFlag = {}
Occupied(s, p) == s.proc[p].mStatus = "RUNNING" /\ s.proc[p].mExistService = <<>> =>
    \E r \in Record : Leaving(s, r, p)

Informed(s, E) == Told(s, E) /\ \A p \in Proc : Occupied(s, p)

-----------------------------------------------------------------------------
(* A step from s to n that concerns record r alone, and the connections.   *)

About(s, n, r) ==
    /\ n \in StateType
    /\ \A q \in Record \ {r} : n.rec[q] = s.rec[q] /\ Mail(n, q) = Mail(s, q)
    /\ \A p \in Proc : /\ Up(n, p) <=> Up(s, p)
                       /\ n.proc[p].mStatus = "ATTACHING" => s.proc[p].mStatus = "ATTACHING"
                       /\ n.proc[p].terminated = s.proc[p].terminated
                       /\ n.proc[p].attach = s.proc[p].attach

\* Two such steps of one record are one.
LEMMA AboutIsTransitive ==
    ASSUME NEW s, NEW a, NEW b, NEW r, About(s, a, r), About(a, b, r)
    PROVE  About(s, b, r)
BY DEF About

\* A local step concerns its record alone.
LEMMA AboutOfLocal ==
    ASSUME NEW s \in StateType, NEW r \in Record, NEW n, Local(s, n, r)
    PROVE  About(s, n, r)
<1>1. \A p \in Proc : LocalProc(s.proc[p], n.proc[p], r)
  BY DEF Local
<1>2. ASSUME NEW q \in Record \ {r}, NEW p \in Proc, NEW m, m.r = q
      PROVE  m \in Queue(n, p) <=> m \in Queue(s, p)
  <2>1. q # 0
    BY BoundsAssumption DEF Record
  <2>2. QED
    BY <1>1, <1>2, <2>1 DEF LocalProc, Queue
<1>3. \A q \in Record \ {r} : Mail(n, q) = Mail(s, q)
  BY <1>2 DEF Mail
<1>4. ASSUME NEW p \in Proc
      PROVE  /\ Up(n, p) <=> Up(s, p)
             /\ n.proc[p].mStatus = "ATTACHING" => s.proc[p].mStatus = "ATTACHING"
             /\ n.proc[p].terminated = s.proc[p].terminated
             /\ n.proc[p].attach = s.proc[p].attach
  BY <1>1 DEF LocalProc, Up
<1>5. QED
  BY <1>3, <1>4 DEF About, Local

\* What happens to a connection in a step about r: it is told, or not, and when it
\* believes afterwards then it is for r, or for another record as before.
Hears(s, n, r, c, E) ==
    /\ \/ n.told[c] \in {s.told[c], "connected"}
       \/ n.told[c] = "disconnected" /\ (c \in E \/ Uses(s, r, c))
    /\ n.told[c] = "connected" =>
         Believer(n, r, c) \/ (s.told[c] = "connected" /\ ~Believer(s, r, c))

\* A step about one record keeps Told when that record is answered, uses no
\* connection that is in use, and its connections are told.
LEMMA ToldStep ==
    ASSUME NEW s \in StateType, NEW r \in Record, NEW n, NEW E, Told(s, E), About(s, n, r),
           Answered(n, r, E),
           \A c \in Conn : Uses(n, r, c) => Uses(s, r, c) \/ ~Busy(s, c),
           \A c \in Conn : Hears(s, n, r, c, E)
    PROVE  Told(n, E)
<1>1. /\ n \in StateType
      /\ \A q \in Record : q # r => n.rec[q] = s.rec[q] /\ Mail(n, q) = Mail(s, q)
      /\ \A p \in Proc : /\ Up(n, p) <=> Up(s, p)
                         /\ n.proc[p].mStatus = "ATTACHING" => s.proc[p].mStatus = "ATTACHING"
                         /\ n.proc[p].terminated = s.proc[p].terminated
                         /\ n.proc[p].attach = s.proc[p].attach
  BY DEF About
<1>2. \A q \in Record : /\ s.rec[q].proc # 0 => s.rec[q].proc \in Proc
                        /\ s.rec[q].mConnectRecord \subseteq Conn
                        /\ n.rec[q].mConnectRecord \subseteq Conn
  BY <1>1, Parts, RecParts
<1>3. ASSUME NEW q \in Record, q # r
      PROVE  /\ n.rec[q] = s.rec[q] /\ Mail(n, q) = Mail(s, q)
             /\ HasApp(n, q) <=> HasApp(s, q)
             /\ Held(n, q) <=> Held(s, q)
             /\ \A c : (Uses(n, q, c) <=> Uses(s, q, c)) /\ (Believer(n, q, c) <=> Believer(s, q, c))
  <2>1. (HasApp(n, q) <=> HasApp(s, q)) /\ (Held(n, q) <=> Held(s, q))
    BY <1>1, <1>2, <1>3 DEF HasApp, Held, Up
  <2>2. QED
    BY <2>1, <1>1, <1>3 DEF Uses, Believer
<1>4. ASSUME NEW q \in Record PROVE Answered(n, q, E)
  <2>1. CASE q # r
    <3>1. Answered(s, q, E)
      BY DEF Told
    <3>2. Reached(n, q)
      BY <2>1, <3>1, <1>3 DEF Answered, Reached, Expects
    <3>3. Addressed(n, q)
      BY <2>1, <3>1, <1>3 DEF Answered, Addressed
    <3>4. Heard(n, q, E)
      <4> SUFFICES ASSUME n.rec[q].listed, HasApp(n, q), ~n.rec[q].asked, n.rec[q].name \in HasBinder,
                          NEW c \in n.rec[q].mConnectRecord \ E
                   PROVE  n.told[c] = "connected" \/ \E m \in Mail(n, q) : m.op = "BIND" /\ m.conn = c
        BY DEF Heard
      <4>1. s.told[c] = "connected" \/ \E m \in Mail(s, q) : m.op = "BIND" /\ m.conn = c
        BY <2>1, <3>1, <1>3 DEF Answered, Heard
      <4>2. c \in Conn /\ Uses(s, q, c)
        BY <2>1, <1>2, <1>3 DEF Uses
      <4>3. ~Uses(s, r, c)
        BY <2>1, <4>2 DEF Told, Single
      <4>4. n.told[c] \in {s.told[c], "connected"}
        BY <4>2, <4>3 DEF Hears
      <4>5. QED
        BY <2>1, <4>1, <4>4, <1>3
    <3>5. QED
      BY <3>2, <3>3, <3>4 DEF Answered
  <2>2. QED
    BY <2>1
<1>5. Single(n)
  <2>1. \A p \in Proc : /\ n.proc[p].attach = s.proc[p].attach
                        /\ \A i : Asks(n, p, i) = Asks(s, p, i)
    BY <1>1 DEF Asks
  <2>2. ASSUME NEW q \in Record, NEW c \in Conn, Uses(n, q, c), q # r PROVE ~Uses(n, r, c)
    <3>1. Uses(s, q, c)
      BY <2>2, <1>3
    <3>2. ~Uses(s, r, c) /\ Busy(s, c)
      BY <2>2, <3>1 DEF Told, Single, Busy
    <3>3. QED
      BY <3>2
  <2>3. ASSUME NEW q1 \in Record, NEW q2 \in Record, NEW c \in Conn, Uses(n, q1, c), Uses(n, q2, c)
        PROVE  q1 = q2
    <3>1. CASE q1 = r \/ q2 = r
      BY <3>1, <2>2, <2>3
    <3>2. CASE q1 # r /\ q2 # r
      BY <3>2, <2>3, <1>3 DEF Told, Single
    <3>3. QED
      BY <3>1, <3>2
  <2>4. ASSUME NEW p \in Proc, NEW i \in DOMAIN n.proc[p].attach, NEW q \in Record
        PROVE  ~Uses(n, q, Asks(n, p, i))
    <3>1. i \in DOMAIN s.proc[p].attach /\ Asks(n, p, i) = Asks(s, p, i)
      BY <2>1
    <3>2. ~Uses(s, q, Asks(s, p, i)) /\ Busy(s, Asks(s, p, i))
      BY <3>1 DEF Told, Single, Busy
    <3>3. Uses(n, q, Asks(n, p, i)) => Asks(n, p, i) \in Conn
      BY <1>2 DEF Uses
    <3>4. QED
      BY <3>1, <3>2, <3>3, <1>3
  <2>5. ASSUME NEW p1 \in Proc, NEW p2 \in Proc,
               NEW i \in DOMAIN n.proc[p1].attach, NEW j \in DOMAIN n.proc[p2].attach,
               Asks(n, p1, i) = Asks(n, p2, j), Asks(n, p1, i) # NoConn
        PROVE  p1 = p2 /\ i = j
    BY <2>1, <2>5 DEF Told, Single
  <2>6. QED
    BY <2>3, <2>4, <2>5 DEF Single
<1>6. ASSUME NEW c \in Conn PROVE Believes(n, c)
  <2> SUFFICES ASSUME n.told[c] = "connected" PROVE \E q \in Record : Believer(n, q, c)
    BY DEF Believes
  <2>1. CASE Believer(n, r, c)
    BY <2>1
  <2>2. CASE ~Believer(n, r, c)
    <3>1. s.told[c] = "connected" /\ ~Believer(s, r, c)
      BY <2>2 DEF Hears
    <3>2. PICK q \in Record : Believer(s, q, c)
      BY <3>1 DEF Told, Believes
    <3>3. QED
      BY <3>1, <3>2, <1>3
  <2>3. QED
    BY <2>1, <2>2
<1>7. ASSUME NEW p \in Proc PROVE Waited(n, p)
  BY <1>1 DEF Told, Waited
<1>8. QED
  BY <1>4, <1>5, <1>6, <1>7 DEF Told

\* What one process loses by a step about a record of its own concerns it alone.
LEMMA OccupiedStep ==
    ASSUME NEW s, NEW r \in Record, NEW p, NEW n,
           \A q \in Record \ {r} : n.rec[q] = s.rec[q],
           \A q \in Proc \ {p} : n.proc[q] = s.proc[q],
           s.rec[r].proc \in {0, p}, \A q \in Proc \ {p} : Occupied(s, q), Occupied(n, p)
    PROVE  \A q \in Proc : Occupied(n, q)
<1> SUFFICES ASSUME NEW q \in Proc, q # p PROVE Occupied(n, q)
  OBVIOUS
<1>1. Occupied(s, q) /\ n.proc[q] = s.proc[q] /\ q # 0
  BY DEF Proc
<1>2. ASSUME NEW i \in Record, Leaving(s, i, q) PROVE Leaving(n, i, q)
  BY <1>1, <1>2 DEF Leaving
<1>3. QED
  BY <1>1, <1>2 DEF Occupied

-----------------------------------------------------------------------------
(* What a state shows of record r, which is x: what its connections were   *)
(* told, its messages, and what its process counts.                        *)

Shows(s, r, x, told, mail, exist) ==
    /\ s \in StateType /\ r \in Record /\ x.proc \in Proc
    /\ s.rec[r] = x /\ s.told = told /\ Mail(s, r) = mail
    /\ s.proc[x.proc].mExistService = exist

TellAll(told, S, what) == [c \in Conn |-> IF c \in S THEN what ELSE told[c]]

\* What a state shows of a record that has a process.
LEMMA ShowsIt ==
    ASSUME NEW s \in StateType, NEW r \in Record, s.rec[r].proc # 0
    PROVE  Shows(s, r, s.rec[r], s.told, Mail(s, r), s.proc[s.rec[r].proc].mExistService)
<1>1. s.rec[r].proc \in Proc
  BY Parts, RecParts
<1>2. QED
  BY <1>1 DEF Shows

\* The messages of a record are those in the queue of its process.
LEMMA MailFacts ==
    ASSUME NEW s, Base(s), NEW r \in Record, NEW m \in Mail(s, r)
    PROVE  /\ s.rec[r].proc \in Proc /\ m \in Queue(s, s.rec[r].proc) /\ HasApp(s, r)
           /\ m \in Message /\ m.r = r /\ m.op # "TERMINATE"
<1>1. PICK p \in Proc : m \in Queue(s, p)
  BY DEF Mail
<1>2. m \in Message /\ m.r = r /\ r # 0
  BY BoundsAssumption DEF Mail, Record
<1>3. m.op # "TERMINATE" /\ s.rec[r].proc = p
  BY <1>1, <1>2 DEF Base, Own
<1>4. Up(s, p) /\ p # 0
  <2>1. ToSet(<<>>) = {}
    BY DEF ToSet
  <2>2. s.proc[p].sent # <<>>
    BY <1>1, <2>1 DEF Queue
  <2>3. QED
    BY <2>2 DEF Base, Idle, Proc
<1>5. QED
  BY <1>1, <1>2, <1>3, <1>4 DEF HasApp, Up

\* Assigning the record.
LEMMA ShowsRec ==
    ASSUME NEW s, NEW r, NEW x, NEW told, NEW mail, NEW exist, Shows(s, r, x, told, mail, exist),
           NEW y \in RecType, y.proc = x.proc, NEW n, n = [s EXCEPT !.rec[r] = y]
    PROVE  Shows(n, r, y, told, mail, exist)
<1>1. /\ n \in StateType /\ n.rec[r] = y /\ n.told = s.told /\ n.proc = s.proc
  BY DEF Shows, StateType
<1>2. Mail(n, r) = Mail(s, r)
  BY <1>1 DEF Mail, Queue
<1>3. QED
  BY <1>1, <1>2 DEF Shows

\* Telling connections.
LEMMA ShowsTell ==
    ASSUME NEW s, NEW r, NEW x, NEW told, NEW mail, NEW exist, Shows(s, r, x, told, mail, exist),
           NEW S, NEW what \in {"connected", "disconnected"}
    PROVE  Shows(Tell(s, S, what), r, x, TellAll(told, S, what), mail, exist)
<1> DEFINE n == Tell(s, S, what)
<1>1. s \in StateType
  BY DEF Shows
<1>2. n \in StateType /\ n.rec = s.rec /\ n.proc = s.proc
  BY <1>1, TellChange
<1>3. n.told = TellAll(s.told, S, what)
  BY <1>1 DEF Tell, TellAll, StateType
<1> HIDE DEF n
<1>4. Mail(n, r) = Mail(s, r)
  BY <1>2 DEF Mail, Queue
<1>5. Shows(n, r, x, TellAll(told, S, what), mail, exist)
  BY <1>2, <1>3, <1>4 DEF Shows
<1>6. QED
  BY <1>5 DEF n

\* A change of one process tells nobody.
LEMMA OneProcess ==
    ASSUME NEW s \in StateType, NEW p \in Proc, NEW y \in ProcType, NEW n, n = [s EXCEPT !.proc[p] = y]
    PROVE  /\ n \in StateType /\ n.rec = s.rec /\ n.told = s.told /\ n.proc[p] = y
           /\ \A q \in Proc : q # p => n.proc[q] = s.proc[q]
BY DEF StateType

\* A message to the client.
LEMMA ShowsSent ==
    ASSUME NEW s, NEW r, NEW x, NEW told, NEW mail, NEW exist, Shows(s, r, x, told, mail, exist),
           NEW op \in Ops, NEW conn \in Conn \union {NoConn}
    PROVE  Shows(Sent(s, r, op, conn), r, x, told,
                 mail \union {[op |-> op, r |-> r, conn |-> conn]}, exist)
<1> DEFINE n == Sent(s, r, op, conn)
           p == x.proc
           m == [op |-> op, r |-> r, conn |-> conn]
           a == s.proc[p]
           y == [a EXCEPT !.sent = Append(a.sent, m)]
<1>1. /\ s \in StateType /\ r \in Record /\ p \in Proc /\ s.rec[r].proc = p
      /\ a \in ProcType /\ a.sent \in Seq(Message)
  BY Parts, ProcParts DEF Shows
<1>2. m \in Message
  BY <1>1, BoundsAssumption DEF Message, Record
<1>3. /\ Append(a.sent, m) \in Seq(Message)
      /\ ToSet(Append(a.sent, m)) = ToSet(a.sent) \union {m}
  BY <1>1, <1>2, Appended
<1>4. n = [s EXCEPT !.proc[p] = y]
  BY <1>1 DEF Sent
<1>5. /\ y \in ProcType /\ y.sent = Append(a.sent, m) /\ y.mExistService = a.mExistService
  <2> HIDE DEF a, m
  <2>1. QED
    BY <1>1, <1>3 DEF ProcType
<1>6. a = s.proc[p] /\ m.r = r
  OBVIOUS
<1> HIDE DEF n, p, a, y, m
<1>7. /\ n \in StateType /\ n.rec = s.rec /\ n.told = s.told /\ n.proc[p] = y
      /\ \A q \in Proc : q # p => n.proc[q] = s.proc[q]
  BY <1>1, <1>4, <1>5, OneProcess
<1>8. Queue(n, p) = Queue(s, p) \union {m} /\ \A q \in Proc : q # p => Queue(n, q) = Queue(s, q)
  BY <1>3, <1>5, <1>6, <1>7 DEF Queue
<1>9. Mail(n, r) = Mail(s, r) \union {m}
  BY <1>1, <1>2, <1>6, <1>8 DEF Mail
<1>10. Shows(n, r, x, told, mail \union {m}, exist)
  BY <1>1, <1>5, <1>6, <1>7, <1>9 DEF Shows, p
<1>11. QED
  BY <1>10 DEF n, m

\* addService().
LEMMA ShowsAdd ==
    ASSUME NEW s, NEW r, NEW x, NEW told, NEW mail, NEW exist, Shows(s, r, x, told, mail, exist)
    PROVE  Shows(AddService(s, r), r, x, told, mail, Append(exist, r))
<1> DEFINE n == AddService(s, r)
           p == x.proc
           a == s.proc[p]
           y == [a EXCEPT !.mExistService = Append(a.mExistService, r)]
<1>1. /\ s \in StateType /\ r \in Record /\ p \in Proc /\ s.rec[r].proc = p
      /\ a \in ProcType /\ a.mExistService \in Seq(Record)
  BY Parts, ProcParts DEF Shows
<1>2. Append(a.mExistService, r) \in Seq(Record)
  BY <1>1, Appended
<1>3. n = [s EXCEPT !.proc[p] = y]
  BY <1>1 DEF AddService
<1>4. y \in ProcType /\ y.sent = a.sent /\ y.mExistService = Append(a.mExistService, r)
  <2> HIDE DEF a
  <2>1. QED
    BY <1>1, <1>2 DEF ProcType
<1>5. a = s.proc[p]
  OBVIOUS
<1> HIDE DEF n, p, a, y
<1>6. /\ n \in StateType /\ n.rec = s.rec /\ n.told = s.told /\ n.proc[p] = y
      /\ \A q \in Proc : q # p => n.proc[q] = s.proc[q]
  BY <1>1, <1>3, <1>4, OneProcess
<1>7. \A q \in Proc : Queue(n, q) = Queue(s, q)
  BY <1>4, <1>5, <1>6 DEF Queue
<1>8. Mail(n, r) = Mail(s, r)
  BY <1>7 DEF Mail
<1>9. Shows(n, r, x, told, mail, Append(exist, r))
  BY <1>1, <1>4, <1>5, <1>6, <1>8 DEF Shows, p
<1>10. QED
  BY <1>9 DEF n

\* deleteService().
LEMMA ShowsDelete ==
    ASSUME NEW s, NEW r, NEW x, NEW told, NEW mail, NEW exist, Shows(s, r, x, told, mail, exist)
    PROVE  Shows(DeleteService(s, r), r, x, told, mail, SwappedOut(exist, r))
<1> DEFINE n == DeleteService(s, r)
           p == x.proc
           a == s.proc[p]
           y == [a EXCEPT !.mExistService = SwappedOut(a.mExistService, r)]
<1>1. /\ s \in StateType /\ r \in Record /\ p \in Proc /\ s.rec[r].proc = p
      /\ a \in ProcType /\ a.mExistService \in Seq(Record)
  BY Parts, ProcParts DEF Shows
<1>2. SwappedOut(a.mExistService, r) \in Seq(Record)
  BY <1>1, SwappedOutFacts
<1>3. n = [s EXCEPT !.proc[p] = y]
  BY <1>1 DEF DeleteService
<1>4. y \in ProcType /\ y.sent = a.sent /\ y.mExistService = SwappedOut(a.mExistService, r)
  <2> HIDE DEF a
  <2>1. QED
    BY <1>1, <1>2 DEF ProcType
<1>5. a = s.proc[p]
  OBVIOUS
<1> HIDE DEF n, p, a, y
<1>6. /\ n \in StateType /\ n.rec = s.rec /\ n.told = s.told /\ n.proc[p] = y
      /\ \A q \in Proc : q # p => n.proc[q] = s.proc[q]
  <2>1. s \in StateType /\ p \in Proc /\ y \in ProcType
    BY <1>1, <1>4
  <2>2. QED
    BY <1>1, <2>1, <1>3 DEF StateType
<1>7. \A q \in Proc : Queue(n, q) = Queue(s, q)
  BY <1>4, <1>5, <1>6 DEF Queue
<1>8. Mail(n, r) = Mail(s, r)
  BY <1>7 DEF Mail
<1>9. Shows(n, r, x, told, mail, SwappedOut(exist, r))
  BY <1>1, <1>4, <1>5, <1>6, <1>8 DEF Shows, p
<1>10. QED
  BY <1>9 DEF n

\* What stop() shows of a service whose process is up.
LEMMA StopShows ==
    ASSUME NEW s, NEW r, NEW x, NEW told, NEW mail, NEW exist, Shows(s, r, x, told, mail, exist),
           HasApp(s, r)
    PROVE  Shows(Stop(s, r), r, [x EXCEPT !.asked = TRUE],
                 TellAll(told, x.mConnectRecord, "disconnected"),
                 mail \union {[op |-> "STOP", r |-> r, conn |-> NoConn]}, SwappedOut(exist, r))
<1> DEFINE y == [x EXCEPT !.asked = TRUE]
           a == [s EXCEPT !.rec[r].asked = TRUE]
           b == Tell(a, x.mConnectRecord, "disconnected")
           d == DeleteService(b, r)
           said == TellAll(told, x.mConnectRecord, "disconnected")
<1>1. s \in StateType /\ r \in Record /\ x \in RecType /\ s.rec[r] = x
  BY Parts DEF Shows
<1>2. y \in RecType /\ y.proc = x.proc
  <2> HIDE DEF y
  <2>1. QED
    BY <1>1 DEF RecType, y
<1>3. a = [s EXCEPT !.rec[r] = y]
  BY <1>1
<1>4. Stop(s, r) = Sent(d, r, "STOP", NoConn)
  BY <1>1 DEF Stop
<1> HIDE DEF y, a
<1>5. Shows(a, r, y, told, mail, exist)
  BY <1>2, <1>3, ShowsRec
<1>6. Shows(b, r, y, said, mail, exist)
  BY <1>5, ShowsTell
<1> HIDE DEF b, said
<1>7. Shows(d, r, y, said, mail, SwappedOut(exist, r))
  BY <1>6, ShowsDelete
<1> HIDE DEF d
<1>8. Shows(Stop(s, r), r, y, said, mail \union {[op |-> "STOP", r |-> r, conn |-> NoConn]}, SwappedOut(exist, r))
  BY <1>4, <1>7, ShowsSent DEF Ops
<1>9. QED
  BY <1>8 DEF y, said

\* What start() shows of a service whose process is up.
LEMMA StartShows ==
    ASSUME NEW s, NEW r, NEW x, NEW told, NEW mail, NEW exist, Shows(s, r, x, told, mail, exist),
           HasApp(s, r)
    PROVE  Shows(Start(s, r), r, [x EXCEPT !.mStartFlag = x.mStartFlag \union {"STARTED"}], told,
                 mail \union {[op |-> "START", r |-> r, conn |-> NoConn]}, Append(exist, r))
<1> DEFINE flag == x.mStartFlag \union {"STARTED"}
           y == [x EXCEPT !.mStartFlag = flag]
           a == [s EXCEPT !.rec[r].mStartFlag = @ \union {"STARTED"}]
           b == AddService(a, r)
<1>1. s \in StateType /\ r \in Record /\ x \in RecType /\ s.rec[r] = x
  BY Parts DEF Shows
<1>2. flag \in SUBSET Flags
  BY <1>1 DEF RecType, Flags
<1>3. y \in RecType /\ y.proc = x.proc
  <2> HIDE DEF flag
  <2>1. QED
    BY <1>1, <1>2 DEF RecType
<1>4. a = [s EXCEPT !.rec[r] = y]
  BY <1>1
<1>5. Start(s, r) = Sent(b, r, "START", NoConn)
  BY <1>1 DEF Start
<1> HIDE DEF y, a
<1>6. Shows(a, r, y, told, mail, exist)
  BY <1>3, <1>4, ShowsRec
<1>7. Shows(b, r, y, told, mail, Append(exist, r))
  BY <1>6, ShowsAdd
<1> HIDE DEF b
<1>8. Shows(Start(s, r), r, y, told, mail \union {[op |-> "START", r |-> r, conn |-> NoConn]}, Append(exist, r))
  BY <1>5, <1>7, ShowsSent DEF Ops
<1>9. QED
  BY <1>8 DEF y

\* What bind() shows of a service whose process is up.
LEMMA BindShows ==
    ASSUME NEW s, NEW r, NEW x, NEW told, NEW mail, NEW exist, Shows(s, r, x, told, mail, exist),
           HasApp(s, r), NEW conn \in Conn
    PROVE  LET y == [x EXCEPT !.mStartFlag = x.mStartFlag \union {"BINDED"},
                              !.mConnectRecord = x.mConnectRecord \union {conn}]
               e == IF x.mStartFlag = {} THEN Append(exist, r) ELSE exist
           IN IF x.mServiceBinder
              THEN Shows(Bind(s, r, conn), r, y, TellAll(told, {conn}, "connected"), mail, e)
              ELSE Shows(Bind(s, r, conn), r, y, told,
                         mail \union {[op |-> "BIND", r |-> r, conn |-> conn]}, e)
<1> DEFINE flag == x.mStartFlag \union {"BINDED"}
           conns == x.mConnectRecord \union {conn}
           y == [x EXCEPT !.mStartFlag = flag, !.mConnectRecord = conns]
           e == IF x.mStartFlag = {} THEN Append(exist, r) ELSE exist
           a == IF x.mStartFlag = {} THEN AddService(s, r) ELSE s
           b == [a EXCEPT !.rec[r].mStartFlag = @ \union {"BINDED"},
                          !.rec[r].mConnectRecord = @ \union {conn}]
<1>1. s \in StateType /\ r \in Record /\ x \in RecType /\ s.rec[r] = x
  BY Parts DEF Shows
<1>2. flag \in SUBSET Flags /\ conns \in SUBSET Conn
  BY <1>1 DEF RecType, Flags
<1>3. y \in RecType /\ y.proc = x.proc
  <2> DEFINE z == [x EXCEPT !.mStartFlag = flag]
  <2> HIDE DEF flag, conns
  <2>1. z \in RecType /\ z.proc = x.proc
    BY <1>1, <1>2 DEF RecType
  <2>2. y = [z EXCEPT !.mConnectRecord = conns]
    OBVIOUS
  <2> HIDE DEF z, y
  <2>3. QED
    BY <2>1, <2>2, <1>2 DEF RecType
<1>4. Shows(a, r, x, told, mail, e)
  <2>1. CASE x.mStartFlag = {}
    BY <2>1, ShowsAdd
  <2>2. CASE x.mStartFlag # {}
    BY <2>2
  <2>3. QED
    BY <2>1, <2>2
<1>5. Bind(s, r, conn) = IF x.mServiceBinder THEN Tell(b, {conn}, "connected") ELSE Sent(b, r, "BIND", conn)
  BY <1>1 DEF Bind
<1> HIDE DEF a
<1>6. b = [a EXCEPT !.rec[r] = y]
  BY <1>1, <1>4 DEF Shows, StateType
<1> HIDE DEF y, b, e
<1>7. Shows(b, r, y, told, mail, e)
  BY <1>3, <1>4, <1>6, ShowsRec
<1>8. CASE x.mServiceBinder
  <2>1. Shows(Bind(s, r, conn), r, y, TellAll(told, {conn}, "connected"), mail, e)
    BY <1>5, <1>7, <1>8, ShowsTell
  <2>2. QED
    BY <2>1, <1>8 DEF y, e
<1>9. CASE ~x.mServiceBinder
  <2>1. Shows(Bind(s, r, conn), r, y, told, mail \union {[op |-> "BIND", r |-> r, conn |-> conn]}, e)
    BY <1>5, <1>7, <1>9, ShowsSent DEF Ops
  <2>2. QED
    BY <2>1, <1>9 DEF y, e
<1>10. QED
  BY <1>8, <1>9

\* What unbind() shows of a bound service: the connection is told and gone, and the
\* last one of a service whose process is up takes the binding with it.
LEMMA UnbindShows ==
    ASSUME NEW s, NEW r, NEW x, NEW told, NEW mail, NEW exist, Shows(s, r, x, told, mail, exist),
           "BINDED" \in x.mStartFlag, NEW conn \in Conn
    PROVE  LET left == x.mConnectRecord \ {conn}
               flag == x.mStartFlag \ {"BINDED"}
               said == TellAll(told, {conn}, "disconnected")
           IN IF HasApp(s, r) /\ left = {}
              THEN Shows(Unbind(s, r, conn), r,
                         [[x EXCEPT !.mConnectRecord = left] EXCEPT !.mStartFlag = flag], said,
                         mail \union {[op |-> "UNBIND", r |-> r, conn |-> NoConn]},
                         IF flag = {} THEN SwappedOut(exist, r) ELSE exist)
              ELSE Shows(Unbind(s, r, conn), r, [x EXCEPT !.mConnectRecord = left], said, mail, exist)
<1> DEFINE left == x.mConnectRecord \ {conn}
           flag == x.mStartFlag \ {"BINDED"}
           said == TellAll(told, {conn}, "disconnected")
           y == [x EXCEPT !.mConnectRecord = left]
           z == [y EXCEPT !.mStartFlag = flag]
           a == [s EXCEPT !.rec[r].mConnectRecord = @ \ {conn}]
           b == Tell(a, {conn}, "disconnected")
           d == [b EXCEPT !.rec[r].mStartFlag = flag]
           m == [op |-> "UNBIND", r |-> r, conn |-> NoConn]
           n == Sent(d, r, "UNBIND", NoConn)
<1>1. s \in StateType /\ r \in Record /\ x \in RecType /\ s.rec[r] = x
  BY Parts DEF Shows
<1>2. left \in SUBSET Conn /\ flag \in SUBSET Flags
  BY <1>1 DEF RecType
<1>3. y \in RecType /\ y.proc = x.proc
  <2> HIDE DEF left
  <2>1. QED
    BY <1>1, <1>2 DEF RecType
<1>4. z \in RecType /\ z.proc = x.proc
  <2> HIDE DEF y, flag
  <2>1. QED
    BY <1>2, <1>3 DEF RecType
<1>5. a = [s EXCEPT !.rec[r] = y]
  BY <1>1
<1>6. Unbind(s, r, conn) = IF ~HasApp(s, r) \/ left # {} THEN b
                           ELSE IF flag = {} THEN DeleteService(n, r) ELSE n
  <2>1. CASE ~HasApp(s, r)
    BY <2>1, <1>1 DEF Unbind
  <2>2. CASE HasApp(s, r) /\ left # {}
    BY <2>2, <1>1 DEF Unbind
  <2>3. CASE HasApp(s, r) /\ left = {}
    BY <2>3, <1>1 DEF Unbind
  <2>4. QED
    BY <2>1, <2>2, <2>3
<1> HIDE DEF y, a
<1>7. Shows(a, r, y, told, mail, exist)
  BY <1>3, <1>5, ShowsRec
<1>8. Shows(b, r, y, said, mail, exist)
  BY <1>7, ShowsTell
<1>9. d = [b EXCEPT !.rec[r] = z]
  <2> HIDE DEF b, flag
  <2>1. QED
    BY <1>8 DEF Shows, StateType
<1> HIDE DEF b, z, d, said, left, flag
<1>10. Shows(d, r, z, said, mail, exist)
  BY <1>3, <1>4, <1>8, <1>9, ShowsRec
<1>11. Shows(n, r, z, said, mail \union {m}, exist)
  BY <1>10, ShowsSent DEF Ops
<1> HIDE DEF n, m
<1>12. CASE HasApp(s, r) /\ left = {}
  <2>1. CASE flag = {}
    <3>1. Shows(DeleteService(n, r), r, z, said, mail \union {m}, SwappedOut(exist, r))
      BY <1>11, ShowsDelete
    <3>2. QED
      BY <2>1, <3>1, <1>6, <1>12 DEF z, y, m, said, left, flag
  <2>2. CASE flag # {}
    BY <2>2, <1>6, <1>11, <1>12 DEF z, y, m, said, left, flag
  <2>3. QED
    BY <2>1, <2>2
<1>13. CASE ~(HasApp(s, r) /\ left = {})
  BY <1>6, <1>8, <1>13 DEF y, said, left
<1>14. QED
  BY <1>12, <1>13

-----------------------------------------------------------------------------
(* What the messages show of their service.                                *)

\* The server's side of y is that of x, and so is what the client has done.
Served(x, y) ==
    /\ ClientOnly(x, y) /\ y.mServiceBinder = x.mServiceBinder
    /\ y.client.exists = x.client.exists /\ y.client.binded = x.client.binded

\* The client notes the status that it reports.
LEMMA NotesShows ==
    ASSUME NEW s, NEW r, NEW x, NEW told, NEW mail, NEW exist, Shows(s, r, x, told, mail, exist),
           NEW status \in CREATING..DESTROYED
    PROVE  \E y : /\ Shows([s EXCEPT !.rec[r].client.mStatus = status], r, y, told, mail, exist)
                  /\ Served(x, y)
<1> DEFINE y == [x EXCEPT !.client = [x.client EXCEPT !.mStatus = status]]
           n == [s EXCEPT !.rec[r].client.mStatus = status]
<1>1. s \in StateType /\ r \in Record /\ x \in RecType /\ s.rec[r] = x
  BY Parts DEF Shows
<1>2. y \in RecType /\ Served(x, y)
  BY <1>1 DEF Served, ClientOnly, RecType, ClientType
<1>3. n = [s EXCEPT !.rec[r] = y]
  BY <1>1
<1>4. y.proc = x.proc
  BY <1>2 DEF Served, ClientOnly
<1> HIDE DEF y, n
<1>5. Shows(n, r, y, told, mail, exist)
  BY <1>2, <1>3, <1>4, ShowsRec
<1>6. QED
  BY <1>2, <1>5 DEF n

\* The server notes the status that is reported.
LEMMA StatusShows ==
    ASSUME NEW s, NEW r, NEW x, NEW told, NEW mail, NEW exist, Shows(s, r, x, told, mail, exist),
           NEW status \in CREATING..DESTROYED
    PROVE  \E y : Shows([s EXCEPT !.rec[r].mStatus = status], r, y, told, mail, exist) /\ Served(x, y)
<1> DEFINE y == [x EXCEPT !.mStatus = status]
           n == [s EXCEPT !.rec[r].mStatus = status]
<1>1. s \in StateType /\ r \in Record /\ x \in RecType /\ s.rec[r] = x
  BY Parts DEF Shows
<1>2. y \in RecType /\ Served(x, y)
  BY <1>1 DEF Served, ClientOnly, RecType, ClientType
<1>3. n = [s EXCEPT !.rec[r] = y]
  BY <1>1
<1>4. y.proc = x.proc
  BY <1>2 DEF Served, ClientOnly
<1> HIDE DEF y, n
<1>5. Shows(n, r, y, told, mail, exist)
  BY <1>2, <1>3, <1>4, ShowsRec
<1>6. QED
  BY <1>2, <1>5 DEF n

\* What is served twice is served.
LEMMA ServedIsTransitive ==
    ASSUME NEW x, NEW y, NEW z, Served(x, y), Served(y, z)
    PROVE  Served(x, z)
BY DEF Served, ClientOnly

\* A report that leaves the service.
LEMMA ReportShows ==
    ASSUME NEW s, NEW r, NEW x, NEW told, NEW mail, NEW exist, Shows(s, r, x, told, mail, exist),
           NEW status \in {CREATED, STARTED, BINDED}
    PROVE  \E y : Shows(Report(s, r, status), r, y, told, mail, exist) /\ Served(x, y)
<1> DEFINE a == [s EXCEPT !.rec[r].client.mStatus = status]
<1>1. status \in CREATING..DESTROYED /\ status # UNBINDED /\ status # DESTROYED
  OBVIOUS
<1>2. Report(s, r, status) = ReportServiceStatus(a, r, status)
  BY DEF Report
<1>3. PICK y : Shows(a, r, y, told, mail, exist) /\ Served(x, y)
  BY <1>1, NotesShows
<1> HIDE DEF a
<1>4. CASE a.rec[r].listed
  <2>1. Report(s, r, status) = [a EXCEPT !.rec[r].mStatus = status]
    BY <1>1, <1>2, <1>4 DEF ReportServiceStatus
  <2>2. PICK z : Shows([a EXCEPT !.rec[r].mStatus = status], r, z, told, mail, exist) /\ Served(y, z)
    BY <1>1, <1>3, StatusShows
  <2>3. QED
    BY <2>1, <2>2, <1>3, ServedIsTransitive
<1>5. CASE ~a.rec[r].listed
  BY <1>2, <1>3, <1>5 DEF ReportServiceStatus
<1>6. QED
  BY <1>4, <1>5

\* What the client has made of a service that is created: no more than that.
Makes(x, y) ==
    /\ ClientOnly(x, y) /\ y.mServiceBinder = x.mServiceBinder /\ y.client.exists
    /\ (y.client.binded <=> x.client.exists /\ x.client.binded)

\* The creation of the Service.
LEMMA CreatedShows ==
    ASSUME NEW s, NEW r, NEW x, NEW told, NEW mail, NEW exist, Shows(s, r, x, told, mail, exist)
    PROVE  \E y : Shows(Created(s, r), r, y, told, mail, exist) /\ Makes(x, y)
<1> DEFINE made == IF s.rec[r].client.exists THEN s
                   ELSE [s EXCEPT !.rec[r].client = [NoClient EXCEPT !.exists = TRUE]]
<1>1. s \in StateType /\ r \in Record /\ x \in RecType /\ s.rec[r] = x
  BY Parts DEF Shows
<1>2. Created(s, r) = IF made.rec[r].client.mStatus = CREATING THEN Report(made, r, CREATED) ELSE made
  BY DEF Created
<1>3. PICK y : Shows(made, r, y, told, mail, exist) /\ Makes(x, y)
  <2>1. CASE s.rec[r].client.exists
    <3>1. Makes(x, x)
      BY <2>1, <1>1 DEF Makes, ClientOnly, RecType, ClientType
    <3>2. QED
      BY <2>1, <3>1
  <2>2. CASE ~s.rec[r].client.exists
    <3> DEFINE new == [NoClient EXCEPT !.exists = TRUE]
               y == [x EXCEPT !.client = new]
    <3>1. new \in ClientType /\ new.exists /\ ~new.binded
      <4>1. NoClient \in ClientType /\ ~NoClient.binded
        BY DEF NoClient, ClientType
      <4>2. QED
        BY <4>1 DEF ClientType
    <3>2. made = [s EXCEPT !.rec[r] = y]
      BY <1>1, <2>2
    <3> HIDE DEF new, made
    <3>3. /\ y \in RecType /\ ClientOnly(x, y) /\ y.client = new
          /\ y.mServiceBinder = x.mServiceBinder
      BY <1>1, <3>1 DEF RecType, ClientOnly
    <3> HIDE DEF y
    <3>4. Makes(x, y) /\ y.proc = x.proc
      BY <3>1, <3>3, <1>1, <2>2 DEF Makes, ClientOnly
    <3>5. QED
      BY <3>2, <3>3, <3>4, ShowsRec
  <2>3. QED
    BY <2>1, <2>2
<1> HIDE DEF made
<1>4. CASE made.rec[r].client.mStatus = CREATING
  <2>1. PICK z : Shows(Report(made, r, CREATED), r, z, told, mail, exist) /\ Served(y, z)
    <3>1. CREATED \in {CREATED, STARTED, BINDED}
      OBVIOUS
    <3> HIDE DEF CREATED, STARTED, BINDED
    <3>2. QED
      BY <3>1, <1>3, ReportShows
  <2>2. Makes(x, z)
    BY <2>1, <1>3 DEF Makes, Served, ClientOnly
  <2>3. QED
    BY <2>1, <2>2, <1>2, <1>4
<1>5. CASE made.rec[r].client.mStatus # CREATING
  BY <1>2, <1>3, <1>5
<1>6. QED
  BY <1>4, <1>5

\* START.
LEMMA OnStartShows ==
    ASSUME NEW s, NEW r, NEW x, NEW told, NEW mail, NEW exist, Shows(s, r, x, told, mail, exist)
    PROVE  \E y : Shows(OnStart(s, r), r, y, told, mail, exist) /\ Makes(x, y)
<1>1. PICK y : Shows(Created(s, r), r, y, told, mail, exist) /\ Makes(x, y)
  BY CreatedShows
<1>2. PICK z : Shows(Report(Created(s, r), r, STARTED), r, z, told, mail, exist) /\ Served(y, z)
  <2>1. STARTED \in {CREATED, STARTED, BINDED}
    OBVIOUS
  <2> HIDE DEF CREATED, STARTED, BINDED
  <2>2. QED
    BY <2>1, <1>1, ReportShows
<1>3. Makes(x, z)
  BY <1>1, <1>2 DEF Makes, Served, ClientOnly
<1>4. QED
  BY <1>2, <1>3 DEF OnStart

\* What a BIND makes of a service: it is created and bound, and its binder is published.
Binds(x, y) ==
    /\ ClientOnly(x, y)
    /\ y.mServiceBinder => x.mServiceBinder \/ x.name \in HasBinder
    /\ y.client.exists /\ y.client.binded

\* BIND.
LEMMA OnBindShows ==
    ASSUME NEW s, NEW r, NEW x, NEW told, NEW mail, NEW exist, Shows(s, r, x, told, mail, exist),
           NEW conn
    PROVE  \E y : /\ Shows(OnBind(s, r, conn), r, y,
                           IF x.name \in HasBinder THEN TellAll(told, {conn}, "connected") ELSE told,
                           mail, exist)
                  /\ Binds(x, y)
<1> DEFINE made == Created(s, r)
           bound == IF made.rec[r].client.mIsBinded THEN made
                    ELSE [PublishService(made, r) EXCEPT !.rec[r].client.mIsBinded = TRUE]
           said == IF x.name \in HasBinder THEN TellAll(told, {conn}, "connected") ELSE told
           t == IF s.rec[r].name \in HasBinder THEN Tell(bound, {conn}, "connected") ELSE bound
           n == [t EXCEPT !.rec[r].client.binded = TRUE]
<1>1. s \in StateType /\ r \in Record /\ x \in RecType /\ s.rec[r] = x
  BY Parts DEF Shows
<1>2. OnBind(s, r, conn) = Report(n, r, BINDED)
  BY DEF OnBind
<1>3. PICK w : Shows(made, r, w, told, mail, exist) /\ Makes(x, w)
  BY CreatedShows
<1> HIDE DEF made
<1>4. made \in StateType /\ w \in RecType /\ made.rec[r] = w
  BY <1>3, Parts DEF Shows
<1>5. PICK y : /\ Shows(bound, r, y, told, mail, exist)
               /\ ClientOnly(x, y) /\ y.client.exists
               /\ y.mServiceBinder => x.mServiceBinder \/ x.name \in HasBinder
  <2>1. CASE made.rec[r].client.mIsBinded
    BY <2>1, <1>3 DEF Makes
  <2>2. CASE ~made.rec[r].client.mIsBinded
    <3> DEFINE binder == IF w.listed THEN w.name \in HasBinder ELSE w.mServiceBinder
               x1 == [w EXCEPT !.mServiceBinder = binder]
               y1 == [x1 EXCEPT !.client = [x1.client EXCEPT !.mIsBinded = TRUE]]
               a == PublishService(made, r)
    <3>1. binder \in BOOLEAN
      <4>1. w.mServiceBinder \in BOOLEAN
        BY <1>4, RecParts
      <4>2. (w.name \in HasBinder) \in BOOLEAN
        OBVIOUS
      <4>3. QED
        BY <4>1, <4>2
    <3>2. binder => w.mServiceBinder \/ w.name \in HasBinder
      OBVIOUS
    <3>3. a = [made EXCEPT !.rec[r] = x1]
      <4>1. CASE w.listed
        BY <4>1, <1>4 DEF PublishService
      <4>2. CASE ~w.listed
        <5>1. x1 = w
          BY <4>2, <1>4 DEF RecType
        <5>2. [made EXCEPT !.rec[r] = w] = made
          BY <1>1, <1>4 DEF StateType
        <5>3. a = made
          BY <4>2, <1>4 DEF PublishService
        <5> HIDE DEF x1, a
        <5>4. QED
          BY <5>1, <5>2, <5>3
      <4>3. QED
        BY <4>1, <4>2
    <3> HIDE DEF binder
    <3>4. /\ x1 \in RecType /\ ClientOnly(w, x1) /\ x1.client = w.client
          /\ x1.mServiceBinder = binder
      BY <3>1, <1>4 DEF ClientOnly, RecType
    <3> HIDE DEF x1, a
    <3>5. y1 \in RecType /\ ClientOnly(x1, y1) /\ y1.client.exists = x1.client.exists
          /\ y1.mServiceBinder = x1.mServiceBinder
      BY <3>4 DEF ClientOnly, RecType, ClientType
    <3>6. Shows(a, r, x1, told, mail, exist)
      BY <3>3, <3>4, <1>3, ShowsRec DEF ClientOnly
    <3>7. a.rec[r] = x1 /\ a \in StateType
      BY <3>6 DEF Shows
    <3>8. bound = [a EXCEPT !.rec[r] = y1]
      BY <2>2, <3>7 DEF a
    <3> HIDE DEF y1, bound
    <3>9. Shows(bound, r, y1, told, mail, exist)
      BY <3>5, <3>6, <3>8, ShowsRec DEF ClientOnly
    <3>10. ClientOnly(x, y1)
      BY <3>4, <3>5, <1>3 DEF ClientOnly, Makes
    <3>11. w.mServiceBinder = x.mServiceBinder /\ w.name = x.name /\ w.client.exists
      BY <1>3 DEF Makes, ClientOnly
    <3>12. y1.client.exists /\ (y1.mServiceBinder => x.mServiceBinder \/ x.name \in HasBinder)
      BY <3>2, <3>4, <3>5, <3>11
    <3>13. QED
      BY <3>9, <3>10, <3>12
  <2>3. QED
    BY <2>1, <2>2
<1> HIDE DEF bound
<1>6. Shows(t, r, y, said, mail, exist)
  BY <1>1, <1>5, ShowsTell
<1> HIDE DEF t, said
<1> DEFINE z == [y EXCEPT !.client = [y.client EXCEPT !.binded = TRUE]]
<1>7. t \in StateType /\ t.rec[r] = y /\ y \in RecType
  BY <1>6, Parts DEF Shows
<1>8. /\ z \in RecType /\ ClientOnly(y, z) /\ z.client.exists = y.client.exists /\ z.client.binded
      /\ z.mServiceBinder = y.mServiceBinder
  BY <1>7 DEF ClientOnly, RecType, ClientType
<1>9. n = [t EXCEPT !.rec[r] = z]
  BY <1>7
<1> HIDE DEF z, n
<1>10. Shows(n, r, z, said, mail, exist)
  BY <1>6, <1>8, <1>9, ShowsRec DEF ClientOnly
<1>11. PICK v : Shows(Report(n, r, BINDED), r, v, said, mail, exist) /\ Served(z, v)
  <2>1. BINDED \in {CREATED, STARTED, BINDED}
    OBVIOUS
  <2> HIDE DEF CREATED, STARTED, BINDED
  <2>2. QED
    BY <2>1, <1>10, ReportShows
<1>12. Binds(x, v)
  BY <1>5, <1>8, <1>11 DEF Binds, Served, ClientOnly
<1>13. QED
  BY <1>2, <1>11, <1>12 DEF said

\* UNBIND, of a service that is bound: one that is not used any more is stopped.
LEMMA OnUnbindShows ==
    ASSUME NEW s, NEW r, NEW x, NEW told, NEW mail, NEW exist, Shows(s, r, x, told, mail, exist),
           HasApp(s, r), x.client.binded
    PROVE  \E y : IF x.listed /\ x.mStartFlag = {}
                  THEN /\ Shows(OnUnbind(s, r), r, y,
                                TellAll(told, x.mConnectRecord, "disconnected"),
                                mail \union {[op |-> "STOP", r |-> r, conn |-> NoConn]},
                                SwappedOut(exist, r))
                       /\ Served([x EXCEPT !.asked = TRUE], y)
                  ELSE Shows(OnUnbind(s, r), r, y, told, mail, exist) /\ Served(x, y)
<1> DEFINE w == [x EXCEPT !.client = [x.client EXCEPT !.mIsBinded = FALSE]]
           a == [s EXCEPT !.rec[r].client.mIsBinded = FALSE]
           b == [a EXCEPT !.rec[r].client.mStatus = UNBINDED]
           n == OnUnbind(s, r)
<1>1. s \in StateType /\ r \in Record /\ x \in RecType /\ s.rec[r] = x
  BY Parts DEF Shows
<1>2. UNBINDED \in CREATING..DESTROYED /\ UNBINDED # DESTROYED
  OBVIOUS
<1>3. n = ReportServiceStatus(b, r, UNBINDED)
  BY <1>1 DEF OnUnbind, Report
<1>4. w \in RecType /\ Served(x, w)
  BY <1>1 DEF Served, ClientOnly, RecType, ClientType
<1>5. a = [s EXCEPT !.rec[r] = w]
  BY <1>1
<1>6. w.proc = x.proc
  BY <1>4 DEF Served, ClientOnly
<1>7. s.proc[x.proc].mStatus \in {"RUNNING", "STOPPING"} /\ x.proc # 0
  BY <1>1 DEF HasApp
<1> HIDE DEF w, a, n
<1>8. Shows(a, r, w, told, mail, exist)
  BY <1>4, <1>5, <1>6, ShowsRec
<1>9. a.proc = s.proc
  BY <1>1, <1>5 DEF StateType
<1>10. PICK v : Shows(b, r, v, told, mail, exist) /\ Served(w, v)
  <2> HIDE DEF UNBINDED, DESTROYED, CREATING
  <2>1. QED
    BY <1>2, <1>8, NotesShows
<1>11. Served(x, v) /\ b.rec[r] = v /\ b \in StateType /\ v \in RecType
  BY <1>4, <1>10, ServedIsTransitive, Parts DEF Shows
<1>12. HasApp(b, r)
  <2>1. b.proc = a.proc
    BY <1>8 DEF Shows, StateType
  <2>2. v.proc = x.proc
    BY <1>11 DEF Served, ClientOnly
  <2>3. QED
    BY <2>1, <2>2, <1>7, <1>9, <1>11 DEF HasApp
<1> HIDE DEF b
<1>13. v.listed = x.listed /\ v.mStartFlag = x.mStartFlag /\ v.mConnectRecord = x.mConnectRecord
  BY <1>11 DEF Served, ClientOnly
<1>14. CASE x.listed /\ x.mStartFlag = {}
  <2> DEFINE said == TellAll(told, x.mConnectRecord, "disconnected")
             more == mail \union {[op |-> "STOP", r |-> r, conn |-> NoConn]}
             u == [v EXCEPT !.asked = TRUE]
  <2>1. n = [Stop(b, r) EXCEPT !.rec[r].mStatus = UNBINDED]
    BY <1>2, <1>3, <1>11, <1>13, <1>14 DEF ReportServiceStatus
  <2>2. Shows(Stop(b, r), r, u, said, more, SwappedOut(exist, r))
    BY <1>10, <1>12, <1>13, StopShows
  <2>3. Served([x EXCEPT !.asked = TRUE], u)
    <3>1. /\ u \in RecType /\ u.name = v.name /\ u.proc = v.proc /\ u.listed = v.listed
          /\ u.mStartFlag = v.mStartFlag /\ u.mConnectRecord = v.mConnectRecord
          /\ u.asked = TRUE /\ u.mServiceBinder = v.mServiceBinder /\ u.client = v.client
      BY <1>11 DEF RecType
    <3> DEFINE z == [x EXCEPT !.asked = TRUE]
    <3>2. /\ z.name = x.name /\ z.proc = x.proc /\ z.listed = x.listed
          /\ z.mStartFlag = x.mStartFlag /\ z.mConnectRecord = x.mConnectRecord
          /\ z.asked = TRUE /\ z.mServiceBinder = x.mServiceBinder /\ z.client = x.client
      BY <1>1 DEF RecType
    <3> HIDE DEF u, z
    <3>3. Served(z, u)
      BY <3>1, <3>2, <1>11 DEF Served, ClientOnly
    <3>4. QED
      BY <3>3 DEF z
  <2> HIDE DEF said, more, u
  <2>4. PICK y : /\ Shows([Stop(b, r) EXCEPT !.rec[r].mStatus = UNBINDED], r, y, said, more,
                          SwappedOut(exist, r))
                 /\ Served(u, y)
    <3> HIDE DEF UNBINDED, DESTROYED, CREATING
    <3>1. QED
      BY <1>2, <2>2, StatusShows
  <2>5. Served([x EXCEPT !.asked = TRUE], y)
    BY <2>3, <2>4, ServedIsTransitive
  <2>6. QED
    BY <2>1, <2>4, <2>5, <1>14 DEF n, said, more
<1>15. CASE x.listed /\ x.mStartFlag # {}
  <2>1. n = [b EXCEPT !.rec[r].mStatus = UNBINDED]
    BY <1>2, <1>3, <1>11, <1>13, <1>15 DEF ReportServiceStatus
  <2>2. PICK y : Shows([b EXCEPT !.rec[r].mStatus = UNBINDED], r, y, told, mail, exist) /\ Served(v, y)
    <3> HIDE DEF UNBINDED, DESTROYED, CREATING
    <3>1. QED
      BY <1>2, <1>10, StatusShows
  <2>3. Served(x, y)
    BY <1>11, <2>2, ServedIsTransitive
  <2>4. QED
    BY <2>1, <2>2, <2>3, <1>15 DEF n
<1>16. CASE ~x.listed
  <2>1. n = b
    BY <1>3, <1>11, <1>13, <1>16 DEF ReportServiceStatus
  <2>2. QED
    BY <2>1, <1>10, <1>11, <1>16 DEF n
<1>17. QED
  BY <1>14, <1>15, <1>16

\* What the end of a service leaves of its record.
Ends(x, y) ==
    /\ y \in RecType /\ y.name = x.name /\ y.proc = x.proc /\ ~y.listed
    /\ y.mStartFlag = x.mStartFlag /\ y.mConnectRecord = x.mConnectRecord /\ y.asked = x.asked
    /\ y.mServiceBinder = x.mServiceBinder /\ y.client = NoClient

\* The request to terminate is no message of a record.
LEMMA ShowsStopApplication ==
    ASSUME NEW s, NEW r, NEW x, NEW told, NEW mail, NEW exist, Shows(s, r, x, told, mail, exist),
           NEW p \in Proc
    PROVE  /\ Shows(StopApplication(s, p), r, x, told, mail, exist)
           /\ StopApplication(s, p).proc[p].mStatus # "RUNNING"
           /\ s.proc[p].mStatus # "RUNNING" => StopApplication(s, p) = s
<1>1. CASE s.proc[p].mStatus # "RUNNING"
  BY <1>1 DEF StopApplication
<1>2. CASE s.proc[p].mStatus = "RUNNING"
  <2> DEFINE n == StopApplication(s, p)
             a == s.proc[p]
             m == [op |-> "TERMINATE", r |-> 0, conn |-> NoConn]
             y1 == [a EXCEPT !.mStatus = "STOPPING"]
             y == [y1 EXCEPT !.sent = Append(a.sent, m)]
  <2>1. s \in StateType /\ r \in Record /\ a \in ProcType /\ a.sent \in Seq(Message) /\ x.proc \in Proc
    BY Parts, ProcParts DEF Shows
  <2>2. m \in Message
    BY BoundsAssumption DEF Message, Ops
  <2>3. /\ Append(a.sent, m) \in Seq(Message)
        /\ ToSet(Append(a.sent, m)) = ToSet(a.sent) \union {m}
    <3> HIDE DEF m
    <3>1. QED
      BY <2>1, <2>2, Appended
  <2>4. n = [s EXCEPT !.proc[p] = y]
    BY <1>2 DEF StopApplication
  <2>5. /\ y \in ProcType /\ y.sent = Append(a.sent, m) /\ y.mExistService = a.mExistService
        /\ y.mStatus = "STOPPING"
    <3>1. /\ y1 \in ProcType /\ y1.mExistService = a.mExistService /\ y1.mStatus = "STOPPING"
      BY <2>1 DEF ProcType
    <3> HIDE DEF a, m, y1
    <3>2. QED
      BY <2>3, <3>1 DEF ProcType
  <2>6. a = s.proc[p] /\ m.r = 0 /\ r # 0
    BY <2>1, BoundsAssumption DEF Record
  <2> HIDE DEF n, a, m, y1, y
  <2>7. /\ n \in StateType /\ n.rec = s.rec /\ n.told = s.told /\ n.proc[p] = y
        /\ \A q \in Proc : q # p => n.proc[q] = s.proc[q]
    BY <2>1, <2>4, <2>5, OneProcess
  <2>8. Queue(n, p) = Queue(s, p) \union {m} /\ \A q \in Proc : q # p => Queue(n, q) = Queue(s, q)
    BY <2>3, <2>5, <2>6, <2>7 DEF Queue
  <2>9. Mail(n, r) = Mail(s, r)
    BY <2>6, <2>8 DEF Mail
  <2>10. n.proc[x.proc].mExistService = s.proc[x.proc].mExistService
    BY <2>1, <2>5, <2>6, <2>7
  <2>11. Shows(n, r, x, told, mail, exist) /\ n.proc[p].mStatus # "RUNNING"
    BY <2>5, <2>7, <2>9, <2>10 DEF Shows
  <2>12. QED
    BY <2>11, <1>2 DEF n
<1>3. QED
  BY <1>1, <1>2

\* STOP, or the end of the process, for a client that has the service: a process
\* that counts no other service is stopped.
LEMMA OnDestroyShows ==
    ASSUME NEW s, NEW r, NEW x, NEW told, NEW mail, NEW exist, Shows(s, r, x, told, mail, exist),
           x.client.exists
    PROVE  LET n == OnDestroy(s, r)
           IN \E y : /\ Shows(n, r, y, told, mail, exist) /\ Ends(x, y)
                     /\ x.listed /\ exist = <<>> => n.proc[x.proc].mStatus # "RUNNING"
                     /\ s.proc[x.proc].mStatus # "RUNNING" => n.proc = s.proc
<1> DEFINE a == [s EXCEPT !.rec[r].client.mStatus = DESTROYED]
           t == Report(s, r, DESTROYED)
           n == OnDestroy(s, r)
           p == x.proc
<1>1. s \in StateType /\ r \in Record /\ x \in RecType /\ s.rec[r] = x /\ p \in Proc
  BY Parts DEF Shows
<1>2. DESTROYED \in CREATING..DESTROYED /\ DESTROYED # UNBINDED
  OBVIOUS
<1>3. t = ReportServiceStatus(a, r, DESTROYED)
  BY DEF Report
<1>4. n = [t EXCEPT !.rec[r].client = NoClient]
  BY <1>1 DEF OnDestroy
<1>5. PICK w : Shows(a, r, w, told, mail, exist) /\ Served(x, w)
  <2> HIDE DEF UNBINDED, DESTROYED, CREATING
  <2>1. QED
    BY <1>2, NotesShows
<1>6. a.proc = s.proc
  BY <1>1 DEF StateType
<1> HIDE DEF a
<1>7. /\ a \in StateType /\ w \in RecType /\ a.rec[r] = w /\ w.listed = x.listed /\ w.proc = p
      /\ a.proc[p].mExistService = exist
  BY <1>5, Parts DEF Shows, Served, ClientOnly
<1>8. PICK v : /\ Shows(t, r, v, told, mail, exist)
               /\ v \in RecType /\ v.name = x.name /\ v.proc = x.proc /\ ~v.listed
               /\ v.mStartFlag = x.mStartFlag /\ v.mConnectRecord = x.mConnectRecord
               /\ v.asked = x.asked /\ v.mServiceBinder = x.mServiceBinder
               /\ x.listed /\ exist = <<>> => t.proc[p].mStatus # "RUNNING"
               /\ s.proc[p].mStatus # "RUNNING" => t.proc = s.proc
  <2>1. CASE ~x.listed
    <3>1. t = a
      BY <2>1, <1>3, <1>7 DEF ReportServiceStatus
    <3>2. QED
      BY <2>1, <3>1, <1>5, <1>6, <1>7 DEF Served, ClientOnly
  <2>2. CASE x.listed
    <3> DEFINE u == [w EXCEPT !.listed = FALSE]
               b == [a EXCEPT !.rec[r].listed = FALSE]
               d == IF exist = <<>> THEN StopApplication(b, p) ELSE b
    <3>1. t = [d EXCEPT !.rec[r].mStatus = DESTROYED]
      BY <2>2, <1>2, <1>3, <1>7 DEF ReportServiceStatus, Destroyed
    <3>2. /\ u \in RecType /\ u.name = w.name /\ u.proc = w.proc /\ ~u.listed
          /\ u.mStartFlag = w.mStartFlag /\ u.mConnectRecord = w.mConnectRecord
          /\ u.asked = w.asked /\ u.mServiceBinder = w.mServiceBinder
      BY <1>7 DEF RecType
    <3>3. b = [a EXCEPT !.rec[r] = u]
      BY <1>7
    <3> HIDE DEF u, b
    <3>4. Shows(b, r, u, told, mail, exist) /\ b.proc = a.proc
      <4>1. b.proc = a.proc
        BY <3>3, <1>7 DEF StateType
      <4>2. QED
        BY <4>1, <3>2, <3>3, <1>5, ShowsRec
    <3>5. /\ Shows(d, r, u, told, mail, exist)
          /\ exist = <<>> => d.proc[p].mStatus # "RUNNING"
          /\ s.proc[p].mStatus # "RUNNING" => d.proc = s.proc
      BY <3>4, <1>1, <1>6, ShowsStopApplication
    <3> HIDE DEF d
    <3>6. PICK y : Shows(t, r, y, told, mail, exist) /\ Served(u, y)
      <4> HIDE DEF UNBINDED, DESTROYED, CREATING, t
      <4>1. QED
        BY <1>2, <3>1, <3>5, StatusShows
    <3>7. t.proc = d.proc
      BY <3>1, <3>5 DEF Shows, StateType
    <3>8. /\ y \in RecType /\ y.name = x.name /\ y.proc = x.proc /\ ~y.listed
          /\ y.mStartFlag = x.mStartFlag /\ y.mConnectRecord = x.mConnectRecord
          /\ y.asked = x.asked /\ y.mServiceBinder = x.mServiceBinder
      BY <3>2, <3>6, <1>5 DEF Served, ClientOnly
    <3>9. /\ x.listed /\ exist = <<>> => t.proc[p].mStatus # "RUNNING"
          /\ s.proc[p].mStatus # "RUNNING" => t.proc = s.proc
      BY <3>5, <3>7
    <3>10. QED
      BY <3>6, <3>8, <3>9
  <2>3. QED
    BY <2>1, <2>2
<1> HIDE DEF t
<1> DEFINE y == [v EXCEPT !.client = NoClient]
<1>9. t \in StateType /\ t.rec[r] = v
  BY <1>8 DEF Shows
<1>10. Ends(x, y) /\ y.proc = x.proc /\ y \in RecType
  <2>1. NoClient \in ClientType
    BY DEF NoClient, ClientType
  <2>2. /\ y \in RecType /\ y.name = v.name /\ y.proc = v.proc /\ y.listed = v.listed
        /\ y.mStartFlag = v.mStartFlag /\ y.mConnectRecord = v.mConnectRecord
        /\ y.asked = v.asked /\ y.mServiceBinder = v.mServiceBinder /\ y.client = NoClient
    BY <1>8, <2>1 DEF RecType
  <2> HIDE DEF y
  <2>3. QED
    BY <1>8, <2>2 DEF Ends
<1>11. n = [t EXCEPT !.rec[r] = y]
  BY <1>4, <1>9
<1> HIDE DEF y, n
<1>12. Shows(n, r, y, told, mail, exist)
  BY <1>8, <1>10, <1>11, ShowsRec
<1>13. n.proc = t.proc
  BY <1>9, <1>11 DEF StateType
<1>14. QED
  BY <1>8, <1>10, <1>12, <1>13 DEF n

-----------------------------------------------------------------------------
(* The client's loop takes a message.                                      *)

\* Taking a message concerns its record alone, and tells nobody.
LEMMA PoppedAbout ==
    ASSUME NEW s, Base(s), NEW p \in Proc, s.proc[p].sent # <<>>
    PROVE  LET a == Popped(s, p)
               m == Head(s.proc[p].sent)
           IN /\ a.told = s.told
              /\ \A r \in Record : r # m.r => Mail(a, r) = Mail(s, r)
              /\ m.r \in Record => /\ About(s, a, m.r)
                                   /\ Mail(s, m.r) = Mail(a, m.r) \union {m}
<1> DEFINE a == Popped(s, p)
           m == Head(s.proc[p].sent)
<1>1. s \in StateType /\ s.proc[p].sent \in Seq(Message)
  BY Parts, ProcParts DEF Base
<1>2. /\ m \in Message /\ a \in StateType /\ a.rec = s.rec
      /\ a.proc[p].sent = Tail(s.proc[p].sent)
      /\ \A q \in Proc : /\ q # p => a.proc[q] = s.proc[q]
                         /\ a.proc[q].mStatus = s.proc[q].mStatus
                         /\ a.proc[q].attach = s.proc[q].attach
                         /\ a.proc[q].terminated = s.proc[q].terminated
  BY <1>1, PoppedFacts
<1>3. a.told = s.told
  BY <1>1 DEF Popped, StateType
<1>4. ToSet(s.proc[p].sent) = ToSet(Tail(s.proc[p].sent)) \union {m}
  BY <1>1, Taken
<1> HIDE DEF a, m
<1>5. /\ Queue(s, p) = Queue(a, p) \union {m}
      /\ \A q \in Proc : q # p => Queue(a, q) = Queue(s, q)
  BY <1>2, <1>4 DEF Queue
<1>6. ASSUME NEW r \in Record, r # m.r PROVE Mail(a, r) = Mail(s, r)
  BY <1>5, <1>6 DEF Mail
<1>7. ASSUME m.r \in Record PROVE Mail(s, m.r) = Mail(a, m.r) \union {m}
  BY <1>2, <1>5 DEF Mail
<1>8. ASSUME m.r \in Record PROVE About(s, a, m.r)
  BY <1>2, <1>6 DEF About, Up
<1>9. QED
  BY <1>3, <1>6, <1>7, <1>8 DEF a, m

\* A message about record r has been taken, which leaves a, and handled, which leaves n.
Hands(s, a, n, m, r, p) ==
    /\ Base(s) /\ Informed(s, {})
    /\ a \in StateType /\ n \in StateType /\ r \in Record /\ p \in Proc
    /\ a.rec = s.rec /\ a.told = s.told /\ s.rec[r].proc = p /\ HasApp(s, r) /\ HasApp(n, r)
    /\ m \in Message /\ m.r = r /\ Mail(s, r) = Mail(a, r) \union {m}
    /\ Shows(a, r, s.rec[r], s.told, Mail(a, r), s.proc[p].mExistService) /\ HasApp(a, r)
    /\ About(s, n, r)
    /\ \A q \in Proc \ {p} : n.proc[q] = s.proc[q]
    /\ n.proc[p].mStatus = "RUNNING" => s.proc[p].mStatus = "RUNNING"

LEMMA HandsFacts ==
    ASSUME NEW s, Inv(s, TRUE, Ended(s), 0), Informed(s, {}),
           NEW p \in Proc, s.proc[p].sent # <<>>, Head(s.proc[p].sent).op # "TERMINATE"
    PROVE  LET a == Popped(s, p)
               m == Head(s.proc[p].sent)
           IN /\ Hands(s, a, Handled(a, p, m), m, m.r, p)
              /\ m.op \in {"UNBIND", "STOP"} => Mail(a, m.r) = {}
<1> DEFINE a == Popped(s, p)
           m == Head(s.proc[p].sent)
           r == m.r
           n == Handled(a, p, m)
<1>1. s \in StateType /\ Base(s)
  BY DEF Inv, Base
<1>2. /\ m \in Message /\ m \in Queue(s, p) /\ a \in StateType /\ a.rec = s.rec
      /\ \A q \in Proc : /\ q # p => a.proc[q] = s.proc[q]
                         /\ a.proc[q].mStatus = s.proc[q].mStatus
                         /\ a.proc[q].terminated = s.proc[q].terminated
                         /\ a.proc[q].mExistService = s.proc[q].mExistService
  BY <1>1, PoppedFacts
<1>3. r \in Record /\ s.rec[r].proc = p /\ Step(a, n, r, TRUE, Ended(s), r)
  BY HandledStep
<1>4. m.op \in {"UNBIND", "STOP"} => \A q \in Proc : \A i \in Queue(a, q) : i.r # m.r
  BY PoppedInv
<1>5. a.told = s.told /\ About(s, a, r) /\ Mail(s, r) = Mail(a, r) \union {m}
  BY <1>1, <1>3, PoppedAbout
<1>6. r = m.r
  OBVIOUS
<1> HIDE DEF a, m, r, n
<1>7. Local(a, n, r)
  BY <1>3 DEF Step
<1>8. About(s, n, r)
  BY <1>2, <1>3, <1>5, <1>7, AboutOfLocal, AboutIsTransitive
<1>9. HasApp(s, r)
  <2>1. m \in Mail(s, r)
    BY <1>5
  <2>2. QED
    BY <2>1, <1>1, <1>3, MailFacts
<1>10. p # 0 /\ n.rec[r].proc = p
  BY <1>2, <1>3, <1>7 DEF Proc, Local, LocalRec
<1>11. HasApp(n, r)
  BY <1>3, <1>8, <1>9, <1>10 DEF About, HasApp, Up
<1>12. Shows(a, r, s.rec[r], s.told, Mail(a, r), s.proc[p].mExistService)
  BY <1>2, <1>3, <1>5, <1>10, ShowsIt
<1>13. \A q \in Proc \ {p} : n.proc[q] = s.proc[q]
  BY <1>2, <1>3, <1>7 DEF Local
<1>14. n.proc[p].mStatus = "RUNNING" => s.proc[p].mStatus = "RUNNING"
  BY <1>2, <1>7 DEF Local, LocalProc
<1>15. Hands(s, a, n, m, r, p)
  <2>1. HasApp(a, r)
    BY <1>2, <1>3, <1>9 DEF HasApp
  <2>2. QED
    BY <2>1, <1>1, <1>2, <1>3, <1>5, <1>6, <1>7, <1>8, <1>9, <1>11, <1>12, <1>13, <1>14 DEF Hands, Local
<1>16. m.op \in {"UNBIND", "STOP"} => Mail(a, r) = {}
  BY <1>4, <1>6 DEF Mail
<1>17. QED
  BY <1>15, <1>16 DEF a, m, r, n

\* A step about one record keeps Informed when that record is answered, its connections
\* are told, and its process is occupied.
LEMMA HandsKeeps ==
    ASSUME NEW s, NEW a, NEW n, NEW m, NEW r, NEW p, Hands(s, a, n, m, r, p),
           Answered(n, r, {}), n.rec[r].listed => s.rec[r].listed,
           n.rec[r].mConnectRecord = s.rec[r].mConnectRecord,
           \A c \in Conn : Hears(s, n, r, c, {}), Occupied(n, p)
    PROVE  Informed(n, {})
<1>1. s \in StateType /\ Told(s, {}) /\ About(s, n, r) /\ r \in Record /\ p \in Proc
  BY DEF Hands, Informed, Base
<1>2. \A c \in Conn : Uses(n, r, c) => Uses(s, r, c) \/ ~Busy(s, c)
  BY DEF Uses
<1>3. Told(n, {})
  BY <1>1, <1>2, ToldStep
<1>4. \A q \in Proc : Occupied(n, q)
  <2>1. \A q \in Record \ {r} : n.rec[q] = s.rec[q]
    BY <1>1 DEF About
  <2>2. /\ \A q \in Proc \ {p} : n.proc[q] = s.proc[q]
        /\ s.rec[r].proc \in {0, p} /\ \A q \in Proc \ {p} : Occupied(s, q)
    BY DEF Hands, Informed
  <2>3. QED
    BY <2>1, <2>2, <1>1, OccupiedStep
<1>5. QED
  BY <1>3, <1>4 DEF Informed

\* A process that counts what it counted before is occupied as before.
LEMMA StillOccupied ==
    ASSUME NEW s, NEW a, NEW n, NEW m, NEW r, NEW p, Hands(s, a, n, m, r, p),
           n.proc[p].mExistService = s.proc[p].mExistService,
           Leaving(s, r, p) => Leaving(n, r, p)
    PROVE  Occupied(n, p)
<1> SUFFICES ASSUME n.proc[p].mStatus = "RUNNING", n.proc[p].mExistService = <<>>
             PROVE  \E i \in Record : Leaving(n, i, p)
  BY DEF Occupied
<1>1. PICK i \in Record : Leaving(s, i, p)
  BY DEF Hands, Informed, Occupied
<1>2. CASE i = r
  BY <1>1, <1>2
<1>3. CASE i # r
  <2>1. n.rec[i] = s.rec[i]
    BY <1>3 DEF Hands, About
  <2>2. QED
    BY <2>1, <1>1 DEF Leaving
<1>4. QED
  BY <1>2, <1>3

\* A record that is served as before, but for what the client has made of it, is
\* answered as before, but for the message that it took.
LEMMA StillHears ==
    ASSUME NEW s, NEW a, NEW n, NEW m, NEW r, NEW p, Hands(s, a, n, m, r, p),
           ClientOnly(s.rec[r], n.rec[r])
    PROVE  /\ Held(n, r) <=> Held(s, r)
           /\ \A c : Believer(n, r, c) <=> Believer(s, r, c)
           /\ Leaving(s, r, p) => Leaving(n, r, p)
           /\ n.told = s.told => \A c \in Conn : Hears(s, n, r, c, {})
<1>1. /\ n.rec[r].listed = s.rec[r].listed /\ n.rec[r].asked = s.rec[r].asked
      /\ n.rec[r].proc = s.rec[r].proc /\ n.rec[r].name = s.rec[r].name
      /\ n.rec[r].mConnectRecord = s.rec[r].mConnectRecord
      /\ n.rec[r].mStartFlag = s.rec[r].mStartFlag
      /\ s.rec[r].proc = p /\ p \in Proc /\ n.proc[p].terminated = s.proc[p].terminated
      /\ r \in Record
  BY DEF ClientOnly, Hands, About
<1>2. Held(n, r) <=> Held(s, r)
  BY <1>1 DEF Held
<1>3. \A c : Believer(n, r, c) <=> Believer(s, r, c)
  BY <1>1, <1>2 DEF Believer
<1>4. Leaving(s, r, p) => Leaving(n, r, p)
  BY <1>1 DEF Leaving
<1>5. ASSUME n.told = s.told, NEW c \in Conn PROVE Hears(s, n, r, c, {})
  BY <1>3, <1>5 DEF Hears, Believer
<1>6. QED
  BY <1>2, <1>3, <1>4, <1>5

\* START: the service is created.
LEMMA StartHandled ==
    ASSUME NEW s, NEW a, NEW m, NEW r, NEW p, m.op = "START",
           Hands(s, a, OnStart(a, r), m, r, p)
    PROVE  Informed(OnStart(a, r), {})
<1> DEFINE n == OnStart(a, r)
           x == s.rec[r]
           M == Mail(a, r)
<1>1. PICK y : Shows(n, r, y, s.told, M, s.proc[p].mExistService) /\ Makes(x, y)
  BY OnStartShows DEF Hands
<1> HIDE DEF n
<1>2. /\ n.rec[r] = y /\ n.told = s.told /\ Mail(n, r) = M /\ x.proc = p /\ y.proc = p
      /\ n.proc[p].mExistService = s.proc[p].mExistService
      /\ Mail(s, r) = M \union {m} /\ HasApp(s, r) /\ r \in Record
  BY <1>1 DEF Shows, Hands, Makes, ClientOnly, n
<1>3. /\ ClientOnly(x, y) /\ y.mServiceBinder = x.mServiceBinder /\ y.client.exists
      /\ y.client.binded <=> x.client.exists /\ x.client.binded
  BY <1>1 DEF Makes
<1>4. Answered(s, r, {})
  BY <1>2 DEF Hands, Informed, Told
<1>5. /\ Held(n, r) <=> Held(s, r)
      /\ \A c : Believer(n, r, c) <=> Believer(s, r, c)
      /\ Leaving(s, r, p) => Leaving(n, r, p)
      /\ \A c \in Conn : Hears(s, n, r, c, {})
  BY <1>2, <1>3, StillHears DEF n
<1>6. Reached(n, r)
  <2>1. Expects(n, r, {"BIND"}) <=> Expects(s, r, {"BIND"})
    BY <1>2 DEF Expects
  <2>2. Expects(n, r, {"UNBIND"}) <=> Expects(s, r, {"UNBIND"})
    BY <1>2 DEF Expects
  <2>3. Expects(n, r, {"STOP"}) <=> Expects(s, r, {"STOP"})
    BY <1>2 DEF Expects
  <2>4. y.client.binded <=> x.client.binded
    BY <1>3, <1>4 DEF Answered, Reached
  <2>5. QED
    BY <2>1, <2>2, <2>3, <2>4, <1>2, <1>3, <1>4 DEF Answered, Reached, ClientOnly
<1>7. Addressed(n, r)
  BY <1>2, <1>3, <1>4, <1>5 DEF Answered, Addressed, ClientOnly
<1>8. Heard(n, r, {})
  BY <1>2, <1>3, <1>4 DEF Answered, Heard, ClientOnly
<1>9. Occupied(n, p)
  BY <1>2, <1>5, StillOccupied DEF n
<1>10. Answered(n, r, {}) /\ (n.rec[r].listed => s.rec[r].listed)
       /\ n.rec[r].mConnectRecord = s.rec[r].mConnectRecord
  BY <1>2, <1>3, <1>6, <1>7, <1>8 DEF Answered, ClientOnly
<1>11. QED
  BY <1>5, <1>9, <1>10, HandsKeeps DEF n

\* BIND: the connection is told of the binder.
LEMMA BindHandled ==
    ASSUME NEW s, NEW a, NEW m, NEW r, NEW p, m.op = "BIND",
           Hands(s, a, OnBind(a, r, m.conn), m, r, p)
    PROVE  Informed(OnBind(a, r, m.conn), {})
<1> DEFINE n == OnBind(a, r, m.conn)
           x == s.rec[r]
           M == Mail(a, r)
           said == IF x.name \in HasBinder THEN TellAll(s.told, {m.conn}, "connected") ELSE s.told
<1>1. PICK y : Shows(n, r, y, said, M, s.proc[p].mExistService) /\ Binds(x, y)
  BY OnBindShows DEF Hands
<1> HIDE DEF n
<1>2. /\ n.rec[r] = y /\ n.told = said /\ Mail(n, r) = M /\ x.proc = p /\ y.proc = p
      /\ n.proc[p].mExistService = s.proc[p].mExistService
      /\ Mail(s, r) = M \union {m} /\ HasApp(s, r) /\ r \in Record /\ s \in StateType
  BY <1>1 DEF Shows, Hands, Binds, ClientOnly, n, Base
<1>3. /\ ClientOnly(x, y) /\ y.client.exists /\ y.client.binded
      /\ y.mServiceBinder => x.mServiceBinder \/ x.name \in HasBinder
  BY <1>1 DEF Binds
<1>4. Answered(s, r, {})
  BY <1>2 DEF Hands, Informed, Told
<1>5. /\ Held(n, r) <=> Held(s, r)
      /\ \A c : Believer(n, r, c) <=> Believer(s, r, c)
      /\ Leaving(s, r, p) => Leaving(n, r, p)
  BY <1>2, <1>3, StillHears DEF n
<1>6. m.conn \in x.mConnectRecord /\ Held(s, r)
  BY <1>2, <1>4 DEF Answered, Addressed
<1>7. x.mConnectRecord \subseteq Conn
  BY <1>2, Parts, RecParts
<1>8. \A c \in Conn : n.told[c] = IF c = m.conn /\ x.name \in HasBinder THEN "connected" ELSE s.told[c]
  BY <1>2 DEF TellAll
<1>9. \A c \in Conn : Hears(s, n, r, c, {})
  <2> SUFFICES ASSUME NEW c \in Conn PROVE Hears(s, n, r, c, {})
    OBVIOUS
  <2>1. CASE c = m.conn /\ x.name \in HasBinder
    BY <2>1, <1>5, <1>6, <1>8 DEF Hears, Believer
  <2>2. CASE ~(c = m.conn /\ x.name \in HasBinder)
    <3>1. n.told[c] = s.told[c]
      BY <2>2, <1>8
    <3>2. QED
      BY <3>1, <1>5 DEF Hears
  <2>3. QED
    BY <2>1, <2>2
<1>10. Reached(n, r)
  <2>1. Expects(n, r, {"UNBIND"}) <=> Expects(s, r, {"UNBIND"})
    BY <1>2 DEF Expects
  <2>2. Expects(n, r, {"STOP"}) <=> Expects(s, r, {"STOP"})
    BY <1>2 DEF Expects
  <2>3. QED
    BY <2>1, <2>2, <1>2, <1>3, <1>4 DEF Answered, Reached, ClientOnly
<1>11. Addressed(n, r)
  BY <1>2, <1>3, <1>4, <1>5 DEF Answered, Addressed, ClientOnly
<1>12. Heard(n, r, {})
  <2> SUFFICES ASSUME n.rec[r].listed, ~n.rec[r].asked, n.rec[r].name \in HasBinder,
                      NEW c \in n.rec[r].mConnectRecord
               PROVE  n.told[c] = "connected" \/ \E i \in Mail(n, r) : i.op = "BIND" /\ i.conn = c
    BY DEF Heard
  <2>1. /\ x.listed /\ ~x.asked /\ x.name \in HasBinder /\ c \in x.mConnectRecord /\ c \in Conn
    BY <1>2, <1>3, <1>7 DEF ClientOnly
  <2>2. s.told[c] = "connected" \/ \E i \in Mail(s, r) : i.op = "BIND" /\ i.conn = c
    BY <2>1, <1>2, <1>4 DEF Answered, Heard
  <2>3. QED
    BY <2>1, <2>2, <1>2, <1>8
<1>13. Occupied(n, p)
  BY <1>2, <1>5, StillOccupied DEF n
<1>14. Answered(n, r, {}) /\ (n.rec[r].listed => s.rec[r].listed)
       /\ n.rec[r].mConnectRecord = s.rec[r].mConnectRecord
  BY <1>2, <1>3, <1>10, <1>11, <1>12 DEF Answered, ClientOnly
<1>15. QED
  BY <1>9, <1>13, <1>14, HandsKeeps DEF n

\* A record that the client does not have, of which no message is left, is not listed
\* and stays as it is.
LEMMA NothingHandled ==
    ASSUME NEW s, NEW a, NEW m, NEW r, NEW p, Mail(a, r) = {}, ~s.rec[r].listed,
           Hands(s, a, a, m, r, p)
    PROVE  Informed(a, {})
<1>1. /\ s \in StateType /\ r \in Record /\ a.rec[r] = s.rec[r] /\ a.told = s.told
      /\ s.rec[r].proc = p /\ a.proc[p].mExistService = s.proc[p].mExistService
  BY DEF Hands, Shows, Base
<1>2. Answered(s, r, {})
  BY <1>1 DEF Hands, Informed, Told
<1>3. ClientOnly(s.rec[r], a.rec[r])
  BY <1>1, Parts DEF ClientOnly
<1>4. /\ Leaving(s, r, p) => Leaving(a, r, p)
      /\ \A c \in Conn : Hears(s, a, r, c, {})
  BY <1>1, <1>3, StillHears
<1>5. Answered(a, r, {})
  BY <1>1, <1>2 DEF Answered, Reached, Addressed, Heard
<1>6. Occupied(a, p)
  BY <1>1, <1>4, StillOccupied
<1>7. QED
  BY <1>1, <1>4, <1>5, <1>6, HandsKeeps

\* UNBIND: a service that is not used any more is stopped, and has no connections.
LEMMA UnbindHandled ==
    ASSUME NEW s, NEW a, NEW m, NEW r, NEW p, m.op = "UNBIND", Mail(a, r) = {},
           Hands(s, a, OnUnbind(a, r), m, r, p)
    PROVE  Informed(OnUnbind(a, r), {})
<1> DEFINE n == OnUnbind(a, r)
           x == s.rec[r]
           exist == s.proc[p].mExistService
<1>1. /\ Shows(a, r, x, s.told, {}, exist) /\ HasApp(a, r) /\ HasApp(s, r) /\ a.rec[r] = x
      /\ Mail(s, r) = {m} /\ Base(s) /\ s \in StateType /\ r \in Record /\ x.proc = p /\ p \in Proc
  BY DEF Hands, Base
<1>2. Reached(s, r) /\ Addressed(s, r) /\ Heard(s, r, {})
  BY <1>1 DEF Hands, Informed, Told, Answered
<1>3. ~Expects(s, r, {"START", "BIND"}) /\ ~Expects(s, r, {"BIND"}) /\ ~Expects(s, r, {"STOP"})
      /\ Expects(s, r, {"UNBIND"})
  BY <1>1 DEF Expects
<1>4. CASE ~x.client.binded
  <2>1. n = a
    BY <1>1, <1>4 DEF OnUnbind
  <2>2. ~x.listed
    BY <1>1, <1>2, <1>3, <1>4 DEF Reached
  <2>3. QED
    BY <2>1, <2>2, NothingHandled
<1>5. CASE x.client.binded
  <2>1. PICK y : IF x.listed /\ x.mStartFlag = {}
                 THEN /\ Shows(n, r, y, TellAll(s.told, x.mConnectRecord, "disconnected"),
                               {} \union {[op |-> "STOP", r |-> r, conn |-> NoConn]},
                               SwappedOut(exist, r))
                      /\ Served([x EXCEPT !.asked = TRUE], y)
                 ELSE Shows(n, r, y, s.told, {}, exist) /\ Served(x, y)
    BY <1>1, <1>5, OnUnbindShows
  <2> HIDE DEF n
  <2>2. CASE ~(x.listed /\ x.mStartFlag = {})
    <3>1. /\ ClientOnly(x, y) /\ y.mServiceBinder = x.mServiceBinder /\ n.rec[r] = y /\ n.told = s.told
          /\ y.client.exists = x.client.exists /\ y.client.binded = x.client.binded
          /\ Mail(n, r) = {} /\ y.proc = p /\ n.proc[p].mExistService = exist
      BY <2>1, <2>2, <1>1 DEF Served, Shows, ClientOnly
    <3>2. /\ Leaving(s, r, p) => Leaving(n, r, p)
          /\ \A c \in Conn : Hears(s, n, r, c, {})
      BY <3>1, StillHears DEF n
    <3>3. Reached(n, r)
      BY <3>1, <1>1, <1>2, <1>3, <1>5, <2>2 DEF Reached, ClientOnly
    <3>4. Addressed(n, r)
      BY <3>1 DEF Addressed
    <3>5. Heard(n, r, {})
      BY <3>1, <1>1, <1>2 DEF Heard, ClientOnly
    <3>6. Occupied(n, p)
      BY <3>1, <3>2, StillOccupied DEF n
    <3>7. QED
      BY <3>1, <3>2, <3>3, <3>4, <3>5, <3>6, HandsKeeps DEF n, Answered, ClientOnly
  <2>3. CASE x.listed /\ x.mStartFlag = {}
    <3> DEFINE z == [x EXCEPT !.asked = TRUE]
    <3>1. /\ z.name = x.name /\ z.proc = x.proc /\ z.listed = x.listed /\ z.mStartFlag = x.mStartFlag
          /\ z.mConnectRecord = x.mConnectRecord /\ z.asked /\ z.mServiceBinder = x.mServiceBinder
          /\ z.client = x.client
      BY <1>1, Parts DEF RecType
    <3>2. Served(z, y)
      BY <2>1, <2>3
    <3> HIDE DEF z
    <3>3. /\ y.name = x.name /\ y.proc = p /\ y.listed /\ y.mStartFlag = {}
          /\ y.mConnectRecord = x.mConnectRecord /\ y.asked /\ y.mServiceBinder = x.mServiceBinder
          /\ y.client.exists = x.client.exists /\ y.client.binded = x.client.binded
      BY <3>1, <3>2, <1>1, <2>3 DEF Served, ClientOnly
    <3>4. /\ n.rec[r] = y /\ n.told = TellAll(s.told, x.mConnectRecord, "disconnected")
          /\ Mail(n, r) = {[op |-> "STOP", r |-> r, conn |-> NoConn]}
      BY <2>1, <2>3 DEF Shows
    <3>5. x.mConnectRecord = {}
      <4>1. Sound(s, r)
        BY <1>1 DEF Base
      <4>2. QED
        BY <4>1, <1>1, <2>3 DEF Sound
    <3>6. \A c \in Conn : n.told[c] = s.told[c]
      BY <3>4, <3>5 DEF TellAll
    <3>7. \A c \in Conn : Hears(s, n, r, c, {})
      BY <3>5, <3>6 DEF Hears, Believer
    <3>8. Reached(n, r)
      <4>1. x.client.exists /\ (x.mServiceBinder => x.name \in HasBinder)
        BY <1>1, <1>2, <1>3, <2>3 DEF Reached
      <4>2. Expects(n, r, {"STOP"})
        BY <3>4 DEF Expects
      <4>3. QED
        BY <4>1, <4>2, <3>3, <3>4, <1>5 DEF Reached
    <3>9. Addressed(n, r)
      BY <3>4 DEF Addressed
    <3>10. Heard(n, r, {})
      BY <3>3, <3>4 DEF Heard
    <3>11. Occupied(n, p)
      BY <3>3, <3>4, <1>1 DEF Occupied, Leaving
    <3>12. QED
      BY <3>3, <3>4, <3>7, <3>8, <3>9, <3>10, <3>11, <2>3, HandsKeeps DEF n, Answered
  <2>4. QED
    BY <2>2, <2>3 DEF n
<1>6. QED
  BY <1>4, <1>5

\* STOP: the record of a service that has been stopped goes.
LEMMA StopHandled ==
    ASSUME NEW s, NEW a, NEW m, NEW r, NEW p, m.op = "STOP", Mail(a, r) = {}, s.rec[r].asked,
           Hands(s, a, OnDestroy(a, r), m, r, p)
    PROVE  Informed(OnDestroy(a, r), {})
<1> DEFINE n == OnDestroy(a, r)
           x == s.rec[r]
           exist == s.proc[p].mExistService
<1>1. /\ Shows(a, r, x, s.told, {}, exist) /\ HasApp(s, r) /\ a.rec[r] = x
      /\ Mail(s, r) = {m} /\ s \in StateType /\ r \in Record /\ x.proc = p /\ p \in Proc
  BY DEF Hands, Base
<1>2. Reached(s, r) /\ Addressed(s, r) /\ Heard(s, r, {})
  BY <1>1 DEF Hands, Informed, Told, Answered
<1>3. CASE ~x.client.exists
  <2>1. n = a
    BY <1>1, <1>3 DEF OnDestroy
  <2>2. ~Expects(s, r, {"START", "BIND"})
    BY <1>1 DEF Expects
  <2>3. ~x.listed
    BY <1>1, <1>2, <1>3, <2>2 DEF Reached
  <2>4. QED
    BY <2>1, <2>3, NothingHandled
<1>4. CASE x.client.exists
  <2>1. PICK y : /\ Shows(n, r, y, s.told, {}, exist) /\ Ends(x, y)
                 /\ x.listed /\ exist = <<>> => n.proc[x.proc].mStatus # "RUNNING"
    BY <1>1, <1>4, OnDestroyShows
  <2> HIDE DEF n
  <2>2. /\ n.rec[r] = y /\ n.told = s.told /\ Mail(n, r) = {} /\ n.proc[p].mExistService = exist
        /\ y.name = x.name /\ y.proc = p /\ ~y.listed /\ y.mConnectRecord = x.mConnectRecord
        /\ y.asked = x.asked /\ y.mServiceBinder = x.mServiceBinder /\ y.client = NoClient
    BY <2>1, <1>1 DEF Shows, Ends
  <2>3. Reached(n, r)
    BY <2>2, <1>2 DEF Reached, NoClient
  <2>4. Addressed(n, r) /\ Heard(n, r, {})
    BY <2>2 DEF Addressed, Heard
  <2>5. n.proc[p].terminated = s.proc[p].terminated
    BY <1>1 DEF Hands, About, n
  <2>6. Held(s, r) => Held(n, r)
    BY <2>2, <2>5, <1>1 DEF Held
  <2>7. \A c \in Conn : Hears(s, n, r, c, {})
    BY <2>2, <2>6 DEF Hears, Believer
  <2>8. Occupied(n, p)
    <3> SUFFICES ASSUME n.proc[p].mStatus = "RUNNING", n.proc[p].mExistService = <<>>
                 PROVE  \E i \in Record : Leaving(n, i, p)
      BY DEF Occupied
    <3>1. ~x.listed
      BY <2>1, <2>2, <1>1
    <3>2. s.proc[p].mStatus = "RUNNING" /\ exist = <<>> /\ Occupied(s, p)
      BY <2>2, <1>1 DEF Hands, Informed, n
    <3>3. PICK i \in Record : Leaving(s, i, p)
      BY <3>2 DEF Occupied
    <3>4. n.rec[i] = s.rec[i]
      BY <3>1, <3>3 DEF Leaving, Hands, About, n
    <3>5. QED
      BY <3>3, <3>4 DEF Leaving
  <2>9. QED
    BY <2>2, <2>3, <2>4, <2>7, <2>8, HandsKeeps DEF n, Answered
<1>5. QED
  BY <1>3, <1>4

\* A step that uses no more connections than before, and tells none that a service
\* is connected, keeps Told when every record is answered.
LEMMA ToldAfter ==
    ASSUME NEW s, NEW n \in StateType, NEW E, NEW D, Told(s, E),
           \A r \in Record : Answered(n, r, D),
           \A r \in Record : \A c \in Conn : Uses(n, r, c) => Uses(s, r, c),
           \A p \in Proc : n.proc[p].attach \in {s.proc[p].attach, <<>>} /\ Waited(n, p),
           \A c \in Conn : n.told[c] = "connected" =>
               s.told[c] = "connected" /\ \A r \in Record : Believer(s, r, c) => Believer(n, r, c)
    PROVE  Told(n, D)
<1>1. Single(s)
  BY DEF Told
<1>2. ASSUME NEW p \in Proc, NEW i \in DOMAIN n.proc[p].attach
      PROVE  i \in DOMAIN s.proc[p].attach /\ Asks(n, p, i) = Asks(s, p, i)
  BY <1>2 DEF Asks
<1>3. \A r \in Record : n.rec[r].mConnectRecord \subseteq Conn
  BY Parts, RecParts
<1>4. Single(n)
  <2>1. ASSUME NEW p \in Proc, NEW i \in DOMAIN n.proc[p].attach, NEW r \in Record, Uses(n, r, Asks(n, p, i))
        PROVE  FALSE
    <3>1. Asks(n, p, i) \in Conn
      BY <2>1, <1>3 DEF Uses
    <3>2. Uses(s, r, Asks(s, p, i)) /\ i \in DOMAIN s.proc[p].attach
      BY <3>1, <2>1, <1>2
    <3>3. QED
      BY <3>2, <1>1 DEF Single
  <2>2. \A r, q \in Record : \A c \in Conn : Uses(n, r, c) /\ Uses(n, q, c) => r = q
    BY <1>1 DEF Single
  <2>3. ASSUME NEW p \in Proc, NEW q \in Proc, NEW i \in DOMAIN n.proc[p].attach,
               NEW j \in DOMAIN n.proc[q].attach, Asks(n, p, i) = Asks(n, q, j), Asks(n, p, i) # NoConn
        PROVE  p = q /\ i = j
    <3>1. /\ i \in DOMAIN s.proc[p].attach /\ Asks(n, p, i) = Asks(s, p, i)
          /\ j \in DOMAIN s.proc[q].attach /\ Asks(n, q, j) = Asks(s, q, j)
      BY <1>2
    <3>2. QED
      BY <3>1, <2>3, <1>1 DEF Single
  <2>4. QED
    BY <2>1, <2>2, <2>3 DEF Single
<1>5. \A c \in Conn : Believes(n, c)
  BY DEF Told, Believes
<1>6. QED
  BY <1>4, <1>5 DEF Told

\* y is what the end of process p, or of its services, leaves of a record x.
LeftOver(p, x, y) == y = x \/ (x.proc = p /\ Ends(x, y))

\* terminateApplication(): the records of the process go, their connections are not told.
LEMMA TerminateTold ==
    ASSUME NEW s, NEW X, Inv(s, TRUE, X, 0), Informed(s, {}),
           NEW p \in Proc, s.proc[p].mStatus = "STOPPING"
    PROVE  Informed([ForEach(OnDestroy, s, Clients(s, p)) EXCEPT !.proc[p].terminated = TRUE], {})
<1> DEFINE S == Clients(s, p)
           Y == X \union {r \in Record : s.rec[r].proc = p}
           T == {t \in StateType :
                   /\ Inv(t, TRUE, Y, 0) /\ t.proc = s.proc /\ t.told = s.told
                   /\ \A r \in Record : LeftOver(p, s.rec[r], t.rec[r])}
           f == ForEach(OnDestroy, s, S)
           n == [f EXCEPT !.proc[p].terminated = TRUE]
<1>1. s \in T
  <2>1. Inv(s, TRUE, Y, 0)
    BY Exempt
  <2>2. QED
    BY <2>1 DEF Inv, Base, LeftOver
<1>2. ASSUME NEW r \in Record \cap S, NEW t \in T PROVE OnDestroy(t, r) \in T
  <2>1. /\ Inv(t, TRUE, Y, 0) /\ t.proc = s.proc /\ t.told = s.told /\ t \in StateType /\ r \in Record
        /\ LeftOver(p, s.rec[r], t.rec[r]) /\ s.rec[r].proc = p /\ p # 0 /\ r \in Y
    <3>1. r \in Record /\ s.rec[r].proc = p /\ p # 0
      BY <1>2 DEF Clients, Proc
    <3> HIDE DEF S
    <3>2. t \in T
      BY <1>2
    <3>3. /\ Inv(t, TRUE, Y, 0) /\ t.proc = s.proc /\ t.told = s.told /\ t \in StateType
          /\ \A q \in Record : LeftOver(p, s.rec[q], t.rec[q])
      <4> HIDE DEF Y
      <4>1. QED
        BY <3>2
    <3>4. QED
      BY <3>1, <3>3
  <2>2. t.rec[r].proc = p
    BY <2>1 DEF LeftOver, Ends
  <2>3. CASE ~t.rec[r].client.exists
    BY <2>3 DEF OnDestroy
  <2>4. CASE t.rec[r].client.exists
    <3> DEFINE d == OnDestroy(t, r)
    <3>1. t.rec[r] = s.rec[r]
      BY <2>1, <2>4 DEF LeftOver, Ends, NoClient
    <3>2. Step(t, d, r, TRUE, Y, 0)
      <4>1. ~(t.proc[t.rec[r].proc].mStatus = "RUNNING" /\ r \in Exists(t, t.rec[r].proc))
        BY <2>1, <2>2
      <4>2. QED
        BY <2>1, <2>2, <4>1, OnDestroyStep
    <3>3. d \in StateType /\ Inv(d, TRUE, Y, 0) /\ \A q \in Record : q # r => d.rec[q] = t.rec[q]
      BY <3>2 DEF Step, Local
    <3>4. Shows(t, r, t.rec[r], t.told, Mail(t, r), t.proc[t.rec[r].proc].mExistService)
      BY <2>1, <2>2, ShowsIt
    <3>5. PICK y : /\ Shows(d, r, y, t.told, Mail(t, r), t.proc[t.rec[r].proc].mExistService)
                   /\ Ends(t.rec[r], y)
                   /\ t.proc[t.rec[r].proc].mStatus # "RUNNING" => d.proc = t.proc
      BY <3>4, <2>4, OnDestroyShows
    <3> HIDE DEF d
    <3>6. d.proc = s.proc /\ d.told = s.told /\ LeftOver(p, s.rec[r], d.rec[r])
      BY <3>1, <3>5, <2>1, <2>2 DEF Shows, LeftOver
    <3>7. \A q \in Record : q # r => LeftOver(p, s.rec[q], d.rec[q])
      BY <3>3, <1>2
    <3>8. d \in T
      BY <3>3, <3>6, <3>7
    <3>9. QED
      BY <3>8 DEF d
  <2>5. QED
    BY <2>3, <2>4, <1>2
<1>3. f \in T
  <2> HIDE DEF T, S
  <2>1. QED
    BY <1>1, <1>2, DestroyLoopKeeps
<1> HIDE DEF f, S
<1>4. /\ f \in StateType /\ f.proc = s.proc /\ f.told = s.told
      /\ \A r \in Record : LeftOver(p, s.rec[r], f.rec[r])
  BY <1>3
<1> HIDE DEF T
<1> DEFINE y == [s.proc[p] EXCEPT !.terminated = TRUE]
<1>5. s \in StateType /\ s.proc[p] \in ProcType /\ Base(s)
  BY Parts DEF Inv, Base
<1>6. /\ y \in ProcType /\ y.terminated /\ y.mStatus = "STOPPING" /\ y.attach = s.proc[p].attach
      /\ y.sent = s.proc[p].sent
  BY <1>5 DEF ProcType
<1>7. n = [f EXCEPT !.proc[p] = y]
  BY <1>4
<1> HIDE DEF y, n
<1>8. /\ n \in StateType /\ n.rec = f.rec /\ n.told = s.told /\ n.proc[p] = y
      /\ \A q \in Proc : q # p => n.proc[q] = s.proc[q]
  <2>1. f \in StateType /\ f.proc = s.proc /\ f.told = s.told
    BY <1>4
  <2>2. /\ n \in StateType /\ n.rec = f.rec /\ n.told = f.told /\ n.proc[p] = y
        /\ \A q \in Proc : q # p => n.proc[q] = f.proc[q]
    BY <2>1, <1>6, <1>7 DEF StateType
  <2>3. QED
    BY <2>1, <2>2
<1>9. \A q \in Proc : /\ n.proc[q].mStatus = s.proc[q].mStatus /\ n.proc[q].attach = s.proc[q].attach
                      /\ n.proc[q].sent = s.proc[q].sent
  BY <1>6, <1>8
<1>10. \A r \in Record : Mail(n, r) = Mail(s, r)
  BY <1>9 DEF Mail, Queue
<1>11. ASSUME NEW r \in Record
       PROVE  /\ n.rec[r] = s.rec[r] \/ (s.rec[r].proc = p /\ Ends(s.rec[r], n.rec[r]))
              /\ s.rec[r].proc # 0 => s.rec[r].proc \in Proc
  BY <1>4, <1>5, <1>8, Parts, RecParts DEF LeftOver
<1>12. ASSUME NEW r \in Record
       PROVE  /\ Answered(n, r, {})
              /\ n.rec[r].listed => s.rec[r].listed
              /\ n.rec[r].mConnectRecord = s.rec[r].mConnectRecord
              /\ n.rec[r].name = s.rec[r].name
              /\ Held(s, r) => Held(n, r)
  <2>1. Answered(s, r, {})
    BY DEF Informed, Told
  <2>2. CASE s.rec[r].proc # p /\ n.rec[r] = s.rec[r]
    <3>1. s.rec[r].proc # 0 => n.proc[s.rec[r].proc] = s.proc[s.rec[r].proc]
      BY <1>8, <1>11, <2>2
    <3>2. (HasApp(n, r) <=> HasApp(s, r)) /\ (Held(n, r) <=> Held(s, r))
      BY <2>2, <3>1 DEF HasApp, Held
    <3>3. Reached(n, r)
      BY <2>1, <2>2, <3>2, <1>10 DEF Answered, Reached, Expects
    <3>4. Addressed(n, r) /\ Heard(n, r, {})
      BY <2>1, <2>2, <3>2, <1>8, <1>10 DEF Answered, Addressed, Heard
    <3>5. QED
      BY <2>2, <3>2, <3>3, <3>4 DEF Answered
  <2>3. CASE s.rec[r].proc = p
    <3>1. p # 0 /\ n.proc[p].terminated
      BY <1>6, <1>8 DEF Proc
    <3>2. CASE n.rec[r] = s.rec[r]
      <4>1. (HasApp(n, r) <=> HasApp(s, r)) /\ Held(n, r)
        BY <2>3, <3>1, <3>2, <1>9 DEF HasApp, Held
      <4>2. Reached(n, r)
        BY <2>1, <3>2, <4>1, <1>10 DEF Answered, Reached, Expects
      <4>3. Addressed(n, r) /\ Heard(n, r, {})
        BY <2>1, <3>2, <4>1, <1>8, <1>10 DEF Answered, Addressed, Heard
      <4>4. QED
        BY <3>2, <4>1, <4>2, <4>3 DEF Answered
    <3>3. CASE Ends(s.rec[r], n.rec[r])
      <4>1. Held(n, r) /\ ~n.rec[r].listed
        BY <2>3, <3>1, <3>3 DEF Held, Ends
      <4>2. Reached(n, r)
        BY <2>1, <3>3, <4>1 DEF Answered, Reached, Ends, NoClient
      <4>3. Addressed(n, r) /\ Heard(n, r, {})
        BY <2>1, <3>3, <4>1, <1>10 DEF Answered, Addressed, Heard, Ends
      <4>4. QED
        BY <3>3, <4>1, <4>2, <4>3 DEF Answered, Ends
    <3>4. QED
      BY <3>2, <3>3, <1>11
  <2>4. QED
    BY <2>2, <2>3, <1>11
<1>13. Told(n, {})
  <2>1. \A r \in Record : \A c \in Conn : Uses(n, r, c) => Uses(s, r, c)
    BY <1>12 DEF Uses
  <2>2. \A c \in Conn : \A r \in Record : Believer(s, r, c) => Believer(n, r, c)
    BY <1>12 DEF Believer
  <2>3. \A q \in Proc : n.proc[q].attach \in {s.proc[q].attach, <<>>} /\ Waited(n, q)
    BY <1>9 DEF Informed, Told, Waited
  <2>4. \A r \in Record : Answered(n, r, {})
    BY <1>12
  <2>5. Told(s, {})
    BY DEF Informed
  <2>6. QED
    BY <2>1, <2>2, <2>3, <2>4, <2>5, <1>8, ToldAfter
<1>14. ASSUME NEW q \in Proc PROVE Occupied(n, q)
  <2>1. CASE q = p
    BY <2>1, <1>6, <1>8 DEF Occupied
  <2>2. CASE q # p
    <3>1. \A r \in Record : Leaving(s, r, q) => Leaving(n, r, q)
      BY <2>2, <1>11 DEF Leaving
    <3>2. Occupied(s, q) /\ n.proc[q] = s.proc[q]
      BY <2>2, <1>8 DEF Informed
    <3>3. QED
      BY <3>1, <3>2 DEF Occupied
  <2>3. QED
    BY <2>1, <2>2
<1>15. QED
  BY <1>13, <1>14 DEF Informed, n, f, S

\* Every message that a client takes leaves the connections informed.
LEMMA HandleTold ==
    ASSUME NEW s, Inv(s, TRUE, Ended(s), 0), Informed(s, {}), NEW p \in Proc, s.proc[p].sent # <<>>
    PROVE  Informed(Handled(Popped(s, p), p, Head(s.proc[p].sent)), {})
<1> DEFINE a == Popped(s, p)
           m == Head(s.proc[p].sent)
           r == m.r
<1>1. s \in StateType /\ Base(s) /\ Tidy(s, p) /\ QueueOK(s, p)
  BY DEF Inv, Base, Orderly
<1>2. /\ m \in Message /\ m \in Queue(s, p) /\ a \in StateType /\ a.rec = s.rec
      /\ \A q \in Proc : /\ a.proc[q].mStatus = s.proc[q].mStatus
                         /\ a.proc[q].attach = s.proc[q].attach
                         /\ a.proc[q].terminated = s.proc[q].terminated
                         /\ a.proc[q].mExistService = s.proc[q].mExistService
  BY <1>1, PoppedFacts
<1>3. m.op \in Ops
  BY <1>2 DEF Message
<1>4. CASE m.op = "TERMINATE"
  <2>1. m.r = 0
    BY <1>1, <1>2, <1>4 DEF Base, Own
  <2>2. a.told = s.told /\ \A q \in Record : Mail(a, q) = Mail(s, q)
    <3>1. 0 \notin Record
      BY BoundsAssumption DEF Record
    <3>2. QED
      BY <2>1, <3>1, <1>1, PoppedAbout
  <2>3. s.proc[p].mStatus = "STOPPING"
    <3>1. Up(s, p)
      BY <1>1 DEF Base, Idle
    <3>2. QED
      BY <3>1, <1>1, <1>2, <1>4 DEF Tidy, Up
  <2>4. Inv(a, TRUE, Ended(s), 0)
    <3>1. Inv(a, TRUE, Ended(s), m.r)
      BY PoppedInv
    <3>2. QED
      BY <2>1, <3>1
  <2> HIDE DEF a, m
  <2>5. Informed(a, {})
    <3>1. \A q \in Record : s.rec[q].proc # 0 => s.rec[q].proc \in Proc
      BY <1>1, Parts, RecParts
    <3>2. ASSUME NEW q \in Record PROVE (HasApp(a, q) <=> HasApp(s, q)) /\ (Held(a, q) <=> Held(s, q))
      BY <3>1, <1>2 DEF HasApp, Held
    <3>3. ASSUME NEW q \in Record PROVE Answered(a, q, {})
      <4>1. Answered(s, q, {})
        BY DEF Informed, Told
      <4>2. Reached(a, q)
        BY <4>1, <3>2, <2>2, <1>2 DEF Answered, Reached, Expects
      <4>3. Addressed(a, q) /\ Heard(a, q, {})
        BY <4>1, <3>2, <2>2, <1>2 DEF Answered, Addressed, Heard
      <4>4. QED
        BY <4>2, <4>3 DEF Answered
    <3>4. \A q \in Record : \A c \in Conn : /\ Uses(a, q, c) => Uses(s, q, c)
                                            /\ Believer(s, q, c) => Believer(a, q, c)
      BY <3>2, <1>2 DEF Uses, Believer
    <3>5. \A q \in Proc : a.proc[q].attach \in {s.proc[q].attach, <<>>} /\ Waited(a, q)
      BY <1>2 DEF Informed, Told, Waited
    <3>6. Told(s, {})
      BY DEF Informed
    <3>7. Told(a, {})
      BY <2>2, <3>3, <3>4, <3>5, <3>6, <1>2, ToldAfter
    <3>8. \A q \in Proc : Occupied(a, q)
      BY <1>2 DEF Informed, Occupied, Leaving
    <3>9. QED
      BY <3>7, <3>8 DEF Informed
  <2>6. Informed([ForEach(OnDestroy, a, Clients(a, p)) EXCEPT !.proc[p].terminated = TRUE], {})
    BY <2>3, <2>4, <2>5, <1>2, TerminateTold
  <2>7. Handled(a, p, m) = [ForEach(OnDestroy, a, Clients(a, p)) EXCEPT !.proc[p].terminated = TRUE]
    BY <1>4 DEF Handled
  <2>8. QED
    BY <2>6, <2>7 DEF a, m
<1>5. CASE m.op # "TERMINATE"
  <2>1. /\ Hands(s, a, Handled(a, p, m), m, r, p)
        /\ m.op \in {"UNBIND", "STOP"} => Mail(a, r) = {}
    BY <1>5, HandsFacts
  <2>2. m.op = "STOP" => s.rec[r].asked
    BY <1>1, <1>2 DEF QueueOK
  <2> HIDE DEF a, m
  <2> HIDE DEF r
  <2>3. CASE m.op = "START"
    <3>1. Handled(a, p, m) = OnStart(a, r)
      BY <2>3 DEF Handled, r
    <3>2. QED
      BY <2>1, <2>3, <3>1, StartHandled DEF a, m
  <2>4. CASE m.op = "BIND"
    <3>1. Handled(a, p, m) = OnBind(a, r, m.conn)
      BY <2>4 DEF Handled, r
    <3>2. QED
      BY <2>1, <2>4, <3>1, BindHandled DEF a, m
  <2>5. CASE m.op = "UNBIND"
    <3>1. Handled(a, p, m) = OnUnbind(a, r)
      BY <2>5 DEF Handled, r
    <3>2. QED
      BY <2>1, <2>5, <3>1, UnbindHandled DEF a, m
  <2>6. CASE m.op = "STOP"
    <3>1. Handled(a, p, m) = OnDestroy(a, r)
      BY <2>6 DEF Handled, r
    <3>2. QED
      BY <2>1, <2>2, <2>6, <3>1, StopHandled DEF a, m
  <2>7. QED
    BY <2>3, <2>4, <2>5, <2>6, <1>3, <1>5 DEF Ops
<1>6. QED
  BY <1>4, <1>5

-----------------------------------------------------------------------------
(* The requests of careful callers.                                        *)

\* A service that has been left alone until what was asked of it was done.
Calm(s, r) == ~s.rec[r].asked /\ ~Expects(s, r, {"BIND", "UNBIND", "STOP"})

\* Such a service can be asked.
LEMMA CalmIsFree ==
    ASSUME NEW s \in StateType, NEW r \in Record, Calm(s, r)
    PROVE  /\ Free(s, r)
           /\ \A m \in Mail(s, r) : m.op \notin {"BIND", "UNBIND", "STOP"}
           /\ ~Expects(s, r, {"BIND"}) /\ ~Expects(s, r, {"UNBIND"}) /\ ~Expects(s, r, {"STOP"})
<1>1. \A m \in Mail(s, r) : m.op \notin {"BIND", "UNBIND", "STOP"}
  BY DEF Calm, Expects
<1>2. ASSUME NEW p \in Proc, NEW m \in Queue(s, p), m.r = r PROVE m \in Mail(s, r)
  <2>1. s.proc[p].sent \in Seq(Message)
    BY Parts, ProcParts
  <2>2. m \in Message
    BY <2>1, <1>2 DEF Queue, ToSet
  <2>3. QED
    BY <2>2, <1>2 DEF Mail
<1>3. QED
  BY <1>1, <1>2 DEF Free, Expects

\* A request of one record keeps Informed when the record is answered, uses no
\* connection that is in use, its connections are told, and its process is occupied.
LEMMA RequestKeeps ==
    ASSUME NEW s \in StateType, NEW E, Informed(s, E), NEW r \in Record, NEW p \in Proc,
           s.rec[r].proc = p, NEW n, Local(s, n, r), Answered(n, r, E),
           \A c \in Conn : Uses(n, r, c) => Uses(s, r, c) \/ ~Busy(s, c),
           \A c \in Conn : Hears(s, n, r, c, E), Occupied(n, p)
    PROVE  Informed(n, E)
<1>1. About(s, n, r)
  BY AboutOfLocal
<1>2. Told(n, E)
  BY <1>1, ToldStep DEF Informed
<1>3. /\ \A q \in Record \ {r} : n.rec[q] = s.rec[q]
      /\ \A q \in Proc \ {p} : n.proc[q] = s.proc[q]
  BY DEF Local
<1>4. \A q \in Proc : Occupied(n, q)
  <2>1. s.rec[r].proc \in {0, p} /\ \A q \in Proc \ {p} : Occupied(s, q)
    BY DEF Informed
  <2>2. QED
    BY <1>3, <2>1, OccupiedStep
<1>5. QED
  BY <1>2, <1>4 DEF Informed

\* What a service in a process that is up shows while it is left alone.
CalmShown(s, r, E) ==
    LET x == s.rec[r]
        p == x.proc
    IN /\ s \in StateType /\ Base(s) /\ p \in Proc /\ p # 0
       /\ Shows(s, r, x, s.told, Mail(s, r), s.proc[p].mExistService)
       /\ x.mStartFlag # {} /\ ~x.asked
       /\ x.client.exists \/ Expects(s, r, {"START"})
       /\ x.client.binded \/ "BINDED" \notin x.mStartFlag
       /\ x.mServiceBinder => x.client.binded /\ x.name \in HasBinder
       /\ ~x.client.exists => ~x.client.binded
       /\ x.mConnectRecord \subseteq Conn
       /\ "BINDED" \in x.mStartFlag <=> x.mConnectRecord # {}
       /\ x.name \in HasBinder => \A c \in x.mConnectRecord \ E : s.told[c] = "connected"

LEMMA CalmShows ==
    ASSUME NEW s, Inv(s, TRUE, Ended(s), 0), NEW E, Informed(s, E), NEW r \in Record,
           s.rec[r].listed, HasApp(s, r), Calm(s, r)
    PROVE  CalmShown(s, r, E)
<1> DEFINE x == s.rec[r]
           p == x.proc
<1>1. s \in StateType /\ Base(s) /\ Reached(s, r) /\ Heard(s, r, E) /\ Sound(s, r)
  BY DEF Inv, Base, Informed, Told, Answered
<1>2. p \in Proc /\ p # 0 /\ x.mConnectRecord \subseteq Conn
  BY <1>1, Parts, RecParts DEF HasApp
<1>3. /\ \A m \in Mail(s, r) : m.op \notin {"BIND", "UNBIND", "STOP"}
      /\ ~Expects(s, r, {"BIND"}) /\ ~Expects(s, r, {"UNBIND"})
  BY <1>1, CalmIsFree
<1>4. Expects(s, r, {"START", "BIND"}) => Expects(s, r, {"START"})
  BY <1>3 DEF Expects
<1>5. Shows(s, r, x, s.told, Mail(s, r), s.proc[p].mExistService)
  BY <1>1, <1>2, ShowsIt
<1>6. ~x.asked
  BY DEF Calm
<1>7. x.mStartFlag # {}
  BY <1>1, <1>3, <1>6 DEF Reached
<1>8. /\ x.client.exists \/ Expects(s, r, {"START"})
      /\ x.client.binded \/ "BINDED" \notin x.mStartFlag
      /\ x.mServiceBinder => x.client.binded /\ x.name \in HasBinder
      /\ ~x.client.exists => ~x.client.binded
  BY <1>1, <1>3, <1>4 DEF Reached
<1>9. x.name \in HasBinder => \A c \in x.mConnectRecord \ E : s.told[c] = "connected"
  BY <1>1, <1>3, <1>6 DEF Heard
<1>10. "BINDED" \in x.mStartFlag <=> x.mConnectRecord # {}
  BY <1>1 DEF Sound
<1>11. QED
  BY <1>1, <1>2, <1>5, <1>6, <1>7, <1>8, <1>9, <1>10 DEF CalmShown

\* A process that counts what it counted before is occupied as before, when the record of
\* the request was not its last hope.
LEMMA OccupiedAsBefore ==
    ASSUME NEW s, NEW E, Informed(s, E), NEW r \in Record, NEW n, Local(s, n, r), NEW p \in Proc,
           s.proc[p].mExistService = <<>> => n.proc[p].mExistService # <<>> \/ ~Leaving(s, r, p)
                                             \/ Leaving(n, r, p),
           n.proc[p].mExistService = <<>> => s.proc[p].mExistService = <<>> \/ Leaving(n, r, p)
    PROVE  Occupied(n, p)
<1> SUFFICES ASSUME n.proc[p].mStatus = "RUNNING", n.proc[p].mExistService = <<>>, ~Leaving(n, r, p)
             PROVE  \E i \in Record : Leaving(n, i, p)
  BY DEF Occupied
<1>1. s.proc[p].mStatus = "RUNNING"
  BY DEF Local, LocalProc
<1>2. s.proc[p].mExistService = <<>> /\ ~Leaving(s, r, p)
  OBVIOUS
<1>3. PICK i \in Record : Leaving(s, i, p)
  BY <1>1, <1>2 DEF Informed, Occupied
<1>4. i # r
  BY <1>2, <1>3
<1>5. n.rec[i] = s.rec[i]
  BY <1>4 DEF Local
<1>6. QED
  BY <1>3, <1>5 DEF Leaving

\* bind() of a service that is there.
LEMMA BindTold ==
    ASSUME NEW s, Inv(s, TRUE, Ended(s), 0), Informed(s, {}), NEW r \in Record,
           s.rec[r].listed, HasApp(s, r), Calm(s, r), NEW conn \in Conn, ~Busy(s, conn)
    PROVE  Informed(Bind(s, r, conn), {})
<1> DEFINE x == s.rec[r]
           p == x.proc
           M == Mail(s, r)
           exist == s.proc[p].mExistService
           n == Bind(s, r, conn)
           flag == x.mStartFlag \union {"BINDED"}
           conns == x.mConnectRecord \union {conn}
           z == [x EXCEPT !.mStartFlag = flag]
           y == [z EXCEPT !.mConnectRecord = conns]
           m == [op |-> "BIND", r |-> r, conn |-> conn]
<1>1. /\ s \in StateType /\ Base(s) /\ p \in Proc /\ p # 0
      /\ Shows(s, r, x, s.told, M, exist)
      /\ x.mStartFlag # {} /\ ~x.asked /\ x.listed
      /\ x.client.exists \/ Expects(s, r, {"START"})
      /\ x.mServiceBinder => x.client.binded /\ x.name \in HasBinder
      /\ ~x.client.exists => ~x.client.binded
      /\ x.mConnectRecord \subseteq Conn
      /\ x.name \in HasBinder => \A c \in x.mConnectRecord : s.told[c] = "connected"
  <2>1. CalmShown(s, r, {})
    BY CalmShows
  <2>2. QED
    BY <2>1 DEF CalmShown
<1>2. \A i \in M : i.op \notin {"BIND", "UNBIND", "STOP"}
  BY <1>1, CalmIsFree
<1>3. Local(s, n, r)
  <2>1. Free(s, r) /\ ~s.rec[r].asked
    BY <1>1, CalmIsFree
  <2>2. Step(s, Bind(s, r, conn), r, TRUE, Ended(s), 0)
    BY <2>1, <1>1, BindStep
  <2>3. QED
    BY <2>2 DEF Step
<1>4. x \in RecType
  BY <1>1, Parts
<1>5. flag \in SUBSET Flags /\ conns \in SUBSET Conn
  BY <1>1, <1>4 DEF RecType, Flags
<1>6. /\ y.name = x.name /\ y.proc = p /\ y.listed /\ y.mStartFlag = flag /\ y.mConnectRecord = conns
      /\ ~y.asked /\ y.mServiceBinder = x.mServiceBinder /\ y.client = x.client
  <2> HIDE DEF flag, conns
  <2>1. z \in RecType /\ z.name = x.name /\ z.proc = p /\ z.listed /\ z.mStartFlag = flag
        /\ ~z.asked /\ z.mServiceBinder = x.mServiceBinder /\ z.client = x.client
    BY <1>1, <1>4, <1>5 DEF RecType
  <2> HIDE DEF z
  <2>2. QED
    BY <2>1 DEF RecType
<1>7. IF x.mServiceBinder THEN Shows(n, r, y, TellAll(s.told, {conn}, "connected"), M, exist)
      ELSE Shows(n, r, y, s.told, M \union {m}, exist)
  <2>1. y = [x EXCEPT !.mStartFlag = flag, !.mConnectRecord = conns]
    OBVIOUS
  <2> HIDE DEF n, M, exist, m, y
  <2>2. IF x.mServiceBinder
        THEN Shows(Bind(s, r, conn), r, [x EXCEPT !.mStartFlag = flag, !.mConnectRecord = conns],
                   TellAll(s.told, {conn}, "connected"), M,
                   IF x.mStartFlag = {} THEN Append(exist, r) ELSE exist)
        ELSE Shows(Bind(s, r, conn), r, [x EXCEPT !.mStartFlag = flag, !.mConnectRecord = conns],
                   s.told, M \union {[op |-> "BIND", r |-> r, conn |-> conn]},
                   IF x.mStartFlag = {} THEN Append(exist, r) ELSE exist)
    BY <1>1, BindShows
  <2>3. QED
    BY <2>1, <2>2, <1>1 DEF n, m
<1> HIDE DEF n, y, z, m
<1>8. n.rec[r] = y /\ n.proc[p].mExistService = exist
  BY <1>6, <1>7 DEF Shows
<1>9. m.op = "BIND" /\ m.conn = conn /\ m.r = r
  BY DEF m
<1>10. /\ \A c \in Conn : n.told[c] = IF c = conn /\ x.mServiceBinder THEN "connected" ELSE s.told[c]
       /\ Mail(n, r) = IF x.mServiceBinder THEN M ELSE M \union {m}
  BY <1>7 DEF Shows, TellAll
<1>11. Held(n, r) /\ (Held(s, r) <=> TRUE)
  BY <1>1, <1>6, <1>8 DEF Held
<1>12. Reached(n, r)
  <2>1. x.client.exists \/ Expects(n, r, {"START", "BIND"})
    BY <1>1, <1>10 DEF Expects
  <2>2. x.client.binded \/ Expects(n, r, {"BIND"})
    BY <1>1, <1>9, <1>10 DEF Expects
  <2>3. QED
    BY <2>1, <2>2, <1>1, <1>6, <1>8 DEF Reached
<1>13. Addressed(n, r)
  BY <1>2, <1>6, <1>8, <1>9, <1>10, <1>11 DEF Addressed
<1>14. Heard(n, r, {})
  BY <1>1, <1>5, <1>6, <1>8, <1>9, <1>10 DEF Heard
<1>15. \A c \in Conn : Uses(n, r, c) => Uses(s, r, c) \/ ~Busy(s, c)
  BY <1>1, <1>6, <1>8 DEF Uses
<1>16. \A c \in Conn : Hears(s, n, r, c, {})
  BY <1>1, <1>6, <1>8, <1>10, <1>11 DEF Hears, Believer
<1>17. Occupied(n, p)
  <2>1. ~Leaving(s, r, p)
    BY <1>1 DEF Leaving
  <2>2. QED
    BY <2>1, <1>1, <1>3, <1>8, OccupiedAsBefore
<1>18. QED
  BY <1>1, <1>3, <1>12, <1>13, <1>14, <1>15, <1>16, <1>17, RequestKeeps DEF Answered, n

\* stop() of a service that is there.
LEMMA StopTold ==
    ASSUME NEW s, Inv(s, TRUE, Ended(s), 0), Informed(s, {}), NEW r \in Record,
           s.rec[r].listed, HasApp(s, r), Calm(s, r)
    PROVE  Informed(Stop(s, r), {})
<1> DEFINE x == s.rec[r]
           p == x.proc
           M == Mail(s, r)
           exist == s.proc[p].mExistService
           n == Stop(s, r)
           y == [x EXCEPT !.asked = TRUE]
           m == [op |-> "STOP", r |-> r, conn |-> NoConn]
<1>1. /\ s \in StateType /\ Base(s) /\ p \in Proc /\ p # 0
      /\ Shows(s, r, x, s.told, M, exist)
      /\ x.mStartFlag # {} /\ ~x.asked /\ x.listed
      /\ x.client.exists \/ Expects(s, r, {"START"})
      /\ x.client.binded \/ "BINDED" \notin x.mStartFlag
      /\ x.mServiceBinder => x.client.binded /\ x.name \in HasBinder
      /\ ~x.client.exists => ~x.client.binded
  <2>1. CalmShown(s, r, {})
    BY CalmShows
  <2>2. QED
    BY <2>1 DEF CalmShown
<1>2. \A i \in M : i.op \notin {"BIND", "UNBIND", "STOP"}
  BY <1>1, CalmIsFree
<1>3. Local(s, n, r)
  <2>1. Free(s, r)
    BY <1>1, CalmIsFree
  <2>2. Step(s, Stop(s, r), r, TRUE, Ended(s), 0)
    BY <2>1, <1>1, StopStep
  <2>3. QED
    BY <2>2 DEF Step
<1>4. /\ y.name = x.name /\ y.proc = p /\ y.listed /\ y.mStartFlag = x.mStartFlag
      /\ y.mConnectRecord = x.mConnectRecord
      /\ y.asked /\ y.mServiceBinder = x.mServiceBinder /\ y.client = x.client
  <2>1. x \in RecType
    BY <1>1, Parts
  <2>2. QED
    BY <2>1, <1>1 DEF RecType
<1>5. Shows(n, r, y, TellAll(s.told, x.mConnectRecord, "disconnected"), M \union {m}, SwappedOut(exist, r))
  BY <1>1, StopShows
<1> HIDE DEF n, y, m
<1>6. /\ n.rec[r] = y /\ Mail(n, r) = M \union {m}
      /\ n.told = TellAll(s.told, x.mConnectRecord, "disconnected")
  BY <1>5 DEF Shows
<1>7. m.op = "STOP"
  BY DEF m
<1>8. Reached(n, r)
  <2>1. x.client.exists \/ Expects(n, r, {"START", "BIND"})
    BY <1>1, <1>6 DEF Expects
  <2>2. ~Expects(n, r, {"UNBIND"}) /\ Expects(n, r, {"STOP"})
    BY <1>2, <1>6, <1>7 DEF Expects
  <2>3. QED
    BY <2>1, <2>2, <1>1, <1>4, <1>6 DEF Reached
<1>9. Addressed(n, r)
  BY <1>2, <1>6, <1>7 DEF Addressed
<1>10. Heard(n, r, {})
  BY <1>4, <1>6 DEF Heard
<1>11. \A c \in Conn : Hears(s, n, r, c, {})
  <2> SUFFICES ASSUME NEW c \in Conn PROVE Hears(s, n, r, c, {})
    OBVIOUS
  <2>1. n.told[c] = IF c \in x.mConnectRecord THEN "disconnected" ELSE s.told[c]
    BY <1>6 DEF TellAll
  <2>2. CASE c \in x.mConnectRecord
    BY <2>1, <2>2, <1>1 DEF Hears, Uses
  <2>3. CASE c \notin x.mConnectRecord
    BY <2>1, <2>3 DEF Hears, Believer
  <2>4. QED
    BY <2>2, <2>3
<1>12. \A c \in Conn : Uses(n, r, c) => Uses(s, r, c) \/ ~Busy(s, c)
  BY <1>1, <1>4, <1>6 DEF Uses
<1>13. Occupied(n, p)
  <2>1. Leaving(n, r, p)
    BY <1>4, <1>6 DEF Leaving
  <2>2. QED
    BY <2>1 DEF Occupied
<1>14. QED
  BY <1>1, <1>3, <1>8, <1>9, <1>10, <1>11, <1>12, <1>13, RequestKeeps DEF Answered, n

\* stopService().
LEMMA StopServiceRealTold ==
    ASSUME NEW s, Inv(s, TRUE, Ended(s), 0), Informed(s, {}), NEW r \in Record,
           s.rec[r].listed, HasApp(s, r), Calm(s, r)
    PROVE  Informed(StopServiceReal(s, r), {})
BY StopTold DEF StopServiceReal

-----------------------------------------------------------------------------
(* New services and new tasks.                                             *)

\* What a new service of process p leaves.
Joins(s, n, p, conn) ==
    /\ Told(n, {})
    /\ \A q \in Proc : Occupied(n, q) /\ n.proc[q].attach = s.proc[q].attach
    /\ \A c \in Conn : Busy(n, c) => Busy(s, c) \/ c = conn

\* What a new record shows once it was started or bound.
Enters(x, y, m, r, conn) ==
    /\ y.name = x.name /\ y.proc = x.proc /\ y.client = x.client /\ y.listed /\ ~y.asked
    /\ ~y.mServiceBinder /\ m.r = r
    /\ \/ m.op = "START" /\ y.mStartFlag = {"STARTED"} /\ y.mConnectRecord = {}
       \/ m.op = "BIND" /\ y.mStartFlag = {"BINDED"} /\ y.mConnectRecord = {conn}
          /\ m.conn = conn /\ conn \in Conn

\* A new record for a process that runs.
LEMMA NewServiceTold ==
    ASSUME NEW s, NEW X, Inv(s, TRUE, X, 0), Told(s, {}), NEW name \in Name, NEW p \in Proc,
           s.proc[p].mStatus = "RUNNING", s.records < MaxRecords,
           name \notin NamesInUse(s, p, 0),
           NEW conn \in Conn \union {NoConn}, conn \in Conn => ~Busy(s, conn),
           \A q \in Proc \ {p} : Occupied(s, q)
    PROVE  Joins(s, NewService(s, name, p, conn), p, conn)
<1> DEFINE r == s.records + 1
           e == Enlisted(s, name, p)
           x == [NoRecord EXCEPT !.name = name, !.proc = p, !.listed = TRUE]
           n == NewService(s, name, p, conn)
           exist == s.proc[p].mExistService
<1>1. /\ Inv(e, TRUE, X, 0) /\ r \in Record /\ s.rec[r].proc = 0
      /\ e.proc = s.proc /\ e.records = r /\ e.procs = s.procs
      /\ \A q \in Record \ {r} : e.rec[q] = s.rec[q]
      /\ e.rec[r].name = name /\ e.rec[r].proc = p /\ e.rec[r].listed
      /\ ~e.rec[r].asked /\ e.rec[r].mStartFlag = {} /\ Free(e, r)
  BY EnlistedInv
<1>2. s \in StateType /\ Base(s) /\ p # 0 /\ e \in StateType /\ r > s.records
  <2>1. s \in StateType /\ Base(s) /\ e \in StateType
    BY <1>1 DEF Inv, Base
  <2>2. s.records \in 0..MaxRecords
    BY <2>1, Parts
  <2>3. QED
    BY <2>1, <2>2, BoundsAssumption DEF Proc
<1>3. s.rec[r] = NoRecord
  BY <1>1, <1>2 DEF Base, Fresh
<1>4. e.told = s.told /\ e.rec[r] = x
  BY <1>1, <1>2 DEF Enlisted, StateType
<1>5. /\ x.name = name /\ x.proc = p /\ x.listed /\ ~x.asked /\ x.mStartFlag = {}
      /\ x.client = NoClient /\ x.mConnectRecord = {} /\ ~x.mServiceBinder
  <2> HIDE DEF CREATING
  <2>1. QED
    BY DEF NoRecord
<1>6. n = Serve(e, r, conn)
  BY DEF NewService, Enlisted
<1> HIDE DEF e, x, n, r
<1>7. Local(e, n, r) /\ n \in StateType
  <2>1. Step(e, n, r, TRUE, X, 0)
    <3>1. CASE conn = NoConn
      <4>1. n = Start(e, r)
        BY <3>1, <1>6 DEF Serve
      <4>2. QED
        BY <4>1, <1>1, <1>2, StartStep
    <3>2. CASE conn # NoConn
      <4>1. n = Bind(e, r, conn) /\ conn \in Conn
        BY <3>2, <1>6 DEF Serve
      <4>2. QED
        BY <4>1, <1>1, <1>2, BindStep
    <3>3. QED
      BY <3>1, <3>2
  <2>2. QED
    BY <2>1 DEF Step, Local
<1>8. \A q \in Record : Mail(e, q) = Mail(s, q)
  BY <1>1 DEF Mail, Queue
<1>9. About(s, n, r)
  <2>1. About(s, e, r)
    BY <1>1, <1>2, <1>8 DEF About, Up
  <2>2. About(e, n, r)
    BY <1>1, <1>2, <1>7, AboutOfLocal
  <2>3. QED
    BY <2>1, <2>2, AboutIsTransitive
<1>10. Mail(e, r) = {}
  <2>1. ASSUME NEW m \in Mail(s, r) PROVE FALSE
    <3>1. s.rec[r].proc \in Proc
      BY <1>1, <1>2, MailFacts
    <3>2. QED
      BY <3>1, <1>1 DEF Proc
  <2>2. QED
    BY <2>1, <1>1, <1>8
<1>11. HasApp(e, r)
  BY <1>1, <1>2 DEF HasApp
<1>12. Shows(e, r, x, s.told, {}, exist)
  <2>1. e.proc[p].mExistService = exist /\ e.rec[r].proc # 0
    BY <1>1, <1>2
  <2> HIDE DEF exist
  <2>2. Shows(e, r, e.rec[r], e.told, Mail(e, r), e.proc[e.rec[r].proc].mExistService)
    BY <1>1, <1>2, <2>1, ShowsIt
  <2>3. QED
    BY <2>1, <2>2, <1>1, <1>4, <1>10
<1> HIDE DEF exist
<1>13. PICK y, m : Shows(n, r, y, s.told, {m}, Append(exist, r)) /\ Enters(x, y, m, r, conn)
  <2>0. x \in RecType
    BY <1>1, <1>2, <1>4, Parts
  <2>1. CASE conn = NoConn
    <3> DEFINE m == [op |-> "START", r |-> r, conn |-> NoConn]
               flag == x.mStartFlag \union {"STARTED"}
               y == [x EXCEPT !.mStartFlag = flag]
    <3>1. n = Start(e, r)
      BY <2>1, <1>6 DEF Serve
    <3>2. Shows(n, r, y, s.told, {} \union {m}, Append(exist, r))
      BY <3>1, <1>11, <1>12, StartShows
    <3>3. {} \union {m} = {m} /\ m.op = "START" /\ m.r = r
      OBVIOUS
    <3>4. flag = {"STARTED"} /\ flag \in SUBSET Flags
      BY <1>5 DEF Flags
    <3> HIDE DEF flag
    <3>5. /\ y.name = x.name /\ y.proc = x.proc /\ y.client = x.client /\ y.listed /\ ~y.asked
          /\ ~y.mServiceBinder /\ y.mStartFlag = flag /\ y.mConnectRecord = {}
      BY <1>5, <2>0 DEF RecType
    <3> HIDE DEF m, y
    <3>6. Enters(x, y, m, r, conn)
      BY <3>3, <3>4, <3>5 DEF Enters
    <3>7. QED
      BY <3>2, <3>3, <3>6
  <2>2. CASE conn # NoConn
    <3> DEFINE m == [op |-> "BIND", r |-> r, conn |-> conn]
               flag == x.mStartFlag \union {"BINDED"}
               conns == x.mConnectRecord \union {conn}
               z == [x EXCEPT !.mStartFlag = flag]
               y == [z EXCEPT !.mConnectRecord = conns]
    <3>1. n = Bind(e, r, conn) /\ conn \in Conn
      BY <2>2, <1>6 DEF Serve
    <3>2. Shows(n, r, y, s.told, {} \union {m}, Append(exist, r))
      <4>1. y = [x EXCEPT !.mStartFlag = flag, !.mConnectRecord = conns]
        OBVIOUS
      <4>2. x.mStartFlag = {} /\ ~x.mServiceBinder
        BY <1>5
      <4> HIDE DEF m, y
      <4>3. LET w == [x EXCEPT !.mStartFlag = x.mStartFlag \union {"BINDED"},
                               !.mConnectRecord = x.mConnectRecord \union {conn}]
                g == IF x.mStartFlag = {} THEN Append(exist, r) ELSE exist
            IN IF x.mServiceBinder
               THEN Shows(Bind(e, r, conn), r, w, TellAll(s.told, {conn}, "connected"), {}, g)
               ELSE Shows(Bind(e, r, conn), r, w, s.told,
                          {} \union {[op |-> "BIND", r |-> r, conn |-> conn]}, g)
        BY <3>1, <1>11, <1>12, BindShows
      <4>4. QED
        BY <4>1, <4>2, <4>3, <3>1 DEF m
    <3>3. {} \union {m} = {m} /\ m.op = "BIND" /\ m.conn = conn /\ m.r = r
      OBVIOUS
    <3>4. flag = {"BINDED"} /\ conns = {conn} /\ flag \in SUBSET Flags /\ conns \in SUBSET Conn
      BY <1>5, <3>1 DEF Flags
    <3> HIDE DEF flag, conns
    <3>5. /\ z.name = x.name /\ z.proc = x.proc /\ z.client = x.client /\ z.listed /\ ~z.asked
          /\ ~z.mServiceBinder /\ z.mStartFlag = flag /\ z \in RecType
      BY <1>5, <2>0, <3>4 DEF RecType
    <3> HIDE DEF z
    <3>6. /\ y.name = x.name /\ y.proc = x.proc /\ y.client = x.client /\ y.listed /\ ~y.asked
          /\ ~y.mServiceBinder /\ y.mStartFlag = flag /\ y.mConnectRecord = conns
      BY <3>5 DEF RecType
    <3> HIDE DEF m, y
    <3>7. Enters(x, y, m, r, conn)
      BY <3>1, <3>3, <3>4, <3>6 DEF Enters
    <3>8. QED
      BY <3>2, <3>3, <3>7
  <2>3. QED
    BY <2>1, <2>2
<1>14. /\ n.rec[r] = y /\ n.told = s.told /\ Mail(n, r) = {m}
       /\ n.proc[p].mExistService = Append(exist, r)
  BY <1>5, <1>13 DEF Shows, Enters
<1>15. /\ y.name = name /\ y.proc = p /\ y.client = NoClient /\ y.listed /\ ~y.asked
       /\ ~y.mServiceBinder
       /\ \/ m.op = "START" /\ y.mStartFlag = {"STARTED"} /\ y.mConnectRecord = {}
          \/ m.op = "BIND" /\ y.mStartFlag = {"BINDED"} /\ y.mConnectRecord = {conn}
             /\ m.conn = conn /\ conn \in Conn
  BY <1>5, <1>13 DEF Enters
<1>16. Answered(n, r, {})
  <2>1. Held(n, r)
    BY <1>14, <1>15 DEF Held
  <2>2. ~NoClient.exists /\ ~NoClient.binded
    BY DEF NoClient
  <2>3. Reached(n, r)
    <3>1. /\ Expects(n, r, {"START", "BIND"}) /\ ~Expects(n, r, {"UNBIND"})
          /\ m.op = "BIND" => Expects(n, r, {"BIND"})
      BY <1>14, <1>15 DEF Expects
    <3>2. /\ ~n.rec[r].client.exists /\ ~n.rec[r].client.binded /\ ~n.rec[r].mServiceBinder
          /\ ~n.rec[r].asked /\ n.rec[r].mStartFlag # {}
          /\ m.op = "START" => "BINDED" \notin n.rec[r].mStartFlag
      <4>1. ~y.client.exists /\ ~y.client.binded /\ ~y.mServiceBinder /\ ~y.asked
        BY <2>2, <1>15
      <4>2. y.mStartFlag # {} /\ (m.op = "START" => "BINDED" \notin y.mStartFlag)
        BY <1>15
      <4>3. QED
        BY <4>1, <4>2, <1>14
    <3>3. QED
      BY <3>1, <3>2, <1>15 DEF Reached
  <2>4. Addressed(n, r)
    BY <2>1, <1>14, <1>15 DEF Addressed
  <2>5. Heard(n, r, {})
    BY <1>14, <1>15 DEF Heard
  <2>6. QED
    BY <2>3, <2>4, <2>5 DEF Answered
<1>17. \A c \in Conn : Uses(n, r, c) => c = conn
  BY <1>14, <1>15 DEF Uses
<1>18. \A c \in Conn : Hears(s, n, r, c, {})
  <2>1. \A c \in Conn : ~Believer(s, r, c)
    BY <1>3 DEF Believer, NoRecord
  <2>2. QED
    BY <2>1, <1>14 DEF Hears
<1>19. Told(n, {})
  BY <1>1, <1>2, <1>9, <1>16, <1>17, <1>18, ToldStep
<1>20. \A q \in Proc : Occupied(n, q)
  <2>1. exist \in Seq(Record)
    BY <1>2, Parts, ProcParts DEF exist
  <2>2. Append(exist, r) # <<>>
    BY <2>1, <1>1, AppendProperties
  <2>3. Occupied(n, p)
    BY <2>2, <1>14 DEF Occupied
  <2>4. /\ \A q \in Record \ {r} : n.rec[q] = s.rec[q]
        /\ \A q \in Proc \ {p} : n.proc[q] = s.proc[q]
    BY <1>1, <1>7 DEF Local
  <2>5. QED
    BY <2>3, <2>4, <1>1, OccupiedStep
<1>21. \A q \in Proc : n.proc[q].attach = s.proc[q].attach
  BY <1>9 DEF About
<1>22. ASSUME NEW c \in Conn, Busy(n, c) PROVE Busy(s, c) \/ c = conn
  <2>1. \A q \in Record : Uses(n, q, c) => Uses(s, q, c) \/ c = conn
    <3>1. \A q \in Record \ {r} : n.rec[q] = s.rec[q]
      BY <1>1, <1>7 DEF Local
    <3>2. QED
      BY <3>1, <1>17 DEF Uses
  <2>2. QED
    BY <2>1, <1>21, <1>22 DEF Busy, Asks
<1>23. QED
  BY <1>19, <1>20, <1>21, <1>22 DEF Joins, n

\* Before its first task is done, the process that attached has told nobody, and the
\* connections of its tasks are free.
LEMMA BegunTold ==
    ASSUME NEW s, Inv(s, TRUE, Ended(s), 0), Informed(s, {}), NEW p \in Proc,
           s.proc[p].mStatus = "ATTACHING"
    PROVE  LET b == Begun(s, p)
           IN /\ Told(b, {}) /\ \A q \in Proc \ {p} : Occupied(b, q)
              /\ \A i \in DOMAIN s.proc[p].attach : Asks(s, p, i) \in Conn => ~Busy(b, Asks(s, p, i))
<1> DEFINE b == Begun(s, p)
           a == s.proc[p]
           y1 == [a EXCEPT !.mStatus = "RUNNING"]
           y == [y1 EXCEPT !.attach = <<>>]
<1>1. s \in StateType /\ Base(s) /\ a \in ProcType /\ Told(s, {}) /\ p # 0
  BY Parts DEF Inv, Base, Informed, Proc
<1>2. /\ y \in ProcType /\ y.mStatus = "RUNNING" /\ y.attach = <<>>
      /\ y.mExistService = a.mExistService /\ y.sent = a.sent /\ y.terminated = a.terminated
  <2> HIDE DEF a
  <2>1. /\ y1 \in ProcType /\ y1.mStatus = "RUNNING"
        /\ y1.mExistService = a.mExistService /\ y1.sent = a.sent /\ y1.terminated = a.terminated
    BY <1>1 DEF ProcType
  <2>2. <<>> \in Seq(Task)
    OBVIOUS
  <2> HIDE DEF y1
  <2>3. QED
    BY <2>1, <2>2 DEF ProcType
<1>3. b = [s EXCEPT !.proc[p] = y] /\ a = s.proc[p]
  BY DEF Begun
<1> HIDE DEF a, y, b
<1>4. /\ b \in StateType /\ b.rec = s.rec /\ b.told = s.told /\ b.proc[p] = y
      /\ \A q \in Proc : q # p => b.proc[q] = s.proc[q]
  BY <1>1, <1>2, <1>3, OneProcess
<1>5. \A r \in Record : s.rec[r].proc # p /\ (s.rec[r].proc # 0 => s.rec[r].proc \in Proc)
  BY <1>1, Parts, RecParts DEF Base, Placed
<1>6. ASSUME NEW r \in Record
      PROVE  (HasApp(b, r) <=> HasApp(s, r)) /\ (Held(b, r) <=> Held(s, r)) /\ Mail(b, r) = Mail(s, r)
  <2>1. \A q \in Proc : Queue(b, q) = Queue(s, q)
    BY <1>2, <1>3, <1>4 DEF Queue
  <2>2. QED
    BY <2>1, <1>4, <1>5 DEF HasApp, Held, Mail
<1>7. ASSUME NEW r \in Record PROVE Answered(b, r, {})
  <2>1. Answered(s, r, {})
    BY <1>1 DEF Told
  <2>2. Reached(b, r)
    BY <2>1, <1>4, <1>6 DEF Answered, Reached, Expects
  <2>3. Addressed(b, r) /\ Heard(b, r, {})
    BY <2>1, <1>4, <1>6 DEF Answered, Addressed, Heard
  <2>4. QED
    BY <2>2, <2>3 DEF Answered
<1>8. \A r \in Record : \A c \in Conn : /\ Uses(b, r, c) => Uses(s, r, c)
                                        /\ Believer(s, r, c) => Believer(b, r, c)
  BY <1>4, <1>6 DEF Uses, Believer
<1>9. ASSUME NEW q \in Proc PROVE b.proc[q].attach \in {s.proc[q].attach, <<>>} /\ Waited(b, q)
  <2>1. CASE q = p
    BY <2>1, <1>2, <1>4 DEF Waited
  <2>2. CASE q # p
    BY <2>2, <1>1, <1>4 DEF Told, Waited
  <2>3. QED
    BY <2>1, <2>2
<1>10. Told(b, {})
  BY <1>1, <1>4, <1>7, <1>8, <1>9, ToldAfter
<1>11. \A q \in Proc \ {p} : Occupied(b, q)
  BY <1>4 DEF Informed, Occupied, Leaving
<1>12. ASSUME NEW i \in DOMAIN s.proc[p].attach, Asks(s, p, i) \in Conn, Busy(b, Asks(s, p, i)) PROVE FALSE
  <2>1. Single(s) /\ Asks(s, p, i) # NoConn
    BY <1>1, <1>12, ConnAssumption DEF Told
  <2>2. \A r \in Record : ~Uses(b, r, Asks(s, p, i))
    BY <2>1, <1>4 DEF Single, Uses
  <2>3. PICK q \in Proc : \E j \in DOMAIN b.proc[q].attach : Asks(b, q, j) = Asks(s, p, i)
    BY <2>2, <1>12 DEF Busy
  <2>4. q # p
    BY <2>3, <1>2, <1>4
  <2>5. \E j \in DOMAIN s.proc[q].attach : Asks(s, q, j) = Asks(s, p, i)
    BY <2>3, <2>4, <1>4 DEF Asks
  <2>6. QED
    BY <2>1, <2>4, <2>5 DEF Single
<1>13. QED
  BY <1>10, <1>11, <1>12 DEF b

\* What is known after k tasks of the attachment.
AttachTold(s, p, k, t) ==
    /\ Told(t, {}) /\ \A q \in Proc \ {p} : Occupied(t, q)
    /\ k >= 1 => Occupied(t, p)
    /\ \A i \in DOMAIN s.proc[p].attach : i > k /\ Asks(s, p, i) \in Conn => ~Busy(t, Asks(s, p, i))

\* The attachment of a process leaves the connections informed.
LEMMA AttachedTold ==
    ASSUME NEW s, Inv(s, TRUE, Ended(s), 0), Informed(s, {}), NEW p \in Proc,
           s.proc[p].mStatus = "ATTACHING", s.records + Len(s.proc[p].attach) <= MaxRecords
    PROVE  Informed(Attached(s, p), {})
<1> DEFINE tasks == s.proc[p].attach
           N == Len(tasks)
<1>1. s \in StateType /\ tasks \in Seq(Task) /\ s.records \in 0..MaxRecords /\ Told(s, {})
  BY Parts, ProcParts DEF Inv, Base, Informed
<1>2. /\ N \in Nat /\ MaxRecords \in Nat /\ s.records \in Nat /\ \A i \in 1..N : tasks[i] \in Task
      /\ s.records + N <= MaxRecords /\ DOMAIN tasks = 1..N
  BY <1>1, BoundsAssumption
<1>3. tasks # <<>>
  BY <1>1 DEF Told, Waited
<1>4. N >= 1
  BY <1>1, <1>2, <1>3
<1>5. PICK f : /\ AttachLoop(s, p, tasks, f) /\ Attached(s, p) = f[N]
               /\ \A k \in 0..N : AttachedSoFar(s, TRUE, p, k, f[k])
               /\ \A k \in 1..N : tasks[k].name \notin NamesInUse(f[k - 1], p, 0)
  BY AttachedFollows
<1>6. tasks = s.proc[p].attach
  OBVIOUS
<1> HIDE DEF tasks
<1>7. \A k \in 0..N : f[k] = IF k = 0 THEN Begun(s, p)
                             ELSE NewService(f[k - 1], tasks[k].name, p, tasks[k].conn)
  BY <1>5 DEF AttachLoop
<1> HIDE DEF N
<1> DEFINE good == {k \in 0..N : AttachTold(s, p, k, f[k])}
<1>8. 0 \in good
  <2> DEFINE b == Begun(s, p)
  <2>1. /\ Told(b, {}) /\ \A q \in Proc \ {p} : Occupied(b, q)
        /\ \A i \in DOMAIN s.proc[p].attach : Asks(s, p, i) \in Conn => ~Busy(b, Asks(s, p, i))
    BY BegunTold
  <2>2. 0 \in 0..N /\ f[0] = b
    BY <1>2, <1>7
  <2> HIDE DEF b
  <2>3. AttachTold(s, p, 0, b)
    BY <2>1 DEF AttachTold
  <2>4. QED
    BY <2>2, <2>3
<1>9. ASSUME NEW k \in 0..(N - 1), k \in good PROVE k + 1 \in good
  <2> DEFINE j == k + 1
             t == f[k]
             n == f[j]
             conn == tasks[j].conn
  <2>1. /\ j \in 1..N /\ j \in 0..N /\ j # 0 /\ j - 1 = k /\ k \in 0..N /\ s.records + k < MaxRecords
        /\ j > k /\ j \in DOMAIN tasks /\ \A i \in 1..N : i > j => i > k /\ i # j
    BY <1>2
  <2> HIDE DEF j
  <2>2. conn = Asks(s, p, j) /\ tasks[j].name \in Name /\ conn \in Conn \union {NoConn}
    BY <2>1, <1>2, <1>6 DEF Asks, Task
  <2>3. n = NewService(t, tasks[j].name, p, conn)
    BY <2>1, <1>7
  <2>4. /\ Inv(t, TRUE, Ended(s), 0) /\ t.records = s.records + k /\ t.proc[p].mStatus = "RUNNING"
    BY <2>1, <1>5 DEF AttachedSoFar
  <2>5. tasks[j].name \notin NamesInUse(t, p, 0)
    BY <2>1, <1>5
  <2>6. AttachTold(s, p, k, t)
    BY <1>9
  <2> HIDE DEF t, n, conn
  <2>7. conn \in Conn => ~Busy(t, conn)
    BY <2>1, <2>2, <2>6, <1>6 DEF AttachTold
  <2>8. Joins(t, n, p, conn)
    BY <2>1, <2>2, <2>3, <2>4, <2>5, <2>6, <2>7, NewServiceTold DEF AttachTold
  <2>9. ASSUME NEW i \in DOMAIN s.proc[p].attach, i > j, Asks(s, p, i) \in Conn, Busy(n, Asks(s, p, i))
        PROVE  FALSE
    <3>1. ~Busy(t, Asks(s, p, i)) /\ i # j /\ Asks(s, p, i) # NoConn
      BY <2>1, <2>6, <2>9, <1>2, <1>6, ConnAssumption DEF AttachTold
    <3>2. Asks(s, p, i) = Asks(s, p, j)
      BY <2>2, <2>8, <2>9, <3>1 DEF Joins
    <3>3. QED
      BY <2>1, <3>1, <3>2, <1>1, <1>6 DEF Told, Single
  <2>10. AttachTold(s, p, j, n)
    BY <2>8, <2>9 DEF AttachTold, Joins
  <2>11. j \in good
    BY <2>1, <2>10 DEF n
  <2>12. QED
    BY <2>11 DEF j
<1>10. 0..N \subseteq good
  <2> HIDE DEF good
  <2>1. QED
    BY <1>2, <1>8, <1>9, UpTo
<1>11. AttachTold(s, p, N, f[N])
  <2>1. N \in 0..N
    BY <1>2
  <2>2. N \in good
    BY <2>1, <1>10
  <2>3. QED
    BY <2>2
<1>12. QED
  BY <1>4, <1>5, <1>11 DEF AttachTold, Informed

\* A task that waits for process p, the only one with its connection.
Queued(s, n, p, y, k, conn) ==
    /\ n = [s EXCEPT !.procs = k, !.proc[p] = y]
    /\ s.proc[p].mStatus \in {"NONE", "ATTACHING"} /\ y.mStatus = "ATTACHING"
    /\ y.sent = <<>> /\ y.attach # <<>>
    /\ \A i \in DOMAIN y.attach : \/ y.attach[i].conn = conn
                                  \/ i \in DOMAIN s.proc[p].attach /\ y.attach[i] = s.proc[p].attach[i]
    /\ conn \in Conn => \A i, j \in DOMAIN y.attach :
          y.attach[i].conn = conn /\ y.attach[j].conn = conn => i = j

\* submitAppStartupTask() leaves the connections informed.
LEMMA SubmitTold ==
    ASSUME NEW s, Inv(s, TRUE, Ended(s), 0), Informed(s, {}), NEW name \in Name,
           NEW conn \in Conn \union {NoConn}, conn \in Conn => ~Busy(s, conn),
           NEW n \in SubmitAppStartupTask(s, name, conn)
    PROVE  Informed(n, {})
<1> DEFINE task == [name |-> name, conn |-> conn]
<1>1. s \in StateType /\ Base(s) /\ s.procs \in 0..MaxProcs /\ Told(s, {}) /\ Single(s)
  BY Parts DEF Inv, Base, Informed, Told
<1>2. task \in Task /\ task.conn = conn
  BY DEF Task
<1> HIDE DEF task
<1>3. PICK p \in Proc, y \in ProcType, k \in 0..MaxProcs : Queued(s, n, p, y, k, conn)
  <2>1. CASE In(s, "ATTACHING") # {}
    <3>1. PICK p \in In(s, "ATTACHING") : n = [s EXCEPT !.proc[p].attach = Append(s.proc[p].attach, task)]
      BY <2>1 DEF SubmitAppStartupTask, task
    <3> DEFINE a == s.proc[p]
               w == Append(a.attach, task)
               y == [a EXCEPT !.attach = w]
               l == Len(a.attach)
    <3>2. p \in Proc /\ a.mStatus = "ATTACHING" /\ a \in ProcType /\ a.attach \in Seq(Task)
      BY <1>1, Parts, ProcParts DEF In
    <3>3. a.sent = <<>>
      BY <3>2, <1>1 DEF Base, Idle, Up
    <3>4. a = s.proc[p] /\ n = [s EXCEPT !.proc[p] = y]
      BY <3>1
    <3>5. ASSUME conn \in Conn, NEW i \in DOMAIN a.attach PROVE a.attach[i].conn # conn
      BY <3>2, <3>5 DEF Busy, Asks
    <3>6. /\ l \in Nat /\ DOMAIN a.attach = 1..l /\ w \in Seq(Task) /\ DOMAIN w = 1..(l + 1)
          /\ w[l + 1] = task /\ \A i \in 1..l : w[i] = a.attach[i]
      BY <3>2, <1>2, AppendProperties, SMTT(20)
    <3>7. 1 \in DOMAIN w /\ \A i \in DOMAIN w : i \in 1..l \/ i = l + 1
      BY <3>6
    <3> HIDE DEF a, w, l
    <3>8. y \in ProcType /\ y.attach = w /\ y.mStatus = a.mStatus /\ y.sent = a.sent
      BY <3>2, <3>6 DEF ProcType
    <3> HIDE DEF y
    <3>9. n = [s EXCEPT !.procs = s.procs, !.proc[p] = y]
      BY <3>4, <1>1 DEF StateType
    <3>10. \A i \in DOMAIN w : \/ w[i].conn = conn
                               \/ i \in DOMAIN a.attach /\ w[i] = a.attach[i]
      BY <3>6, <3>7, <1>2
    <3>11. conn \in Conn => \A i, j \in DOMAIN w : w[i].conn = conn /\ w[j].conn = conn => i = j
      BY <3>5, <3>6, <3>7
    <3>12. w # <<>>
      BY <3>7
    <3>13. Queued(s, n, p, y, s.procs, conn)
      BY <3>2, <3>3, <3>4, <3>8, <3>9, <3>10, <3>11, <3>12 DEF Queued
    <3>14. QED
      BY <3>2, <3>8, <3>13, <1>1
  <2>2. CASE In(s, "ATTACHING") = {}
    <3> DEFINE p == s.procs + 1
               z == [NoProc EXCEPT !.mStatus = "ATTACHING"]
               y == [z EXCEPT !.attach = <<task>>]
    <3>1. s.procs # MaxProcs /\ n = [s EXCEPT !.procs = p, !.proc[p] = y]
      BY <2>2 DEF SubmitAppStartupTask, task
    <3>2. p \in Proc /\ p \in 0..MaxProcs /\ p > s.procs
      BY <3>1, <1>1, BoundsAssumption DEF Proc
    <3>3. NoProc \in ProcType /\ NoProc.sent = <<>>
      BY DEF NoProc, ProcType
    <3>4. z \in ProcType /\ z.sent = <<>> /\ z.mStatus = "ATTACHING"
      BY <3>3 DEF ProcType
    <3>5. <<task>> \in Seq(Task) /\ DOMAIN <<task>> = {1} /\ <<task>>[1].conn = conn /\ <<task>> # <<>>
      BY <1>2
    <3> HIDE DEF z
    <3>6. y \in ProcType /\ y.attach = <<task>> /\ y.mStatus = "ATTACHING" /\ y.sent = <<>>
      BY <3>4, <3>5 DEF ProcType
    <3>7. s.proc[p].mStatus = "NONE"
      BY <3>2, <1>1 DEF Base, Fresh
    <3> HIDE DEF y, p
    <3>8. Queued(s, n, p, y, p, conn)
      BY <3>1, <3>5, <3>6, <3>7 DEF Queued
    <3>9. QED
      BY <3>2, <3>6, <3>8
  <2>3. QED
    BY <2>1, <2>2
<1>4. /\ n = [s EXCEPT !.procs = k, !.proc[p] = y]
      /\ s.proc[p].mStatus \in {"NONE", "ATTACHING"} /\ y.mStatus = "ATTACHING"
      /\ y.sent = <<>> /\ y.attach # <<>>
      /\ \A i \in DOMAIN y.attach : \/ y.attach[i].conn = conn
                                    \/ i \in DOMAIN s.proc[p].attach /\ y.attach[i] = s.proc[p].attach[i]
  BY <1>3 DEF Queued
<1>5. conn \in Conn => \A i, j \in DOMAIN y.attach : y.attach[i].conn = conn /\ y.attach[j].conn = conn => i = j
  BY <1>3 DEF Queued
<1>6. /\ n \in StateType /\ n.rec = s.rec /\ n.proc[p] = y /\ n.told = s.told
      /\ \A q \in Proc : q # p => n.proc[q] = s.proc[q]
  BY <1>1, <1>4 DEF StateType
<1>7. \A r \in Record : s.rec[r].proc # p /\ (s.rec[r].proc # 0 => s.rec[r].proc \in Proc)
  <2>1. p # 0
    BY DEF Proc
  <2>2. QED
    BY <2>1, <1>1, <1>4, Parts, RecParts DEF Base, Placed
<1>8. ASSUME NEW r \in Record
      PROVE  (HasApp(n, r) <=> HasApp(s, r)) /\ (Held(n, r) <=> Held(s, r)) /\ Mail(n, r) = Mail(s, r)
  <2>1. s.proc[p].sent = <<>>
    BY <1>1, <1>4 DEF Base, Idle, Up
  <2>2. \A q \in Proc : Queue(n, q) = Queue(s, q)
    BY <2>1, <1>4, <1>6 DEF Queue
  <2>3. QED
    BY <2>2, <1>6, <1>7 DEF HasApp, Held, Mail
<1>9. ASSUME NEW r \in Record PROVE Answered(n, r, {})
  <2>1. Answered(s, r, {})
    BY <1>1 DEF Told
  <2>2. Reached(n, r)
    BY <2>1, <1>6, <1>8 DEF Answered, Reached, Expects
  <2>3. Addressed(n, r) /\ Heard(n, r, {})
    BY <2>1, <1>6, <1>8 DEF Answered, Addressed, Heard
  <2>4. QED
    BY <2>2, <2>3 DEF Answered
<1>10. \A r \in Record : \A c : /\ Uses(n, r, c) <=> Uses(s, r, c)
                                /\ Believer(n, r, c) <=> Believer(s, r, c)
  BY <1>6, <1>8 DEF Uses, Believer
<1>11. ASSUME NEW q \in Proc, NEW i \in DOMAIN n.proc[q].attach
       PROVE  \/ q = p /\ Asks(n, q, i) = conn
              \/ i \in DOMAIN s.proc[q].attach /\ Asks(n, q, i) = Asks(s, q, i)
  BY <1>4, <1>6, <1>11 DEF Asks
<1>12. Single(n)
  <2>1. \A r, q \in Record : \A c \in Conn : Uses(n, r, c) /\ Uses(n, q, c) => r = q
    BY <1>1, <1>10 DEF Single
  <2>2. ASSUME NEW q \in Proc, NEW i \in DOMAIN n.proc[q].attach, NEW r \in Record, Uses(n, r, Asks(n, q, i))
        PROVE  FALSE
    <3>1. Uses(s, r, Asks(n, q, i))
      BY <2>2, <1>10
    <3>2. Asks(n, q, i) \in Conn
      BY <3>1, <1>1, Parts, RecParts DEF Uses
    <3>3. Busy(s, Asks(n, q, i))
      BY <3>1 DEF Busy
    <3>4. QED
      BY <3>1, <3>2, <3>3, <1>1, <1>11 DEF Single
  <2>3. ASSUME NEW q1 \in Proc, NEW q2 \in Proc,
               NEW i \in DOMAIN n.proc[q1].attach, NEW j \in DOMAIN n.proc[q2].attach,
               Asks(n, q1, i) = Asks(n, q2, j), Asks(n, q1, i) # NoConn
        PROVE  q1 = q2 /\ i = j
    <3>1. CASE Asks(n, q1, i) = conn
      <4>1. conn \in Conn /\ ~Busy(s, conn)
        BY <2>3, <3>1
      <4>2. q1 = p /\ q2 = p
        BY <4>1, <3>1, <2>3, <1>11 DEF Busy
      <4>3. y.attach[i].conn = conn /\ y.attach[j].conn = conn
        BY <4>2, <3>1, <2>3, <1>6 DEF Asks
      <4>4. QED
        BY <4>1, <4>2, <4>3, <1>5, <1>6
    <3>2. CASE Asks(n, q1, i) # conn
      <4>1. /\ i \in DOMAIN s.proc[q1].attach /\ Asks(s, q1, i) = Asks(n, q1, i)
            /\ j \in DOMAIN s.proc[q2].attach /\ Asks(s, q2, j) = Asks(n, q2, j)
        BY <3>2, <2>3, <1>11
      <4>2. QED
        BY <4>1, <2>3, <1>1 DEF Single
    <3>3. QED
      BY <3>1, <3>2
  <2>4. QED
    BY <2>1, <2>2, <2>3 DEF Single
<1>13. \A c \in Conn : Believes(n, c)
  BY <1>1, <1>6, <1>10 DEF Told, Believes
<1>14. \A q \in Proc : Waited(n, q)
  BY <1>1, <1>4, <1>6 DEF Told, Waited
<1>15. \A q \in Proc : Occupied(n, q)
  <2>1. ASSUME NEW q \in Proc, q # p PROVE Occupied(n, q)
    <3>1. Occupied(s, q) /\ n.proc[q] = s.proc[q]
      BY <2>1, <1>6 DEF Informed
    <3>2. QED
      BY <3>1, <1>6 DEF Occupied, Leaving
  <2>2. Occupied(n, p)
    BY <1>4, <1>6 DEF Occupied
  <2>3. QED
    BY <2>1, <2>2
<1>16. QED
  BY <1>9, <1>12, <1>13, <1>14, <1>15 DEF Informed, Told

-----------------------------------------------------------------------------
(* Steps that leave the records as they are.                               *)

\* checkService() tells nobody.
LEMMA CheckServiceTold ==
    ASSUME NEW s \in StateType, Informed(s, {}), NEW p \in Proc
    PROVE  Informed(CheckService(s, p), {})
<1> DEFINE b == \E r \in ToSet(s.proc[p].mExistService) : ~s.rec[r].listed
           n == CheckService(s, p)
<1>1. n = [s EXCEPT !.undefined = b] /\ b \in BOOLEAN
  BY DEF CheckService
<1> HIDE DEF b, n
<1>2. n \in StateType /\ n.rec = s.rec /\ n.proc = s.proc /\ n.told = s.told
  BY <1>1 DEF StateType
<1>3. \A r \in Record : /\ HasApp(n, r) <=> HasApp(s, r)
                        /\ Held(n, r) <=> Held(s, r)
                        /\ Mail(n, r) = Mail(s, r)
  BY <1>2 DEF HasApp, Held, Mail, Queue
<1>4. ASSUME NEW r \in Record PROVE Answered(n, r, {})
  <2>1. Answered(s, r, {})
    BY DEF Informed, Told
  <2>2. Reached(n, r)
    BY <2>1, <1>2, <1>3 DEF Answered, Reached, Expects
  <2>3. Addressed(n, r) /\ Heard(n, r, {})
    BY <2>1, <1>2, <1>3 DEF Answered, Addressed, Heard
  <2>4. QED
    BY <2>2, <2>3 DEF Answered
<1>5. \A r \in Record : \A c \in Conn : /\ Uses(n, r, c) => Uses(s, r, c)
                                        /\ Believer(s, r, c) => Believer(n, r, c)
  BY <1>2, <1>3 DEF Uses, Believer
<1>6. \A q \in Proc : n.proc[q].attach \in {s.proc[q].attach, <<>>} /\ Waited(n, q)
  BY <1>2 DEF Informed, Told, Waited
<1>7. Told(s, {})
  BY DEF Informed
<1>8. Told(n, {})
  BY <1>2, <1>4, <1>5, <1>6, <1>7, ToldAfter
<1>9. \A q \in Proc : Occupied(n, q)
  BY <1>2 DEF Informed, Occupied, Leaving
<1>10. QED
  BY <1>8, <1>9 DEF Informed, n

\* stopApplication() tells nobody.
LEMMA StopApplicationTold ==
    ASSUME NEW s \in StateType, Informed(s, {}), NEW p \in Proc
    PROVE  Informed(StopApplication(s, p), {})
<1> DEFINE n == StopApplication(s, p)
           m == [op |-> "TERMINATE", r |-> 0, conn |-> NoConn]
           a == s.proc[p]
           y1 == [a EXCEPT !.mStatus = "STOPPING"]
           y == [y1 EXCEPT !.sent = Append(a.sent, m)]
<1>1. CASE s.proc[p].mStatus # "RUNNING"
  BY <1>1 DEF StopApplication
<1>2. CASE s.proc[p].mStatus = "RUNNING"
  <2>1. n = [s EXCEPT !.proc[p] = y] /\ a = s.proc[p]
    BY <1>2 DEF StopApplication
  <2>2. a \in ProcType /\ a.sent \in Seq(Message)
    BY Parts, ProcParts
  <2>3. m \in Message /\ m.r = 0
    BY BoundsAssumption DEF Message, Ops
  <2>4. Append(a.sent, m) \in Seq(Message) /\ ToSet(Append(a.sent, m)) = ToSet(a.sent) \union {m}
    BY <2>2, <2>3, Appended
  <2> HIDE DEF a, m
  <2>5. y1 \in ProcType /\ y1.mStatus = "STOPPING" /\ y1.attach = a.attach /\ y1.terminated = a.terminated
    BY <2>2 DEF ProcType
  <2> HIDE DEF y1
  <2>6. /\ y \in ProcType /\ y.mStatus = "STOPPING" /\ y.attach = a.attach /\ y.terminated = a.terminated
        /\ y.sent = Append(a.sent, m)
    BY <2>4, <2>5 DEF ProcType
  <2> HIDE DEF y, n
  <2>7. /\ n \in StateType /\ n.rec = s.rec /\ n.told = s.told /\ n.proc[p] = y
        /\ \A q \in Proc : q # p => n.proc[q] = s.proc[q]
    BY <2>1, <2>6 DEF StateType
  <2>8. \A q \in Proc : /\ n.proc[q].attach = s.proc[q].attach
                        /\ n.proc[q].terminated = s.proc[q].terminated
                        /\ n.proc[q].mStatus = "RUNNING" => n.proc[q] = s.proc[q]
                        /\ n.proc[q].mStatus = "ATTACHING" => s.proc[q].mStatus = "ATTACHING"
                        /\ Up(n, q) <=> Up(s, q)
    BY <2>1, <2>6, <2>7, <1>2 DEF Up
  <2>9. \A r \in Record : s.rec[r].proc # 0 => s.rec[r].proc \in Proc
    BY Parts, RecParts
  <2>10. ASSUME NEW r \in Record
         PROVE  /\ HasApp(n, r) <=> HasApp(s, r)
                /\ Held(n, r) <=> Held(s, r)
                /\ Mail(n, r) = Mail(s, r)
    <3>1. \A q \in Proc : Queue(n, q) \subseteq Queue(s, q) \union {m} /\ Queue(s, q) \subseteq Queue(n, q)
      BY <2>1, <2>4, <2>6, <2>7 DEF Queue
    <3>2. r # 0
      BY BoundsAssumption DEF Record
    <3>3. \A i \in Message : i.r = r => ((\E q \in Proc : i \in Queue(n, q)) <=> (\E q \in Proc : i \in Queue(s, q)))
      BY <3>1, <3>2, <2>3
    <3>4. Mail(n, r) = Mail(s, r)
      BY <3>3 DEF Mail
    <3>5. QED
      BY <3>4, <2>7, <2>8, <2>9 DEF HasApp, Held, Up
  <2>11. ASSUME NEW r \in Record PROVE Answered(n, r, {})
    <3>1. Answered(s, r, {})
      BY DEF Informed, Told
    <3>2. Reached(n, r)
      BY <3>1, <2>7, <2>10 DEF Answered, Reached, Expects
    <3>3. Addressed(n, r) /\ Heard(n, r, {})
      BY <3>1, <2>7, <2>10 DEF Answered, Addressed, Heard
    <3>4. QED
      BY <3>2, <3>3 DEF Answered
  <2>12. \A r \in Record : \A c \in Conn : /\ Uses(n, r, c) => Uses(s, r, c)
                                           /\ Believer(s, r, c) => Believer(n, r, c)
    BY <2>7, <2>10 DEF Uses, Believer
  <2>13. \A q \in Proc : n.proc[q].attach \in {s.proc[q].attach, <<>>} /\ Waited(n, q)
    BY <2>8 DEF Informed, Told, Waited
  <2>14. Told(s, {})
    BY DEF Informed
  <2>15. Told(n, {})
    BY <2>7, <2>11, <2>12, <2>13, <2>14, ToldAfter
  <2>16. \A q \in Proc : Occupied(n, q)
    BY <2>7, <2>8 DEF Informed, Occupied, Leaving
  <2>17. QED
    BY <2>15, <2>16 DEF Informed, n
<1>3. QED
  BY <1>1, <1>2

-----------------------------------------------------------------------------
(* unbindService().                                                        *)

\* What unbind() of one listed record leaves.
Unbound(t, n, r, conn) ==
    /\ Informed(n, {conn}) /\ Local(t, n, r) /\ Inv(n, TRUE, Ended(t), 0)
    /\ n.rec[r].listed
    /\ HasApp(n, r) => conn \notin n.rec[r].mConnectRecord
    /\ n = t \/ conn \notin n.rec[r].mConnectRecord

\* unbind() of a record, from a connection that is to be used no more.
LEMMA UnbindTold ==
    ASSUME NEW s, Inv(s, TRUE, Ended(s), 0), NEW conn \in Conn, Informed(s, {conn}), NEW r \in Record,
           s.rec[r].listed, s.rec[r].proc # 0, conn \in s.rec[r].mConnectRecord => Calm(s, r)
    PROVE  Unbound(s, Unbind(s, r, conn), r, conn)
<1> DEFINE x == s.rec[r]
           p == x.proc
           M == Mail(s, r)
           exist == s.proc[p].mExistService
           n == Unbind(s, r, conn)
           left == x.mConnectRecord \ {conn}
           flag == x.mStartFlag \ {"BINDED"}
           y == [x EXCEPT !.mConnectRecord = left]
           z == [y EXCEPT !.mStartFlag = flag]
           said == TellAll(s.told, {conn}, "disconnected")
           m == [op |-> "UNBIND", r |-> r, conn |-> NoConn]
<1>1. s \in StateType /\ Base(s) /\ Sound(s, r) /\ Told(s, {conn}) /\ Answered(s, r, {conn})
  BY DEF Inv, Base, Informed, Told
<1>2. x \in RecType /\ p \in Proc /\ p # 0 /\ x.listed /\ x.mConnectRecord \subseteq Conn
  BY <1>1, Parts, RecParts
<1>3. conn \in x.mConnectRecord => Free(s, r) /\ ~Expects(s, r, {"BIND"}) /\ \A i \in M : i.op # "BIND"
  BY <1>1, CalmIsFree
<1>4. Local(s, n, r) /\ Inv(n, TRUE, Ended(s), 0) /\ n.rec[r].listed
  <2>1. /\ Step(s, Unbind(s, r, conn), r, TRUE, Ended(s), 0)
        /\ Unbind(s, r, conn).rec[r].listed = s.rec[r].listed
    BY <1>2, <1>3, UnbindStep
  <2>2. QED
    BY <2>1 DEF Step
<1>5. Shows(s, r, x, s.told, M, exist)
  BY <1>1, ShowsIt
<1>6. n \in StateType /\ \A q \in Proc : /\ n.proc[q].terminated = s.proc[q].terminated
                                         /\ Up(n, q) <=> Up(s, q)
  <2>1. About(s, n, r)
    BY <1>1, <1>4, AboutOfLocal
  <2>2. QED
    BY <2>1 DEF About
<1>7. CASE "BINDED" \notin x.mStartFlag
  <2>1. n = s
    BY <1>7 DEF Unbind
  <2>2. HasApp(s, r) => x.mConnectRecord = {}
    BY <1>2, <1>7, <1>1 DEF Sound
  <2> HIDE DEF n, x
  <2>3. QED
    BY <2>1, <2>2, <1>4 DEF Unbound, n, x
<1>8. CASE "BINDED" \in x.mStartFlag
  <2>1. IF HasApp(s, r) /\ left = {}
        THEN Shows(n, r, z, said, M \union {m}, IF flag = {} THEN SwappedOut(exist, r) ELSE exist)
        ELSE Shows(n, r, y, said, M, exist)
    <3> HIDE DEF exist, M
    <3>1. LET left0 == x.mConnectRecord \ {conn}
              flag0 == x.mStartFlag \ {"BINDED"}
              said0 == TellAll(s.told, {conn}, "disconnected")
          IN IF HasApp(s, r) /\ left0 = {}
             THEN Shows(Unbind(s, r, conn), r,
                        [[x EXCEPT !.mConnectRecord = left0] EXCEPT !.mStartFlag = flag0], said0,
                        M \union {[op |-> "UNBIND", r |-> r, conn |-> NoConn]},
                        IF flag0 = {} THEN SwappedOut(exist, r) ELSE exist)
             ELSE Shows(Unbind(s, r, conn), r, [x EXCEPT !.mConnectRecord = left0], said0, M, exist)
      BY <1>5, <1>8, UnbindShows
    <3>2. QED
      BY <3>1
  <2>2. left \in SUBSET Conn /\ flag \in SUBSET Flags /\ conn \notin left /\ left \subseteq x.mConnectRecord
    BY <1>2, RecParts
  <2>3. \A c \in Conn : said[c] = IF c = conn THEN "disconnected" ELSE s.told[c]
    BY DEF TellAll
  <2>4. m.op = "UNBIND"
    OBVIOUS
  <2>5. conn \notin x.mConnectRecord => left = x.mConnectRecord
    OBVIOUS
  <2>6. \A c \in x.mConnectRecord : c # conn => c \in left
    OBVIOUS
  <2>7. x.mConnectRecord # {} /\ left = {} => conn \in x.mConnectRecord
    OBVIOUS
  <2> HIDE DEF n, said, m, left
  <2>8. /\ y \in RecType /\ y.name = x.name /\ y.proc = p /\ y.listed /\ y.mStartFlag = x.mStartFlag
        /\ y.mConnectRecord = left /\ y.asked = x.asked /\ y.mServiceBinder = x.mServiceBinder
        /\ y.client = x.client
    <3> HIDE DEF x
    <3>1. QED
      BY <1>2, <2>2 DEF RecType
  <2>9. ASSUME NEW w, w.name = x.name, w.proc = p, w.listed, w.mConnectRecord = left, w.asked = x.asked,
               n.rec[r] = w, n.told = said, Answered(n, r, {conn}), Occupied(n, p)
        PROVE  Unbound(s, n, r, conn)
    <3>1. HasApp(n, r) <=> HasApp(s, r)
      BY <2>9, <1>2, <1>6 DEF HasApp, Up
    <3>2. Held(n, r) <=> Held(s, r)
      BY <2>9, <1>2, <1>6 DEF Held
    <3>3. \A c \in Conn : Uses(n, r, c) => Uses(s, r, c) \/ ~Busy(s, c)
      BY <2>2, <2>9, <1>2 DEF Uses
    <3>4. ASSUME NEW c \in Conn PROVE Hears(s, n, r, c, {conn})
      <4>1. n.told[c] = IF c = conn THEN "disconnected" ELSE s.told[c]
        BY <2>3, <2>9
      <4>2. c # conn /\ Believer(s, r, c) => Believer(n, r, c)
        BY <2>6, <2>9, <3>2 DEF Believer
      <4>3. QED
        BY <4>1, <4>2 DEF Hears
    <3>5. Informed(n, {conn})
      BY <2>9, <3>3, <3>4, <1>1, <1>2, <1>4, RequestKeeps
    <3>6. QED
      BY <2>2, <2>9, <3>5, <1>4 DEF Unbound
  <2>10. CASE ~(HasApp(s, r) /\ left = {})
    <3>1. Shows(n, r, y, said, M, exist)
      BY <2>1, <2>10
    <3> HIDE DEF y, z, M, exist, x, p
    <3>2. n.rec[r] = y /\ n.told = said /\ Mail(n, r) = M /\ n.proc[p].mExistService = exist
      BY <3>1, <2>8 DEF Shows
    <3>3. HasApp(n, r) <=> HasApp(s, r)
      BY <3>2, <2>8, <1>2, <1>6 DEF HasApp, Up, p, x
    <3>4. Held(n, r) <=> Held(s, r)
      BY <3>2, <2>8, <1>2, <1>6 DEF Held, p, x
    <3>5. Reached(n, r)
      BY <3>2, <3>3, <2>8, <1>1 DEF Answered, Reached, Expects, M, x
    <3>6. Addressed(n, r)
      <4>1. \A i \in M : i.op = "BIND" => i.conn \in x.mConnectRecord /\ Held(s, r)
        BY <1>1 DEF Answered, Addressed, M, x
      <4>2. \A i \in M : i.op = "BIND" => left = x.mConnectRecord
        BY <1>3, <2>5
      <4>3. QED
        BY <3>2, <3>4, <4>1, <4>2, <2>8 DEF Addressed
    <3>7. Heard(n, r, {conn})
      <4> SUFFICES ASSUME n.rec[r].listed, HasApp(n, r), ~n.rec[r].asked, n.rec[r].name \in HasBinder,
                          NEW c \in n.rec[r].mConnectRecord \ {conn}
                   PROVE  n.told[c] = "connected" \/ \E i \in Mail(n, r) : i.op = "BIND" /\ i.conn = c
        BY DEF Heard
      <4>1. c \in x.mConnectRecord \ {conn} /\ c \in Conn
        BY <3>2, <2>2, <2>8
      <4>2. s.told[c] = "connected" \/ \E i \in M : i.op = "BIND" /\ i.conn = c
        BY <4>1, <3>2, <3>3, <2>8, <1>1, <1>2 DEF Answered, Heard, M, x
      <4>3. QED
        BY <4>1, <4>2, <3>2, <2>3
    <3>8. Occupied(n, p)
      <4>1. Leaving(s, r, p) => Leaving(n, r, p)
        BY <3>2, <2>8 DEF Leaving, x
      <4>2. s.proc[p].mExistService = exist
        BY DEF exist
      <4>3. QED
        BY <4>1, <4>2, <3>2, <1>2, <1>4, OccupiedAsBefore
    <3>9. QED
      BY <3>2, <3>5, <3>6, <3>7, <3>8, <2>8, <2>9 DEF Answered, n
  <2>11. CASE HasApp(s, r) /\ left = {}
    <3>1. Shows(n, r, z, said, M \union {m}, IF flag = {} THEN SwappedOut(exist, r) ELSE exist)
      BY <2>1, <2>11
    <3>2. Calm(s, r)
      <4>1. x.mConnectRecord # {}
        BY <2>11, <1>1, <1>2, <1>8 DEF Sound
      <4>2. QED
        BY <4>1, <2>7, <2>11
    <3>3. /\ x.mStartFlag # {} /\ ~x.asked
          /\ x.client.exists \/ Expects(s, r, {"START"})
          /\ x.client.binded
          /\ x.mServiceBinder => x.name \in HasBinder
      <4>1. CalmShown(s, r, {conn})
        BY <3>2, <2>11, <1>2, CalmShows
      <4>2. QED
        BY <4>1, <1>8 DEF CalmShown
    <3>4. \A i \in M : i.op \notin {"BIND", "UNBIND", "STOP"}
      BY <3>2, <1>1, CalmIsFree
    <3> HIDE DEF y, M, exist, x, p, flag
    <3>5. /\ z.name = x.name /\ z.proc = p /\ z.listed /\ z.mStartFlag = flag
          /\ z.mConnectRecord = left /\ z.asked = x.asked /\ z.mServiceBinder = x.mServiceBinder
          /\ z.client = x.client
      BY <2>2, <2>8 DEF RecType
    <3> HIDE DEF z
    <3>6. /\ n.rec[r] = z /\ n.told = said /\ Mail(n, r) = M \union {m}
          /\ n.proc[p].mExistService = IF flag = {} THEN SwappedOut(exist, r) ELSE exist
      BY <3>1, <3>5 DEF Shows
    <3>7. Reached(n, r)
      <4>1. Expects(s, r, {"START"}) => Expects(n, r, {"START", "BIND"})
        BY <3>6 DEF Expects, M
      <4>2. Expects(n, r, {"UNBIND"})
        BY <3>6, <2>4 DEF Expects
      <4>3. n.rec[r].client.exists \/ Expects(n, r, {"START", "BIND"})
        BY <4>1, <3>3, <3>5, <3>6
      <4>4. /\ n.rec[r].client.binded /\ ~n.rec[r].asked
            /\ n.rec[r].mServiceBinder => n.rec[r].name \in HasBinder
            /\ ~n.rec[r].client.exists => ~n.rec[r].client.binded
        BY <3>3, <3>5, <3>6, <1>1 DEF Answered, Reached, x
      <4>5. QED
        BY <4>2, <4>3, <4>4 DEF Reached
    <3>8. Addressed(n, r)
      BY <3>4, <3>6, <2>4 DEF Addressed
    <3>9. Heard(n, r, {conn})
      BY <3>5, <3>6, <2>11 DEF Heard
    <3>10. Occupied(n, p)
      <4>1. CASE flag = {}
        <5>1. Leaving(n, r, p)
          BY <4>1, <3>5, <3>6 DEF Leaving
        <5>2. QED
          BY <5>1 DEF Occupied
      <4>2. CASE flag # {}
        <5>1. ~Leaving(s, r, p)
          BY <3>3 DEF Leaving, x
        <5>2. n.proc[p].mExistService = s.proc[p].mExistService
          BY <4>2, <3>6 DEF exist
        <5>3. QED
          BY <5>1, <5>2, <1>2, <1>4, OccupiedAsBefore
      <4>3. QED
        BY <4>1, <4>2
    <3>11. QED
      BY <3>5, <3>6, <3>7, <3>8, <3>9, <3>10, <2>9 DEF Answered, n
  <2>12. QED
    BY <2>10, <2>11 DEF n
<1>9. QED
  BY <1>7, <1>8

\* What the rounds of unbindService() keep, and what round k has done.
Unbinding(s, conn, t) ==
    /\ t \in StateType /\ Inv(t, TRUE, Ended(s), 0) /\ Ended(t) = Ended(s) /\ Informed(t, {conn})
    /\ \A r \in Record : t.rec[r].listed <=> s.rec[r].listed
    /\ \A r \in Record : t.rec[r].listed =>
          t.rec[r].proc # 0 /\ (conn \in t.rec[r].mConnectRecord => Calm(t, r))

Undone(conn, k, t) == \A r \in Record :
    r <= k /\ t.rec[r].listed /\ HasApp(t, r) => conn \notin t.rec[r].mConnectRecord

\* unbindService() leaves the connections informed.
LEMMA UnbindConnectionTold ==
    ASSUME NEW s, Inv(s, TRUE, Ended(s), 0), NEW conn \in Conn, Informed(s, {}),
           \A r \in Record : conn \in s.rec[r].mConnectRecord => Calm(s, r)
    PROVE  Informed(UnbindConnection(s, conn), {})
<1> DEFINE S == {r \in Record : s.rec[r].listed}
           T == {t \in StateType : Unbinding(s, conn, t)}
           G == [k \in 0..MaxRecords |-> {t \in StateType : Undone(conn, k, t)}]
           n == UnbindConnection(s, conn)
<1>1. s \in StateType /\ Base(s)
  BY DEF Inv, Base
<1>2. MaxRecords \in Nat /\ Record = 1..MaxRecords
  BY BoundsAssumption DEF Record
<1>3. Unbinding(s, conn, s)
  <2>1. Informed(s, {conn})
    <3>1. \A r \in Record : Answered(s, r, {}) => Answered(s, r, {conn})
      BY DEF Answered, Heard
    <3>2. QED
      BY <3>1 DEF Informed, Told
  <2>2. QED
    BY <2>1, <1>1 DEF Unbinding, Base, Placed
<1>4. ASSUME NEW r \in Record \cap S, NEW t, Unbinding(s, conn, t)
      PROVE  Unbinding(s, conn, Unbind(t, r, conn)) /\ Unbound(t, Unbind(t, r, conn), r, conn)
  <2> DEFINE u == Unbind(t, r, conn)
  <2>1. /\ t \in StateType /\ Inv(t, TRUE, Ended(t), 0) /\ Ended(t) = Ended(s) /\ Informed(t, {conn})
        /\ t.rec[r].listed /\ t.rec[r].proc # 0 /\ (conn \in t.rec[r].mConnectRecord => Calm(t, r))
        /\ \A q \in Record : t.rec[q].listed <=> s.rec[q].listed
        /\ \A q \in Record : t.rec[q].listed =>
             t.rec[q].proc # 0 /\ (conn \in t.rec[q].mConnectRecord => Calm(t, q))
    BY <1>4 DEF Unbinding
  <2>2. Unbound(t, u, r, conn)
    BY <2>1, UnbindTold
  <2> HIDE DEF u, S
  <2>3. /\ Informed(u, {conn}) /\ Local(t, u, r) /\ Inv(u, TRUE, Ended(t), 0) /\ u.rec[r].listed
        /\ u = t \/ conn \notin u.rec[r].mConnectRecord
    BY <2>2 DEF Unbound
  <2>4. Ended(u) = Ended(s)
    BY <2>1, <2>3, LocalFrame, SameEnded
  <2>5. About(t, u, r)
    BY <2>1, <2>3, AboutOfLocal
  <2>6. ASSUME NEW q \in Record
        PROVE  /\ u.rec[q].listed <=> s.rec[q].listed
               /\ u.rec[q].listed => u.rec[q].proc # 0 /\ (conn \in u.rec[q].mConnectRecord => Calm(u, q))
    <3>1. CASE u = t
      BY <3>1, <2>1
    <3>2. CASE q = r /\ u # t
      BY <3>2, <2>1, <2>3, LocalFrame
    <3>3. CASE q # r
      <4>1. u.rec[q] = t.rec[q] /\ Mail(u, q) = Mail(t, q)
        BY <3>3, <2>5 DEF About
      <4>2. Calm(t, q) => Calm(u, q)
        BY <4>1 DEF Calm, Expects
      <4>3. QED
        BY <4>1, <4>2, <2>1
    <3>4. QED
      BY <3>1, <3>2, <3>3
  <2>7. u \in StateType
    BY <2>3 DEF Local
  <2>8. Unbinding(s, conn, u)
    BY <2>1, <2>3, <2>4, <2>6, <2>7 DEF Unbinding
  <2>9. QED
    BY <2>2, <2>8 DEF u
<1>5. ASSUME NEW r \in Record, NEW t \in T \cap G[r - 1]
      PROVE  (IF r \in S THEN Unbind(t, r, conn) ELSE t) \in G[r]
  <2> DEFINE j == r - 1
  <2>1. j \in 0..MaxRecords /\ r \in 0..MaxRecords /\ \A q \in Record : q <= r => q <= j \/ q = r
    BY <1>2
  <2>2. G[j] = {v \in StateType : Undone(conn, j, v)} /\ G[r] = {v \in StateType : Undone(conn, r, v)}
    BY <2>1
  <2>3. t \in T /\ t \in G[j]
    OBVIOUS
  <2>4. j = r - 1
    OBVIOUS
  <2> HIDE DEF G, j
  <2>5. t \in StateType /\ Unbinding(s, conn, t) /\ Undone(conn, j, t)
    BY <2>2, <2>3
  <2>6. CASE r \notin S
    <3>1. ~t.rec[r].listed
      BY <2>5, <2>6 DEF Unbinding
    <3>2. Undone(conn, r, t)
      BY <3>1, <2>1, <2>5 DEF Undone
    <3>3. QED
      BY <3>2, <2>2, <2>5, <2>6
  <2>7. CASE r \in S
    <3> DEFINE u == Unbind(t, r, conn)
    <3>1. Unbinding(s, conn, u) /\ Unbound(t, u, r, conn)
      BY <2>5, <2>7, <1>4
    <3> HIDE DEF u, S
    <3>2. u \in StateType /\ Local(t, u, r) /\ (HasApp(u, r) => conn \notin u.rec[r].mConnectRecord)
      BY <3>1 DEF Unbinding, Unbound
    <3>3. About(t, u, r)
      BY <3>2, <2>5, AboutOfLocal
    <3>4. ASSUME NEW q \in Record, q # r PROVE u.rec[q] = t.rec[q] /\ (HasApp(u, q) <=> HasApp(t, q))
      <4>1. u.rec[q] = t.rec[q] /\ \A p \in Proc : Up(u, p) <=> Up(t, p)
        BY <3>3, <3>4 DEF About
      <4>2. t.rec[q].proc # 0 => t.rec[q].proc \in Proc
        BY <2>5, Parts, RecParts
      <4>3. QED
        BY <4>1, <4>2 DEF HasApp, Up
    <3>5. Undone(conn, r, u)
      BY <3>2, <3>4, <2>1, <2>5 DEF Undone
    <3>6. u \in G[r]
      BY <3>2, <3>5, <2>2
    <3>7. QED
      BY <3>6, <2>7 DEF u
  <2>8. QED
    BY <2>6, <2>7
<1>6. n \in T \cap G[MaxRecords]
  <2>1. s \in T
    BY <1>1, <1>3
  <2>2. \A r \in Record \cap S : \A t \in T : Unbind(t, r, conn) \in T
    <3> SUFFICES ASSUME NEW r \in Record \cap S, NEW t \in T PROVE Unbind(t, r, conn) \in T
      OBVIOUS
    <3>1. Unbinding(s, conn, Unbind(t, r, conn))
      BY <1>4
    <3>2. Unbind(t, r, conn) \in StateType
      BY <3>1 DEF Unbinding
    <3>3. QED
      BY <3>1, <3>2
  <2>3. s \in G[0]
    <3>1. 0 \in 0..MaxRecords /\ \A q \in Record : ~(q <= 0)
      BY <1>2
    <3>2. Undone(conn, 0, s)
      BY <3>1 DEF Undone
    <3>3. QED
      BY <3>1, <3>2, <1>1
  <2>4. n = UnbindEach(s, S, conn)
    BY DEF UnbindConnection, UnbindEach
  <2> HIDE DEF T, S, G, n
  <2>5. UnbindEach(s, S, conn) \in T \cap G[MaxRecords]
    BY <1>5, <2>1, <2>2, <2>3, UnbindLoopFollows
  <2>6. QED
    BY <2>4, <2>5
<1>7. Informed(n, {conn}) /\ Undone(conn, MaxRecords, n)
  <2>1. MaxRecords \in 0..MaxRecords
    BY <1>2
  <2>2. n \in T /\ n \in {t \in StateType : Undone(conn, MaxRecords, t)}
    BY <2>1, <1>6
  <2> HIDE DEF n
  <2>3. QED
    BY <2>2 DEF Unbinding
<1> HIDE DEF n
<1>8. ASSUME NEW r \in Record PROVE Answered(n, r, {})
  <2>1. Answered(n, r, {conn})
    BY <1>7 DEF Informed, Told
  <2>2. r <= MaxRecords
    BY <1>2
  <2>3. Heard(n, r, {})
    <3>1. n.rec[r].listed /\ HasApp(n, r) => conn \notin n.rec[r].mConnectRecord
      BY <2>2, <1>7 DEF Undone
    <3>2. QED
      BY <3>1, <2>1 DEF Answered, Heard
  <2>4. QED
    BY <2>1, <2>3 DEF Answered
<1>9. Informed(n, {})
  BY <1>7, <1>8 DEF Informed, Told
<1>10. QED
  BY <1>9 DEF n

-----------------------------------------------------------------------------
(* The end of a process.                                                   *)

\* Connections of the services that procAppTerminated() finds.
Cut(s, p, c) == \E r \in Entries(s, p) : c \in s.rec[r].mConnectRecord

\* Whom the end of a process tells: the connections of its services, and nobody else.
LEMMA ExitTells ==
    ASSUME NEW s \in StateType, NEW p \in Proc
    PROVE  /\ \A c \in Conn : Exited(s, p).told[c] = IF Cut(s, p, c) THEN "disconnected" ELSE s.told[c]
           /\ \A r \in Record : Exited(s, p).rec[r].mServiceBinder = s.rec[r].mServiceBinder
<1> DEFINE E == Entries(s, p)
           cut(k, c) == \E r \in Record \cap E : r <= k /\ c \in s.rec[r].mConnectRecord
           T == {t \in StateType : t.rec = s.rec /\ t.proc = s.proc}
           G == [k \in 0..MaxRecords |-> {t \in StateType :
                   \A c \in Conn : t.told[c] = IF cut(k, c) THEN "disconnected" ELSE s.told[c]}]
           loop == ForEach(AbnormalExit, s, E)
           n == Exited(s, p)
<1>1. MaxRecords \in Nat /\ Record = 1..MaxRecords
  BY BoundsAssumption DEF Record
<1>2. s \in T
  OBVIOUS
<1>3. ASSUME NEW r \in Record \cap E, NEW t \in T
      PROVE  /\ AbnormalExit(t, r) \in T
             /\ AbnormalExit(t, r).told = TellAll(t.told, s.rec[r].mConnectRecord, "disconnected")
  <2>1. t \in StateType /\ t.rec = s.rec /\ t.proc = s.proc
    OBVIOUS
  <2>2. LET k == AbnormalExit(t, r) IN k \in StateType /\ k.rec = t.rec /\ k.proc = t.proc
    BY <2>1, TellChange DEF AbnormalExit
  <2>3. AbnormalExit(t, r).told = TellAll(t.told, s.rec[r].mConnectRecord, "disconnected")
    BY <2>1 DEF AbnormalExit, Tell, TellAll, StateType
  <2>4. QED
    BY <2>1, <2>2, <2>3
<1>4. ASSUME NEW r \in Record, NEW t \in T \cap G[r - 1]
      PROVE  (IF r \in E THEN AbnormalExit(t, r) ELSE t) \in G[r]
  <2> DEFINE j == r - 1
             u == IF r \in E THEN AbnormalExit(t, r) ELSE t
  <2>1. /\ j \in 0..MaxRecords /\ r \in 0..MaxRecords
        /\ \A q \in Record : q <= r <=> q <= j \/ q = r
    BY <1>1
  <2>2. /\ G[j] = {v \in StateType : \A c \in Conn : v.told[c] = IF cut(j, c) THEN "disconnected" ELSE s.told[c]}
        /\ G[r] = {v \in StateType : \A c \in Conn : v.told[c] = IF cut(r, c) THEN "disconnected" ELSE s.told[c]}
    BY <2>1
  <2>3. t \in T /\ t \in G[j]
    OBVIOUS
  <2> HIDE DEF G, j
  <2>4. \A c \in Conn : t.told[c] = IF cut(j, c) THEN "disconnected" ELSE s.told[c]
    BY <2>2, <2>3
  <2>5. \A c : cut(r, c) <=> cut(j, c) \/ (r \in E /\ c \in s.rec[r].mConnectRecord)
    BY <2>1
  <2>6. u \in StateType /\ \A c \in Conn : u.told[c] = IF r \in E /\ c \in s.rec[r].mConnectRecord
                                                       THEN "disconnected" ELSE t.told[c]
    <3>1. CASE r \in E
      <4>1. u \in T /\ u.told = TellAll(t.told, s.rec[r].mConnectRecord, "disconnected")
        BY <3>1, <2>3, <1>3
      <4> HIDE DEF u, E
      <4>2. QED
        BY <4>1, <3>1 DEF TellAll
    <3>2. CASE r \notin E
      BY <3>2, <2>3
    <3>3. QED
      BY <3>1, <3>2
  <2> HIDE DEF u, E, cut
  <2>7. \A c \in Conn : u.told[c] = IF cut(r, c) THEN "disconnected" ELSE s.told[c]
    BY <2>4, <2>5, <2>6
  <2>8. u \in G[r]
    BY <2>2, <2>6, <2>7
  <2>9. QED
    BY <2>8 DEF u
<1>5. loop \in T \cap G[MaxRecords]
  <2>1. s \in G[0]
    <3>1. 0 \in 0..MaxRecords /\ \A q \in Record : ~(q <= 0)
      BY <1>1
    <3>2. \A c : ~cut(0, c)
      BY <3>1
    <3> HIDE DEF cut
    <3>3. QED
      BY <3>1, <3>2
  <2>2. \A r \in Record \cap E : \A t \in T : AbnormalExit(t, r) \in T
    BY <1>3
  <2> HIDE DEF T, E, G
  <2>3. QED
    BY <1>2, <1>4, <2>1, <2>2, ExitLoopFollows
<1>6. /\ loop \in StateType /\ loop.rec = s.rec /\ loop.proc = s.proc
      /\ \A c \in Conn : loop.told[c] = IF cut(MaxRecords, c) THEN "disconnected" ELSE s.told[c]
  <2>1. MaxRecords \in 0..MaxRecords
    BY <1>1
  <2> HIDE DEF cut, loop
  <2>2. loop \in T /\ loop \in {t \in StateType : \A c \in Conn : t.told[c] = IF cut(MaxRecords, c) THEN "disconnected" ELSE s.told[c]}
    BY <2>1, <1>5
  <2>3. QED
    BY <2>2
<1>7. \A c : cut(MaxRecords, c) <=> Cut(s, p, c)
  <2>1. E \subseteq Record
    <3>1. s.proc[p].mExistService \in Seq(Record)
      BY Parts, ProcParts
    <3>2. QED
      BY <3>1 DEF Entries, Exists, ToSet
  <2>2. \A r \in Record : r <= MaxRecords
    BY <1>1
  <2>3. QED
    BY <2>1, <2>2 DEF Cut
<1> DEFINE x1 == [r \in Record |-> [loop.rec[r] EXCEPT !.listed = @ /\ r \notin E]]
           d == ProcAppTerminated(s, p)
<1>8. d = [loop EXCEPT !.rec = x1, !.proc[p].mExistService = <<>>]
  BY DEF ProcAppTerminated, Entries, Exists
<1>9. /\ n.told = d.told
      /\ n.rec = [r \in Record |-> IF d.rec[r].proc = p THEN [d.rec[r] EXCEPT !.client = NoClient] ELSE d.rec[r]]
  <2> DEFINE x2 == [r \in Record |-> IF d.rec[r].proc = p THEN [d.rec[r] EXCEPT !.client = NoClient] ELSE d.rec[r]]
             w == [d.proc[p] EXCEPT !.mStatus = "GONE", !.attach = <<>>, !.sent = <<>>]
  <2>1. n = [d EXCEPT !.proc[p] = w, !.rec = x2]
    BY DEF Exited
  <2>2. DOMAIN d = {"rec", "records", "proc", "procs", "told", "undefined"}
    <3> HIDE DEF loop, x1, d
    <3>1. DOMAIN loop = {"rec", "records", "proc", "procs", "told", "undefined"}
      BY <1>6 DEF StateType
    <3>2. QED
      BY <1>8, <3>1
  <2> HIDE DEF n, d, w, x2
  <2>3. n.told = d.told /\ n.rec = x2
    BY <2>1, <2>2
  <2>4. QED
    BY <2>3 DEF x2
<1>10. d.told = loop.told /\ d.rec = x1
  <2> HIDE DEF loop, x1, d
  <2>1. QED
    BY <1>6, <1>8 DEF StateType
<1>11. ASSUME NEW r \in Record PROVE n.rec[r].mServiceBinder = s.rec[r].mServiceBinder
  <2> DEFINE x == s.rec[r]
             v == x1[r]
  <2>1. x \in RecType /\ v = [x EXCEPT !.listed = @ /\ r \notin E]
    BY <1>6, Parts
  <2> HIDE DEF x, v, E
  <2>2. v.mServiceBinder = x.mServiceBinder /\ DOMAIN v = DOMAIN x
    BY <2>1 DEF RecType
  <2>3. d.rec[r] = v
    BY <1>10 DEF v
  <2> DEFINE v2 == [v EXCEPT !.client = NoClient]
  <2>4. n.rec[r] = IF v.proc = p THEN v2 ELSE v
    <3> HIDE DEF n, d
    <3>1. QED
      BY <1>9, <2>3
  <2>5. v2.mServiceBinder = v.mServiceBinder
    BY <2>1, <2>2 DEF RecType
  <2> HIDE DEF v2, n
  <2>6. QED
    BY <2>2, <2>4, <2>5 DEF x
<1>12. n.told = loop.told
  <2> HIDE DEF n, d, loop, x1
  <2>1. QED
    BY <1>9, <1>10
<1>13. \A c \in Conn : n.told[c] = IF Cut(s, p, c) THEN "disconnected" ELSE s.told[c]
  <2> HIDE DEF n, loop, cut
  <2>1. QED
    BY <1>6, <1>7, <1>12
<1>14. QED
  BY <1>11, <1>13

\* The end of a process leaves the connections informed.
LEMMA ExitTold ==
    ASSUME NEW s, Inv(s, TRUE, Ended(s), 0), Informed(s, {}), NEW p \in Proc
    PROVE  Informed(Exited(s, p), {})
<1> DEFINE n == Exited(s, p)
<1>1. s \in StateType /\ Base(s) /\ p # 0 /\ Told(s, {}) /\ Single(s)
  BY DEF Inv, Base, Informed, Told, Proc
<1>2. /\ n \in StateType /\ \A q \in Proc : q # p => n.proc[q] = s.proc[q]
      /\ n.proc[p].mStatus = "GONE" /\ n.proc[p].attach = <<>> /\ n.proc[p].sent = <<>>
      /\ n.proc[p].terminated = s.proc[p].terminated
      /\ \A r \in Record : Left(s, p, s.rec[r], n.rec[r], r)
  BY <1>1, ExitedFacts
<1>3. /\ \A c \in Conn : n.told[c] = IF Cut(s, p, c) THEN "disconnected" ELSE s.told[c]
      /\ \A r \in Record : n.rec[r].mServiceBinder = s.rec[r].mServiceBinder
  BY <1>1, ExitTells
<1> HIDE DEF n
<1>4. /\ \A r \in Record : /\ s.rec[r].proc # 0 => s.rec[r].proc \in Proc
                           /\ s.rec[r].mConnectRecord \subseteq Conn
      /\ \A r \in Entries(s, p) : r \in Record /\ s.rec[r].proc = p /\ s.rec[r].listed
  <2>1. s.proc[p].mExistService \in Seq(Record)
    BY <1>1, Parts, ProcParts
  <2>2. \A r \in Entries(s, p) : r \in Record /\ s.rec[r].proc = p /\ s.rec[r].listed
    BY <2>1, <1>1 DEF Base, Own, Entries, Exists, ToSet
  <2>3. QED
    BY <2>2, <1>1, Parts, RecParts
<1>5. \A r \in Record : /\ n.rec[r].name = s.rec[r].name /\ n.rec[r].proc = s.rec[r].proc
                        /\ n.rec[r].listed <=> s.rec[r].listed /\ r \notin Entries(s, p)
                        /\ n.rec[r].mConnectRecord = s.rec[r].mConnectRecord
                        /\ n.rec[r].asked = s.rec[r].asked
                        /\ s.rec[r].proc = p => n.rec[r].client = NoClient
                        /\ s.rec[r].proc # p => n.rec[r] = s.rec[r]
  BY <1>2, <1>4 DEF Left
<1>6. \A q \in Proc : n.proc[q].terminated = s.proc[q].terminated
  BY <1>2
<1>7. ASSUME NEW r \in Record, r \notin Entries(s, p) PROVE Held(n, r) <=> Held(s, r)
  BY <1>4, <1>5, <1>6, <1>7 DEF Held
<1>8. ASSUME NEW r \in Record, s.rec[r].proc # p PROVE HasApp(n, r) <=> HasApp(s, r)
  BY <1>2, <1>4, <1>5, <1>8 DEF HasApp
<1>9. Queue(n, p) = {}
  BY <1>2 DEF Queue, ToSet
<1>10. ASSUME NEW r \in Record, s.rec[r].proc # p PROVE Mail(n, r) = Mail(s, r)
  <2>1. \A m \in Mail(s, r) : s.rec[r].proc \in Proc /\ m \in Queue(s, s.rec[r].proc)
    BY <1>1, MailFacts
  <2>2. \A q \in Proc : q # p => Queue(n, q) = Queue(s, q)
    BY <1>2 DEF Queue
  <2>3. \A m \in Mail(s, r) : m \in Mail(n, r)
    BY <2>1, <2>2, <1>10 DEF Mail
  <2>4. \A m \in Mail(n, r) : m \in Mail(s, r)
    BY <2>2, <1>9 DEF Mail
  <2>5. QED
    BY <2>3, <2>4
<1>11. ASSUME NEW r \in Record, s.rec[r].proc = p PROVE Mail(n, r) = {}
  <2> SUFFICES ASSUME NEW m \in Mail(n, r) PROVE FALSE
    OBVIOUS
  <2>1. PICK q \in Proc : m \in Queue(n, q)
    BY DEF Mail
  <2>2. q # p /\ m \in Queue(s, q) /\ m.r = r
    BY <2>1, <1>2, <1>9 DEF Mail, Queue
  <2>3. m.r # 0
    BY <2>2, BoundsAssumption DEF Record
  <2>4. s.rec[r].proc = q
    BY <2>2, <2>3, <1>1 DEF Base, Own
  <2>5. QED
    BY <2>2, <2>4, <1>11
<1>12. ASSUME NEW r \in Record PROVE Answered(n, r, {})
  <2>1. Answered(s, r, {})
    BY <1>1 DEF Told
  <2>2. CASE s.rec[r].proc # p
    <3>1. /\ n.rec[r] = s.rec[r] /\ (HasApp(n, r) <=> HasApp(s, r)) /\ (Held(n, r) <=> Held(s, r))
          /\ Mail(n, r) = Mail(s, r)
      BY <2>2, <1>4, <1>5, <1>7, <1>8, <1>10
    <3>2. Reached(n, r)
      BY <2>1, <3>1 DEF Answered, Reached, Expects
    <3>3. Addressed(n, r)
      BY <2>1, <3>1 DEF Answered, Addressed
    <3>4. Heard(n, r, {})
      <4> SUFFICES ASSUME n.rec[r].listed, HasApp(n, r), ~n.rec[r].asked, n.rec[r].name \in HasBinder,
                          NEW c \in n.rec[r].mConnectRecord
                   PROVE  n.told[c] = "connected" \/ \E m \in Mail(n, r) : m.op = "BIND" /\ m.conn = c
        BY DEF Heard
      <4>1. c \in Conn /\ Uses(s, r, c)
        BY <3>1, <1>4 DEF Uses
      <4>2. ~Cut(s, p, c)
        <5>1. \A q \in Entries(s, p) : c \in s.rec[q].mConnectRecord => q = r
          BY <4>1, <1>1, <1>4 DEF Uses, Single
        <5>2. QED
          BY <5>1, <2>2, <1>4 DEF Cut
      <4>3. s.told[c] = "connected" \/ \E m \in Mail(s, r) : m.op = "BIND" /\ m.conn = c
        BY <2>1, <3>1 DEF Answered, Heard
      <4>4. QED
        BY <3>1, <4>1, <4>2, <4>3, <1>3
    <3>5. QED
      BY <3>2, <3>3, <3>4 DEF Answered
  <2>3. CASE s.rec[r].proc = p
    <3>1. ~HasApp(n, r) /\ Mail(n, r) = {} /\ n.rec[r].client = NoClient
      BY <2>3, <1>2, <1>5, <1>11 DEF HasApp
    <3>2. ~NoClient.binded
      BY DEF NoClient
    <3>3. Reached(n, r)
      BY <2>1, <3>1, <3>2, <1>3, <1>5 DEF Answered, Reached
    <3>4. Addressed(n, r) /\ Heard(n, r, {})
      BY <3>1 DEF Addressed, Heard
    <3>5. QED
      BY <3>3, <3>4 DEF Answered
  <2>4. QED
    BY <2>2, <2>3
<1>13. Told(n, {})
  <2>1. \A r \in Record : \A c \in Conn : Uses(n, r, c) => Uses(s, r, c)
    BY <1>5 DEF Uses
  <2>2. ASSUME NEW q \in Proc PROVE n.proc[q].attach \in {s.proc[q].attach, <<>>} /\ Waited(n, q)
    <3>1. CASE q = p
      BY <3>1, <1>2 DEF Waited
    <3>2. CASE q # p
      BY <3>2, <1>1, <1>2 DEF Told, Waited
    <3>3. QED
      BY <3>1, <3>2
  <2>3. ASSUME NEW c \in Conn, n.told[c] = "connected"
        PROVE  s.told[c] = "connected" /\ \A r \in Record : Believer(s, r, c) => Believer(n, r, c)
    <3>1. ~Cut(s, p, c) /\ s.told[c] = "connected"
      BY <2>3, <1>3
    <3>2. \A r \in Record : Believer(s, r, c) => r \notin Entries(s, p)
      BY <3>1 DEF Cut, Believer
    <3>3. QED
      BY <3>1, <3>2, <1>5, <1>7 DEF Believer
  <2>4. QED
    BY <2>1, <2>2, <2>3, <1>1, <1>2, <1>12, ToldAfter
<1>14. ASSUME NEW q \in Proc PROVE Occupied(n, q)
  <2>1. CASE q = p
    BY <2>1, <1>2 DEF Occupied
  <2>2. CASE q # p
    <3>1. \A r \in Record : Leaving(s, r, q) => Leaving(n, r, q)
      BY <2>2, <1>5 DEF Leaving
    <3>2. Occupied(s, q) /\ n.proc[q] = s.proc[q]
      BY <2>2, <1>2 DEF Informed
    <3>3. QED
      BY <3>1, <3>2 DEF Occupied
  <2>3. QED
    BY <2>1, <2>2
<1>15. QED
  BY <1>13, <1>14 DEF Informed, n

-----------------------------------------------------------------------------
(* The requests, and the specification.                                    *)

\* startServiceReal() leaves the connections informed, in each of its three cases.
LEMMA StartServiceRealTold ==
    ASSUME NEW s, Inv(s, TRUE, Ended(s), 0), Informed(s, {}), NEW name \in Name,
           NEW conn \in Conn \union {NoConn}, conn \in Conn => ~Busy(s, conn),
           \A r \in Found(s, name) : Calm(s, r) /\ (conn = NoConn => s.rec[r].mStartFlag = {}),
           NEW n \in StartServiceReal(s, name, conn)
    PROVE  Informed(n, {})
<1>1. CASE Found(s, name) # {}
  <2>1. PICK r \in Found(s, name) : n = Serve(s, r, conn)
    BY <1>1 DEF StartServiceReal
  <2>2. r \in Record /\ s.rec[r].listed /\ HasApp(s, r) /\ Calm(s, r)
    BY DEF Found
  <2>3. CalmShown(s, r, {})
    BY <2>2, CalmShows
  <2>4. conn \in Conn
    BY <2>3 DEF CalmShown
  <2>5. n = Bind(s, r, conn)
    BY <2>1, <2>4, ConnAssumption DEF Serve
  <2>6. QED
    BY <2>2, <2>4, <2>5, BindTold
<1>2. CASE Found(s, name) = {} /\ In(s, "RUNNING") # {}
  <2>1. PICK p \in In(s, "RUNNING") : n = NewService(s, name, p, conn) /\ s.records < MaxRecords
    BY <1>2 DEF StartServiceReal
  <2>2. p \in Proc /\ s.proc[p].mStatus = "RUNNING" /\ Told(s, {}) /\ \A q \in Proc : Occupied(s, q)
    BY DEF In, Informed
  <2>3. name \notin NamesInUse(s, p, 0)
    BY <1>2, <2>2, NameIsFree
  <2>4. Joins(s, NewService(s, name, p, conn), p, conn)
    BY <2>1, <2>2, <2>3, NewServiceTold
  <2>5. QED
    BY <2>1, <2>4 DEF Joins, Informed
<1>3. CASE Found(s, name) = {} /\ In(s, "RUNNING") = {}
  <2>1. n \in SubmitAppStartupTask(s, name, conn)
    BY <1>3 DEF StartServiceReal
  <2>2. QED
    BY <2>1, SubmitTold
<1>4. QED
  BY <1>1, <1>2, <1>3

\* A service that careful callers may ask something of is calm.
LEMMA SettledIsCalm ==
    ASSUME NEW r \in Record, Settled(r)
    PROVE  Calm(sm, r)
<1>1. ASSUME Expects(sm, r, {"BIND", "UNBIND", "STOP"}) PROVE FALSE
  <2>1. PICK m \in Mail(sm, r) : m.op \in {"BIND", "UNBIND", "STOP"}
    BY <1>1 DEF Expects
  <2>2. PICK p \in Proc : m \in Queue(sm, p)
    BY <2>1 DEF Mail
  <2>3. PICK i \in DOMAIN sm.proc[p].sent : m = sm.proc[p].sent[i]
    BY <2>2 DEF Queue, ToSet
  <2>4. m.r = r
    BY <2>1 DEF Mail
  <2>5. OnItsWay(r, {"BIND", "UNBIND", "STOP"})
    BY <2>1, <2>3, <2>4 DEF OnItsWay
  <2>6. QED
    BY <2>5 DEF Settled
<1>2. QED
  BY <1>1 DEF Settled, Calm

\* So are the services of a name that they may ask for.
LEMMA MayAskCalm ==
    ASSUME NEW name, MayAsk(name), careful
    PROVE  \A r \in Found(sm, name) : Calm(sm, r)
<1>1. \A r \in Found(sm, name) : r \in Record /\ Settled(r)
  BY DEF MayAsk, Found
<1>2. QED
  BY <1>1, SettledIsCalm

\* A connection that careful callers bind with is not in use.
LEMMA UnusedIsFree ==
    ASSUME NEW conn, ~Used(conn)
    PROVE  ~Busy(sm, conn)
BY DEF Used, Busy, Uses, Asks

\* A service that its client has is one of a process that is up.
LEMMA ClientHasApp ==
    ASSUME NEW s, Base(s), NEW r \in Record, s.rec[r].client.exists
    PROVE  HasApp(s, r)
<1>1. s \in StateType /\ s.rec[r].proc # 0
  BY DEF Base, Placed
<1>2. s.rec[r].proc \in Proc
  BY <1>1, Parts, RecParts, BoundsAssumption DEF Proc
<1>3. Up(s, s.rec[r].proc)
  BY <1>2 DEF Base, Idle
<1>4. QED
  BY <1>1, <1>3 DEF Up, HasApp

\* At first there is nothing to be told.
LEMMA InitInformed == Init => Informed(sm, {})
<1> SUFFICES ASSUME Init PROVE Informed(sm, {})
  OBVIOUS
<1>1. /\ sm.rec = [r \in Record |-> NoRecord] /\ sm.proc = [p \in Proc |-> NoProc]
      /\ sm.told = [c \in Conn |-> "nothing"]
  BY DEF Init
<1>2. /\ \A r \in Record : /\ ~sm.rec[r].listed /\ ~sm.rec[r].client.exists
                           /\ ~sm.rec[r].client.binded /\ ~sm.rec[r].mServiceBinder
      /\ \A p \in Proc : sm.proc[p].mStatus = "NONE" /\ DOMAIN sm.proc[p].attach = {}
      /\ \A p \in Proc : Queue(sm, p) = {}
  <2>1. /\ ~NoRecord.listed /\ ~NoRecord.client.exists /\ ~NoRecord.client.binded
        /\ ~NoRecord.mServiceBinder
        /\ NoProc.mStatus = "NONE" /\ NoProc.sent = <<>> /\ DOMAIN NoProc.attach = {}
    BY DEF NoRecord, NoClient, NoProc
  <2>2. ToSet(<<>>) = {}
    BY DEF ToSet
  <2>3. QED
    BY <1>1, <2>1, <2>2 DEF Queue
<1>3. \A r \in Record : Mail(sm, r) = {}
  BY <1>2 DEF Mail
<1>4. \A r \in Record : Answered(sm, r, {})
  BY <1>2, <1>3 DEF Answered, Reached, Addressed, Heard
<1>5. Single(sm)
  BY <1>2 DEF Single, Uses
<1>6. \A c \in Conn : Believes(sm, c)
  BY <1>1 DEF Believes
<1>7. \A p \in Proc : Waited(sm, p) /\ Occupied(sm, p)
  BY <1>2 DEF Waited, Occupied
<1>8. QED
  BY <1>4, <1>5, <1>6, <1>7 DEF Informed, Told

\* Every step of careful callers leaves the connections informed.
LEMMA NextInformed ==
    ASSUME IInv, careful => Informed(sm, {}), [Next]_vars
    PROVE  (careful => Informed(sm, {}))'
<1>1. ASSUME careful => Informed(sm', {}), Request \/ UNCHANGED <<careful, requests>>
      PROVE  (careful => Informed(sm, {}))'
  <2>1. careful' = careful
    BY <1>1 DEF Request
  <2>2. Informed(sm, {})' <=> Informed(sm', {})
    BY DEF Informed, Told, Answered, Reached, Addressed, Heard, Expects, Mail, Queue, Held, HasApp,
           Single, Uses, Asks, Believes, Believer, Waited, Occupied, Leaving
  <2>3. QED
    BY <1>1, <2>1, <2>2
<1>2. CASE ~careful
  <2>1. Next => careful' = careful
    BY DEF Next, StartService, BindService, UnbindService, StopService, StopServiceByToken,
           PostIntent, StopProcess, Attach, Handle, Exit, Request
  <2>2. QED
    BY <1>2, <2>1 DEF vars
<1>3. CASE careful
  <2>1. /\ Inv(sm, TRUE, Ended(sm), 0) /\ sm \in StateType /\ Base(sm) /\ Informed(sm, {})
    BY <1>3 DEF IInv, Inv, Base
  <2>2. ASSUME NEW name \in Name, NEW conn \in Conn \union {NoConn}, Request, MayAsk(name),
               conn \in Conn => ~Used(conn),
               conn = NoConn => \A r \in Found(sm, name) : sm.rec[r].mStartFlag = {},
               sm' \in StartServiceReal(sm, name, conn)
        PROVE  (careful => Informed(sm, {}))'
    <3>1. \A r \in Found(sm, name) : Calm(sm, r) /\ (conn = NoConn => sm.rec[r].mStartFlag = {})
      BY <1>3, <2>2, MayAskCalm
    <3>2. conn \in Conn => ~Busy(sm, conn)
      BY <2>2, UnusedIsFree
    <3>3. Informed(sm', {})
      BY <2>1, <2>2, <3>1, <3>2, StartServiceRealTold
    <3>4. QED
      BY <1>1, <2>2, <3>3
  <2>3. ASSUME NEW name \in Name, StartService(name) PROVE (careful => Informed(sm, {}))'
    <3>1. /\ Request /\ MayAsk(name) /\ \A r \in Found(sm, name) : sm.rec[r].mStartFlag = {}
          /\ sm' \in StartServiceReal(sm, name, NoConn)
      BY <1>3, <2>3 DEF StartService
    <3>2. NoConn \notin Conn
      BY ConnAssumption
    <3>3. QED
      BY <2>2, <3>1, <3>2
  <2>4. ASSUME NEW name \in Name, NEW conn \in Conn, BindService(name, conn)
        PROVE  (careful => Informed(sm, {}))'
    <3>1. /\ Request /\ MayAsk(name) /\ ~Used(conn) /\ sm' \in StartServiceReal(sm, name, conn)
      BY <1>3, <2>4 DEF BindService
    <3>2. conn # NoConn
      BY ConnAssumption
    <3>3. QED
      BY <2>2, <3>1, <3>2
  <2>5. ASSUME NEW conn \in Conn, UnbindService(conn) PROVE (careful => Informed(sm, {}))'
    <3>1. /\ Request /\ sm' = UnbindConnection(sm, conn)
          /\ \A r \in Record : conn \in sm.rec[r].mConnectRecord => Calm(sm, r)
      BY <1>3, <2>5, SettledIsCalm DEF UnbindService
    <3>2. Informed(UnbindConnection(sm, conn), {})
      BY <2>1, <3>1, UnbindConnectionTold
    <3>3. QED
      BY <1>1, <3>1, <3>2
  <2>6. ASSUME NEW r \in Record, sm.rec[r].listed, HasApp(sm, r), Calm(sm, r), Request,
               sm' = StopServiceReal(sm, r)
        PROVE  (careful => Informed(sm, {}))'
    <3>1. Informed(StopServiceReal(sm, r), {})
      BY <2>1, <2>6, StopServiceRealTold
    <3>2. QED
      BY <1>1, <2>6, <3>1
  <2>7. ASSUME NEW name \in Name, StopService(name) PROVE (careful => Informed(sm, {}))'
    <3>1. PICK r \in Found(sm, name) : sm' = StopServiceReal(sm, r)
      BY <2>7 DEF StopService
    <3>2. Request /\ r \in Record /\ sm.rec[r].listed /\ HasApp(sm, r) /\ Calm(sm, r)
      BY <1>3, <2>7, MayAskCalm DEF StopService, Found
    <3>3. QED
      BY <2>6, <3>1, <3>2
  <2>8. ASSUME NEW r \in Record, StopServiceByToken(r) PROVE (careful => Informed(sm, {}))'
    <3>1. /\ Request /\ sm' = StopServiceReal(sm, r) /\ sm.rec[r].listed
          /\ HasApp(sm, r) /\ Calm(sm, r)
      BY <1>3, <2>1, <2>8, ClientHasApp, SettledIsCalm DEF StopServiceByToken
    <3>2. QED
      BY <2>6, <3>1
  <2>9. ASSUME PostIntent PROVE (careful => Informed(sm, {}))'
    <3>1. PICK p \in In(sm, "RUNNING") : sm' = CheckService(sm, p)
      BY <2>9 DEF PostIntent
    <3>2. p \in Proc /\ Request
      BY <2>9 DEF In, PostIntent
    <3>3. Informed(CheckService(sm, p), {})
      BY <2>1, <3>2, CheckServiceTold
    <3>4. QED
      BY <1>1, <3>1, <3>2, <3>3
  <2>10. ASSUME NEW p \in Proc, StopProcess(p) PROVE (careful => Informed(sm, {}))'
    <3>1. Request /\ sm' = StopApplication(sm, p)
      BY <2>10 DEF StopProcess
    <3>2. Informed(StopApplication(sm, p), {})
      BY <2>1, StopApplicationTold
    <3>3. QED
      BY <1>1, <3>1, <3>2
  <2>11. ASSUME NEW p \in Proc, Attach(p) PROVE (careful => Informed(sm, {}))'
    <3>1. /\ sm.proc[p].mStatus = "ATTACHING" /\ sm.records + Len(sm.proc[p].attach) <= MaxRecords
          /\ sm' = Attached(sm, p) /\ UNCHANGED <<careful, requests>>
      BY <2>11 DEF Attach
    <3>2. Informed(Attached(sm, p), {})
      BY <2>1, <3>1, AttachedTold
    <3>3. QED
      BY <1>1, <3>1, <3>2
  <2>12. ASSUME NEW p \in Proc, Handle(p) PROVE (careful => Informed(sm, {}))'
    <3>1. /\ sm.proc[p].sent # <<>> /\ UNCHANGED <<careful, requests>>
          /\ sm' = Handled(Popped(sm, p), p, Head(sm.proc[p].sent))
      BY <2>12 DEF Handle, Popped
    <3>2. Informed(Handled(Popped(sm, p), p, Head(sm.proc[p].sent)), {})
      BY <2>1, <3>1, HandleTold
    <3>3. QED
      BY <1>1, <3>1, <3>2
  <2>13. ASSUME NEW p \in Proc, Exit(p) PROVE (careful => Informed(sm, {}))'
    <3>1. sm' = Exited(sm, p) /\ UNCHANGED <<careful, requests>>
      BY <2>13 DEF Exit, Exited
    <3>2. Informed(Exited(sm, p), {})
      BY <2>1, ExitTold
    <3>3. QED
      BY <1>1, <3>1, <3>2
  <2>14. CASE UNCHANGED vars
    BY <1>1, <2>1, <2>14 DEF vars
  <2>15. CASE Next
    BY <2>15, <2>3, <2>4, <2>5, <2>7, <2>8, <2>9, <2>10, <2>11, <2>12, <2>13 DEF Next
  <2>16. QED
    BY <2>14, <2>15
<1>4. QED
  BY <1>2, <1>3

\* While callers are careful, what connections have been told and what is on
\* its way to the services agree with what the server holds.
THEOREM InformedAlways == Spec => [](careful => Informed(sm, {}))
<1>1. IInv /\ (careful => Informed(sm, {})) /\ [Next]_vars => (careful => Informed(sm, {}))'
  BY NextInformed
<1>2. Init => (careful => Informed(sm, {}))
  BY InitInformed
<1>3. QED
  BY <1>1, <1>2, Invariant, PTL DEF Spec

\* When nothing is under way no record has a message.
LEMMA QuietMail ==
    ASSUME Quiet, NEW r \in Record
    PROVE  Mail(sm, r) = {}
<1>1. ToSet(<<>>) = {}
  BY DEF ToSet
<1>2. \A p \in Proc : Queue(sm, p) = {}
  BY <1>1 DEF Quiet, Queue
<1>3. QED
  BY <1>2 DEF Mail

\* When nothing is under way, the connections of careful callers that believe
\* in a service are those of the services that exist, or of a process that has
\* been told to terminate.
THEOREM ConnectionsAgreeAlways == Spec => []ConnectionsAgree
<1>1. (careful => Informed(sm, {})) => ConnectionsAgree
  <2> SUFFICES ASSUME Informed(sm, {}), Quiet, NEW c \in Conn
               PROVE  /\ (\E r \in Record : sm.rec[r].listed /\ HasApp(sm, r) /\ Connected(c, r))
                           => sm.told[c] = "connected"
                      /\ sm.told[c] = "connected" =>
                           \E r \in Record : /\ Connected(c, r)
                                             /\ sm.rec[r].listed \/ sm.proc[sm.rec[r].proc].terminated
    BY DEF ConnectionsAgree
  <2>1. \A r \in Record : Answered(sm, r, {}) /\ Mail(sm, r) = {}
    BY QuietMail DEF Informed, Told
  <2>2. ASSUME NEW r \in Record, sm.rec[r].listed, HasApp(sm, r), Connected(c, r)
        PROVE  sm.told[c] = "connected"
    <3>1. ~sm.rec[r].asked
      BY <2>1, <2>2 DEF Answered, Reached, Expects
    <3>2. c \in sm.rec[r].mConnectRecord \ {}
      BY <2>2 DEF Connected
    <3>3. QED
      BY <2>1, <2>2, <3>1, <3>2 DEF Answered, Heard, Connected
  <2>3. ASSUME sm.told[c] = "connected"
        PROVE  \E r \in Record : /\ Connected(c, r)
                                 /\ sm.rec[r].listed \/ sm.proc[sm.rec[r].proc].terminated
    BY <2>3 DEF Informed, Told, Believes, Believer, Held, Connected
  <2>4. QED
    BY <2>2, <2>3
<1>2. QED
  BY <1>1, InformedAlways, PTL

\* When nothing is under way, a process of careful callers that runs has a
\* service that is started or bound.
THEOREM QuietProcessIsUsedAlways == Spec => []QuietProcessIsUsed
<1>1. IInv /\ (careful => Informed(sm, {})) => QuietProcessIsUsed
  <2> SUFFICES ASSUME IInv, careful, Informed(sm, {}), Quiet, NEW p \in In(sm, "RUNNING")
               PROVE  /\ sm.proc[p].mExistService # <<>>
                      /\ \A r \in ToSet(sm.proc[p].mExistService) :
                            sm.rec[r].listed /\ sm.rec[r].mStartFlag # {}
    BY DEF QuietProcessIsUsed
  <2>1. p \in Proc /\ p # 0 /\ sm.proc[p].mStatus = "RUNNING"
    BY DEF In, Proc
  <2>2. ASSUME sm.proc[p].mExistService = <<>> PROVE FALSE
    <3>1. PICK r \in Record : Leaving(sm, r, p)
      BY <2>1, <2>2 DEF Informed, Occupied
    <3>2. HasApp(sm, r) /\ sm.rec[r].listed
      BY <2>1, <3>1 DEF Leaving, HasApp
    <3>3. Expects(sm, r, {"STOP"}) \/ Expects(sm, r, {"UNBIND"})
      BY <3>1, <3>2 DEF Leaving, Informed, Told, Answered, Reached
    <3>4. QED
      BY <3>3, QuietMail DEF Expects
  <2>3. \A r \in Exists(sm, p) : sm.rec[r].listed /\ sm.rec[r].mStartFlag # {}
    BY <2>1 DEF IInv, Inv, Orderly, Tidy
  <2>4. QED
    BY <2>2, <2>3 DEF Exists
<1>2. QED
  BY <1>1, Invariant, InformedAlways, PTL
=============================================================================

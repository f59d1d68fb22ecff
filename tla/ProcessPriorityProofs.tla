------------------------ MODULE ProcessPriorityProofs ------------------------
(***************************************************************************)
(* The linked list of the process priorities keeps the order of            *)
(* PriorityOrder, for any number of processes: Represents(l, o) relates a  *)
(* list l to an order o, each method of the list leads from a list that    *)
(* represents o to one that represents what PriorityOrder says of o.       *)
(* The properties of the list and of the killer follow from it.            *)
(***************************************************************************)
EXTENDS ProcessPriority, SequenceLemmas

ListType ==
    [mHead : Pointer, mTail : Pointer, mBackgroundPos : Pointer,
     next : [Pid -> Pointer], last : [Pid -> Pointer], undefined : BOOLEAN]

OrderType == [order : Seq(Pid), place : Nat]

\* The element at a place, null beyond both ends.
At(s, i) == IF i \in 1..Len(s) THEN s[i] ELSE Null

Chained(l, s) ==
    /\ s \in Seq(Pid)
    /\ \A i, j \in 1..Len(s) : s[i] = s[j] => i = j
    /\ \A i \in 1..Len(s) : l.next[s[i]] = At(s, i + 1) /\ l.last[s[i]] = At(s, i - 1)

Linked(l, s) == Chained(l, s) /\ l.mHead = At(s, 1) /\ l.mTail = At(s, Len(s))

Represents(l, o) ==
    /\ l \in ListType /\ o \in OrderType
    /\ Linked(l, o.order)
    /\ o.place \in 1..(Len(o.order) + 1)
    /\ l.mBackgroundPos = At(o.order, o.place)

-----------------------------------------------------------------------------
(* Walk().                                                                  *)
LEMMA FirstNumbers ==
    ASSUME NEW n \in Nat
    PROVE  IsFiniteSet(1..n) /\ Cardinality(1..n) = n
<1>1. Cardinality(1..n) = IF 1 > n THEN 0 ELSE n - 1 + 1
  BY FS_Interval
<1>2. IsFiniteSet(1..n)
  BY FS_Interval
<1>3. QED
  BY <1>1, <1>2

LEMMA ShortOrder ==
    ASSUME NEW s \in Seq(Pid), \A i, j \in 1..Len(s) : s[i] = s[j] => i = j
    PROVE  Len(s) <= Cardinality(Pid)
<1>1. s \in Injection(1..Len(s), Pid)
  BY DEF Injection, IsInjective
<1>2. Cardinality(1..Len(s)) <= Cardinality(Pid)
  BY <1>1, PidAssumption, FS_Injection
<1>3. QED
  BY <1>2, FirstNumbers

\* The nodes that are met from mHead on.
Nodes(l, node) ==
    node = [i \in 1..(Cardinality(Pid) + 1) |->
               IF i = 1 THEN l.mHead
               ELSE LET before == node[i - 1]
                    IN IF before = Null THEN Null ELSE l.next[before]]

LEMMA NodeAt ==
    ASSUME NEW l, NEW s, Linked(l, s), NEW i \in Nat \ {0}
    PROVE  At(s, i) = IF i = 1 THEN l.mHead
                      ELSE IF At(s, i - 1) = Null THEN Null ELSE l.next[At(s, i - 1)]
<1>1. CASE i = 1
  BY <1>1 DEF Linked
<1>2. CASE i # 1 /\ i - 1 \in 1..Len(s)
  <2>1. At(s, i - 1) = s[i - 1] /\ s[i - 1] # Null
    BY <1>2, NullAssumption DEF Linked, Chained, At
  <2>2. l.next[s[i - 1]] = At(s, (i - 1) + 1) /\ (i - 1) + 1 = i
    BY <1>2 DEF Linked, Chained
  <2>3. QED
    BY <2>1, <2>2, <1>2
<1>3. CASE i # 1 /\ i - 1 \notin 1..Len(s)
  <2>1. At(s, i - 1) = Null /\ At(s, i) = Null
    BY <1>3 DEF At, Linked, Chained
  <2>2. QED
    BY <2>1, <1>3
<1>4. QED
  BY <1>1, <1>2, <1>3

LEMMA NodesExist == ASSUME NEW l, NEW s, Linked(l, s) PROVE \E node : Nodes(l, node)
<1> DEFINE n == Cardinality(Pid)
           node == [i \in 1..(n + 1) |-> At(s, i)]
           after == [i \in 1..(n + 1) |->
                        IF i = 1 THEN l.mHead
                        ELSE LET before == node[i - 1]
                             IN IF before = Null THEN Null ELSE l.next[before]]
<1>1. n \in Nat
  BY PidAssumption, FS_CardinalityType
<1> HIDE DEF n
<1>2. ASSUME NEW i \in 1..(n + 1) PROVE after[i] = node[i]
  <2>1. i \in Nat \ {0} /\ (i # 1 => i - 1 \in 1..(n + 1))
    BY <1>1
  <2>2. QED
    BY <2>1, NodeAt
<1>3. after = node
  <2>1. after = [i \in 1..(n + 1) |-> after[i]] /\ node = [i \in 1..(n + 1) |-> node[i]]
    OBVIOUS
  <2> HIDE DEF after, node
  <2>2. QED
    BY <2>1, <1>2
<1>4. Nodes(l, node)
  BY <1>3 DEF Nodes, n
<1>5. QED
  BY <1>4

LEMMA NodesUnique ==
    ASSUME NEW l, NEW s, Linked(l, s), NEW node, Nodes(l, node)
    PROVE  \A i \in 1..(Cardinality(Pid) + 1) : node[i] = At(s, i)
<1> DEFINE n == Cardinality(Pid)
           good == {i \in 0..n : node[i + 1] = At(s, i + 1)}
<1>1. n \in Nat
  BY PidAssumption, FS_CardinalityType
<1>2. \A i \in 1..(n + 1) :
         node[i] = IF i = 1 THEN l.mHead
                   ELSE LET before == node[i - 1]
                        IN IF before = Null THEN Null ELSE l.next[before]
  BY DEF Nodes
<1> HIDE DEF n
<1>4. \A i \in 1..(n + 1) :
         At(s, i) = IF i = 1 THEN l.mHead
                    ELSE IF At(s, i - 1) = Null THEN Null ELSE l.next[At(s, i - 1)]
  BY <1>1, NodeAt
<1>5. 0 \in good
  BY <1>1, <1>2, <1>4
<1>6. ASSUME NEW k \in 0..(n - 1), k \in good PROVE k + 1 \in good
  <2>1. /\ k + 1 \in 0..n /\ (k + 1) + 1 \in 1..(n + 1) /\ (k + 1) + 1 # 1
        /\ ((k + 1) + 1) - 1 = k + 1
    BY <1>1
  <2>2. node[k + 1] = At(s, k + 1)
    BY <1>6
  <2>3. QED
    BY <2>1, <2>2, <1>2, <1>4
<1>7. 0..n \subseteq good
  <2> HIDE DEF good
  <2>1. QED
    BY <1>1, <1>5, <1>6, UpTo
<1>8. ASSUME NEW i \in 1..(n + 1) PROVE node[i] = At(s, i)
  <2>1. i - 1 \in 0..n /\ (i - 1) + 1 = i
    BY <1>1
  <2>2. i - 1 \in good
    BY <2>1, <1>7
  <2>3. QED
    BY <2>1, <2>2
<1>9. QED
  BY <1>8 DEF n

\* Walk() visits the nodes of a linked list, in their order.
LEMMA WalkIsOrder == ASSUME NEW l, NEW s, Linked(l, s) PROVE Walk(l) = s
<1> DEFINE n == Cardinality(Pid)
           node == CHOOSE f : Nodes(l, f)
           met == {j \in DOMAIN node : node[j] # Null}
<1>1. Walk(l) = [i \in 1..Cardinality(met) |-> node[i]]
  BY DEF Walk, Nodes
<1>2. Nodes(l, node)
  BY NodesExist
<1> HIDE DEF node
<1>3. DOMAIN node = 1..(n + 1)
  BY <1>2 DEF Nodes
<1>4. \A i \in 1..(n + 1) : node[i] = At(s, i)
  BY <1>2, NodesUnique
<1>5. n \in Nat /\ Len(s) \in Nat /\ Len(s) <= n
  BY ShortOrder, PidAssumption, FS_CardinalityType DEF Linked, Chained
<1> HIDE DEF n
<1>6. met = 1..Len(s)
  BY <1>3, <1>4, <1>5, NullAssumption DEF At, Linked, Chained
<1>7. Cardinality(met) = Len(s)
  <2>1. Cardinality(1..Len(s)) = Len(s)
    BY <1>5, FirstNumbers
  <2> HIDE DEF met
  <2>2. QED
    BY <2>1, <1>5, <1>6
<1>8. \A i \in 1..Len(s) : node[i] = s[i]
  BY <1>4, <1>5 DEF At
<1> HIDE DEF met
<1>9. s = [i \in 1..Len(s) |-> s[i]]
  BY DEF Linked, Chained
<1>10. QED
  BY <1>1, <1>7, <1>8, <1>9
-----------------------------------------------------------------------------
(* Nodes that are taken out of a chain and put into it.                     *)
LEMMA Places ==
    ASSUME NEW s \in Seq(Pid)
    PROVE  /\ Len(s) \in Nat
           /\ \A k \in Int : At(s, k) \in Pointer
           /\ \A k \in Int : At(s, k) # Null <=> k \in 1..Len(s)
           /\ \A k \in 1..Len(s) : At(s, k) = s[k] /\ s[k] \in Pid
BY NullAssumption DEF At, Pointer

\* What Chained() says, place by place.
ChainedAt(l, s) ==
    /\ \A j, k \in Int : At(s, j) = At(s, k) /\ At(s, j) # Null => j = k
    /\ \A k \in Int : At(s, k) # Null => /\ l.next[At(s, k)] = At(s, k + 1)
                                        /\ l.last[At(s, k)] = At(s, k - 1)

LEMMA ChainedByPlace ==
    ASSUME NEW l, NEW s \in Seq(Pid)
    PROVE  Chained(l, s) <=> ChainedAt(l, s)
<1>1. ASSUME Chained(l, s) PROVE ChainedAt(l, s)
  <2>1. ASSUME NEW j \in Int, NEW k \in Int, At(s, j) = At(s, k), At(s, j) # Null PROVE j = k
    <3>1. j \in 1..Len(s) /\ k \in 1..Len(s) /\ s[j] = s[k]
      BY <2>1, Places
    <3>2. QED
      BY <3>1, <1>1 DEF Chained
  <2>2. ASSUME NEW k \in Int, At(s, k) # Null
        PROVE  l.next[At(s, k)] = At(s, k + 1) /\ l.last[At(s, k)] = At(s, k - 1)
    <3>1. k \in 1..Len(s) /\ At(s, k) = s[k]
      BY <2>2, Places
    <3>2. QED
      BY <3>1, <1>1 DEF Chained
  <2>3. QED
    BY <2>1, <2>2 DEF ChainedAt
<1>2. ASSUME ChainedAt(l, s) PROVE Chained(l, s)
  <2>1. ASSUME NEW j \in 1..Len(s), NEW k \in 1..Len(s), s[j] = s[k] PROVE j = k
    <3>1. j \in Int /\ k \in Int /\ At(s, j) = s[j] /\ At(s, k) = s[k] /\ At(s, j) # Null
      BY Places
    <3>2. QED
      BY <3>1, <2>1, <1>2 DEF ChainedAt
  <2>2. ASSUME NEW k \in 1..Len(s)
        PROVE  l.next[s[k]] = At(s, k + 1) /\ l.last[s[k]] = At(s, k - 1)
    <3>1. k \in Int /\ At(s, k) = s[k] /\ At(s, k) # Null
      BY Places
    <3>2. QED
      BY <3>1, <1>2 DEF ChainedAt
  <2>3. QED
    BY <2>1, <2>2 DEF Chained
<1>3. QED
  BY <1>1, <1>2

LEMMA PlacesRemoved ==
    ASSUME NEW s \in Seq(Pid), NEW i \in 1..Len(s)
    PROVE  /\ RemoveAt(s, i) \in Seq(Pid)
           /\ Len(RemoveAt(s, i)) = Len(s) - 1
           /\ \A k \in Int : At(RemoveAt(s, i), k) = IF k < i THEN At(s, k) ELSE At(s, k + 1)
<1> DEFINE t == RemoveAt(s, i)
<1>1. /\ t \in Seq(Pid) /\ Len(t) = Len(s) - 1
      /\ \A k \in 1..(Len(s) - 1) : t[k] = IF k < i THEN s[k] ELSE s[k + 1]
  BY RemoveAtFacts
<1> HIDE DEF t
<1>2. ASSUME NEW k \in Int PROVE At(t, k) = IF k < i THEN At(s, k) ELSE At(s, k + 1)
  <2>1. CASE k \in 1..(Len(s) - 1)
    BY <2>1, <1>1 DEF At
  <2>2. CASE k \notin 1..(Len(s) - 1)
    BY <2>2, <1>1 DEF At
  <2>3. QED
    BY <2>1, <2>2
<1>3. QED
  BY <1>1, <1>2 DEF t

LEMMA PlacesInserted ==
    ASSUME NEW s \in Seq(Pid), NEW i \in 1..(Len(s) + 1), NEW p \in Pid
    PROVE  /\ InsertAt(s, i, p) \in Seq(Pid)
           /\ Len(InsertAt(s, i, p)) = Len(s) + 1
           /\ \A k \in Int : At(InsertAt(s, i, p), k) = IF k < i THEN At(s, k)
                                                       ELSE IF k = i THEN p ELSE At(s, k - 1)
<1> DEFINE t == InsertAt(s, i, p)
<1>1. /\ t \in Seq(Pid) /\ Len(t) = Len(s) + 1
      /\ \A k \in 1..(Len(s) + 1) :
            t[k] = IF k < i THEN s[k] ELSE IF k = i THEN p ELSE s[k - 1]
  BY InsertAtFacts
<1> HIDE DEF t
<1>2. ASSUME NEW k \in Int
      PROVE  At(t, k) = IF k < i THEN At(s, k) ELSE IF k = i THEN p ELSE At(s, k - 1)
  <2>1. CASE k \in 1..(Len(s) + 1)
    BY <2>1, <1>1 DEF At
  <2>2. CASE k \notin 1..(Len(s) + 1)
    BY <2>2, <1>1 DEF At
  <2>3. QED
    BY <2>1, <2>2
<1>3. QED
  BY <1>1, <1>2 DEF t

LEMMA PutInFront ==
    ASSUME NEW s \in Seq(Pid), NEW p \in Pid
    PROVE  <<p>> \o s = InsertAt(s, 1, p)
<1>1. SubSeq(s, 1, 0) = << >> /\ SubSeq(s, 1, Len(s)) = s
  BY SubSeqProperties, EmptySeq
<1>2. InsertAt(s, 1, p) = SubSeq(s, 1, 0) \o <<p>> \o SubSeq(s, 1, Len(s))
  BY DEF InsertAt
<1>3. << >> \o <<p>> = <<p>>
  OBVIOUS
<1>4. QED
  BY <1>1, <1>2, <1>3

\* A node that is unlinked from place i.
LEMMA RemoveChain ==
    ASSUME NEW l, NEW s, Chained(l, s), NEW i \in 1..Len(s), NEW m,
           \A q \in Pid :
              At(s, i) # q =>
                 /\ m.next[q] = IF q = At(s, i - 1) THEN At(s, i + 1) ELSE l.next[q]
                 /\ m.last[q] = IF q = At(s, i + 1) THEN At(s, i - 1) ELSE l.last[q]
    PROVE  Chained(m, RemoveAt(s, i)) /\ \A k \in Int : At(RemoveAt(s, i), k) # At(s, i)
<1> DEFINE p == At(s, i)
           t == RemoveAt(s, i)
<1>1. s \in Seq(Pid) /\ p \in Pid /\ p # Null
  BY NullAssumption DEF Chained, At
<1>2. ChainedAt(l, s)
  BY <1>1, ChainedByPlace
<1>3. t \in Seq(Pid) /\ \A k \in Int : At(t, k) = IF k < i THEN At(s, k) ELSE At(s, k + 1)
  BY <1>1, PlacesRemoved
<1>5. \A k \in Int : At(s, k) \in Pointer
  BY <1>1, Places
<1>8. \A q \in Pid : p # q =>
         /\ m.next[q] = IF q = At(s, i - 1) THEN At(s, i + 1) ELSE l.next[q]
         /\ m.last[q] = IF q = At(s, i + 1) THEN At(s, i - 1) ELSE l.last[q]
  OBVIOUS
<1> HIDE DEF t
<1>9. ASSUME NEW k \in Int PROVE At(t, k) # p
  <2>1. \A j \in Int : j # i => At(s, j) # p
    BY <1>1, <1>2 DEF ChainedAt
  <2>2. k + 1 \in Int /\ (k < i => k # i) /\ (~(k < i) => k + 1 # i) /\ i \in Int
    OBVIOUS
  <2>3. QED
    BY <2>1, <2>2, <1>3
<1> HIDE DEF p
<1>10. ASSUME NEW j \in Int, NEW k \in Int, At(t, j) = At(t, k), At(t, j) # Null PROVE j = k
  <2> DEFINE jj == IF j < i THEN j ELSE j + 1
             kk == IF k < i THEN k ELSE k + 1
  <2>1. jj \in Int /\ kk \in Int /\ At(t, j) = At(s, jj) /\ At(t, k) = At(s, kk)
    <3>1. At(t, j) = IF j < i THEN At(s, j) ELSE At(s, j + 1)
      BY <1>3
    <3>2. At(t, k) = IF k < i THEN At(s, k) ELSE At(s, k + 1)
      BY <1>3
    <3>3. QED
      BY <3>1, <3>2
  <2>2. jj = kk
    BY <2>1, <1>10, <1>2 DEF ChainedAt
  <2>3. QED
    BY <2>2
<1>11. ASSUME NEW k \in Int, At(t, k) # Null
       PROVE  m.next[At(t, k)] = At(t, k + 1) /\ m.last[At(t, k)] = At(t, k - 1)
  <2> DEFINE kk == IF k < i THEN k ELSE k + 1
  <2>1. /\ kk \in Int /\ At(t, k) = At(s, kk) /\ At(s, kk) # Null /\ At(s, kk) \in Pid
        /\ At(s, kk) # p
    <3>1. kk \in Int /\ At(t, k) = At(s, kk)
      BY <1>3
    <3>2. At(s, kk) \in Pointer
      BY <3>1, <1>5
    <3>3. QED
      BY <3>1, <3>2, <1>9, <1>11 DEF Pointer
  <2>2. l.next[At(s, kk)] = At(s, kk + 1) /\ l.last[At(s, kk)] = At(s, kk - 1)
    BY <2>1, <1>2 DEF ChainedAt
  <2>3. (At(s, kk) = At(s, i - 1) <=> kk = i - 1) /\ (At(s, kk) = At(s, i + 1) <=> kk = i + 1)
    BY <2>1, <1>2 DEF ChainedAt
  <2>4. /\ m.next[At(s, kk)] = IF kk = i - 1 THEN At(s, i + 1) ELSE At(s, kk + 1)
        /\ m.last[At(s, kk)] = IF kk = i + 1 THEN At(s, i - 1) ELSE At(s, kk - 1)
    BY <2>1, <2>2, <2>3, <1>8
  <2>5. At(t, k + 1) = IF k + 1 < i THEN At(s, k + 1) ELSE At(s, k + 2)
    BY <1>3
  <2>6. At(t, k - 1) = IF k - 1 < i THEN At(s, k - 1) ELSE At(s, k)
    BY <1>3
  <2>7. CASE k < i
    BY <2>7, <2>1, <2>4, <2>5, <2>6
  <2>8. CASE ~(k < i)
    BY <2>8, <2>1, <2>4, <2>5, <2>6
  <2>9. QED
    BY <2>7, <2>8
<1>12. ChainedAt(m, t)
  BY <1>10, <1>11 DEF ChainedAt
<1>13. QED
  BY <1>3, <1>9, <1>12, ChainedByPlace DEF p, t

\* A node that is linked to its neighbours at place i.
LEMMA InsertChain ==
    ASSUME NEW l, NEW s, Chained(l, s), NEW i \in 1..(Len(s) + 1),
           NEW p \in Pid, \A k \in Int : At(s, k) # p,
           NEW m,
           \A q \in Pid :
              /\ m.next[q] = IF q = p THEN At(s, i) ELSE IF q = At(s, i - 1) THEN p ELSE l.next[q]
              /\ m.last[q] = IF q = p THEN At(s, i - 1) ELSE IF q = At(s, i) THEN p ELSE l.last[q]
    PROVE  Chained(m, InsertAt(s, i, p))
<1> DEFINE t == InsertAt(s, i, p)
<1>1. s \in Seq(Pid) /\ p # Null
  BY NullAssumption DEF Chained
<1>2. ChainedAt(l, s)
  BY <1>1, ChainedByPlace
<1>3. /\ t \in Seq(Pid)
      /\ \A k \in Int : At(t, k) = IF k < i THEN At(s, k) ELSE IF k = i THEN p ELSE At(s, k - 1)
  BY <1>1, PlacesInserted
<1>4. \A k \in Int : At(s, k) \in Pointer
  BY <1>1, Places
<1> HIDE DEF t
<1>5. ASSUME NEW j \in Int, NEW k \in Int, At(t, j) = At(t, k), At(t, j) # Null PROVE j = k
  <2>1. CASE j = i \/ k = i
    BY <2>1, <1>3, <1>5
  <2>2. CASE j # i /\ k # i
    <3> DEFINE jj == IF j < i THEN j ELSE j - 1
               kk == IF k < i THEN k ELSE k - 1
    <3>1. jj \in Int /\ kk \in Int /\ At(t, j) = At(s, jj) /\ At(t, k) = At(s, kk)
      BY <1>3, <2>2
    <3>2. jj = kk
      BY <3>1, <1>5, <1>2 DEF ChainedAt
    <3>3. QED
      BY <3>2, <2>2
  <2>3. QED
    BY <2>1, <2>2
<1>6. ASSUME NEW k \in Int, At(t, k) # Null
      PROVE  m.next[At(t, k)] = At(t, k + 1) /\ m.last[At(t, k)] = At(t, k - 1)
  <2>1. At(t, k + 1) = IF k + 1 < i THEN At(s, k + 1) ELSE IF k + 1 = i THEN p ELSE At(s, k)
    BY <1>3
  <2>2. At(t, k - 1) = IF k - 1 < i THEN At(s, k - 1) ELSE IF k - 1 = i THEN p ELSE At(s, k - 2)
    BY <1>3
  <2>3. CASE k = i
    <3>1. At(t, k) = p /\ m.next[p] = At(s, i) /\ m.last[p] = At(s, i - 1)
      BY <2>3, <1>3
    <3>2. QED
      BY <3>1, <2>1, <2>2, <2>3
  <2>4. CASE k # i
    <3> DEFINE kk == IF k < i THEN k ELSE k - 1
    <3>1. /\ kk \in Int /\ At(t, k) = At(s, kk) /\ At(s, kk) # Null /\ At(s, kk) \in Pid
          /\ At(s, kk) # p
      BY <2>4, <1>3, <1>4, <1>6 DEF Pointer
    <3>2. l.next[At(s, kk)] = At(s, kk + 1) /\ l.last[At(s, kk)] = At(s, kk - 1)
      BY <3>1, <1>2 DEF ChainedAt
    <3>3. (At(s, kk) = At(s, i - 1) <=> kk = i - 1) /\ (At(s, kk) = At(s, i) <=> kk = i)
      BY <3>1, <1>2 DEF ChainedAt
    <3>4. /\ m.next[At(s, kk)] = IF kk = i - 1 THEN p ELSE At(s, kk + 1)
          /\ m.last[At(s, kk)] = IF kk = i THEN p ELSE At(s, kk - 1)
      BY <3>1, <3>2, <3>3
    <3>5. CASE k < i
      BY <3>5, <3>1, <3>4, <2>1, <2>2
    <3>6. CASE ~(k < i)
      BY <3>6, <2>4, <3>1, <3>4, <2>1, <2>2
    <3>7. QED
      BY <3>5, <3>6
  <2>5. QED
    BY <2>3, <2>4
<1>7. ChainedAt(m, t)
  BY <1>5, <1>6 DEF ChainedAt
<1>8. QED
  BY <1>3, <1>7, ChainedByPlace DEF t
-----------------------------------------------------------------------------
(* The methods of the list.                                                 *)
LEMMA Unlinked ==
    ASSUME NEW l \in ListType, NEW s, Chained(l, s), NEW i \in 1..Len(s)
    PROVE  LET u == Unlink(l, At(s, i))
           IN /\ u \in ListType
              /\ u.mHead = l.mHead /\ u.mTail = l.mTail
              /\ u.mBackgroundPos = l.mBackgroundPos /\ u.undefined = l.undefined
              /\ \A q \in Pid :
                    /\ u.next[q] = IF q = At(s, i - 1) THEN At(s, i + 1) ELSE l.next[q]
                    /\ u.last[q] = IF q = At(s, i + 1) THEN At(s, i - 1) ELSE l.last[q]
<1> DEFINE p == At(s, i)
           u == Unlink(l, p)
<1>1. s \in Seq(Pid) /\ p \in Pid /\ p = s[i]
  BY DEF Chained, At
<1>2. l.next[p] = At(s, i + 1) /\ l.last[p] = At(s, i - 1)
  BY <1>1 DEF Chained
<1>3. /\ l.next \in [Pid -> Pointer] /\ l.last \in [Pid -> Pointer]
      /\ l.next[p] \in Pointer /\ l.last[p] \in Pointer
  BY <1>1 DEF ListType
<1> HIDE DEF p
<1> DEFINE nn == SetIf(l.next, l.last[p], l.next[p])
           ll == SetIf(l.last, l.next[p], l.last[p])
<1>4. u = [[l EXCEPT !.next = nn] EXCEPT !.last = ll]
  BY DEF Unlink
<1>5. nn \in [Pid -> Pointer] /\ ll \in [Pid -> Pointer]
  BY <1>3 DEF SetIf, Pointer
<1>6. \A q \in Pid : /\ nn[q] = IF q = At(s, i - 1) THEN At(s, i + 1) ELSE l.next[q]
                     /\ ll[q] = IF q = At(s, i + 1) THEN At(s, i - 1) ELSE l.last[q]
  BY <1>2, <1>3, NullAssumption DEF SetIf, Pointer
<1> HIDE DEF nn, ll, u
<1>7. /\ u \in ListType /\ u.next = nn /\ u.last = ll
      /\ u.mHead = l.mHead /\ u.mTail = l.mTail
      /\ u.mBackgroundPos = l.mBackgroundPos /\ u.undefined = l.undefined
  BY <1>4, <1>5 DEF ListType
<1>8. QED
  BY <1>6, <1>7 DEF u, p

\* Get() finds what is listed, at the place where it is.
LEMMA Found ==
    ASSUME NEW l, NEW o, Represents(l, o), NEW p \in Pid
    PROVE  /\ Get(l, p) <=> Order!Listed(o, p)
           /\ ~Get(l, p) => \A k \in Int : At(o.order, k) # p
           /\ Get(l, p) => /\ Order!Position(o, p) \in 1..Len(o.order)
                           /\ \A k \in Int : At(o.order, k) = p <=> k = Order!Position(o, p)
<1> DEFINE s == o.order
           i == Order!Position(o, p)
<1>1. Linked(l, s) /\ Chained(l, s) /\ s \in Seq(Pid)
  BY DEF Represents, Linked, Chained
<1>2. Walk(l) = s
  BY <1>1, WalkIsOrder
<1>3. Get(l, p) <=> \E k \in DOMAIN s : s[k] = p
  BY <1>2 DEF Get, ToSet
<1> HIDE DEF s
<1>4. Get(l, p) <=> Order!Listed(o, p)
  BY <1>3 DEF Order!Listed, s
<1>5. ASSUME ~Get(l, p), NEW k \in Int, At(s, k) = p PROVE FALSE
  <2>1. k \in 1..Len(s) /\ s[k] = p
    BY <1>5, NullAssumption DEF At
  <2>2. QED
    BY <2>1, <1>1, <1>3, <1>5
<1>6. ASSUME Get(l, p)
      PROVE  i \in 1..Len(s) /\ \A k \in Int : At(s, k) = p <=> k = i
  <2>1. i \in DOMAIN s /\ s[i] = p
    BY <1>3, <1>6 DEF Order!Position, s
  <2> HIDE DEF i
  <2>2. i \in 1..Len(s) /\ At(s, i) = p
    BY <2>1, <1>1 DEF At
  <2>3. ASSUME NEW k \in Int, At(s, k) = p PROVE k = i
    <3>1. ChainedAt(l, s)
      BY <1>1, ChainedByPlace
    <3>2. QED
      BY <2>2, <2>3, <3>1, NullAssumption DEF ChainedAt
  <2>4. QED
    BY <2>2, <2>3
<1>7. QED
  BY <1>4, <1>5, <1>6 DEF s

\* What a list that represents an order says of it, place by place.
LEMMA Represented ==
    ASSUME NEW l, NEW o, Represents(l, o)
    PROVE  /\ l \in ListType /\ o \in OrderType /\ Chained(l, o.order)
           /\ o.order \in Seq(Pid) /\ Len(o.order) \in Nat /\ o.place \in 1..(Len(o.order) + 1)
           /\ l.mHead = At(o.order, 1) /\ l.mTail = At(o.order, Len(o.order))
           /\ l.mBackgroundPos = At(o.order, o.place)
           /\ \A k \in Int : At(o.order, k) \in Pointer
           /\ \A k \in Int : At(o.order, k) # Null <=> k \in 1..Len(o.order)
           /\ ChainedAt(l, o.order)
<1>1. l \in ListType /\ o \in OrderType /\ Chained(l, o.order) /\ o.order \in Seq(Pid)
  BY DEF Represents, Linked, Chained
<1>2. QED
  BY <1>1, Places, ChainedByPlace DEF Represents, Linked

LEMMA HeadIs ==
    ASSUME NEW l \in ListType, NEW p \in Pid
    PROVE  LET m == AtHead(l, p)
           IN /\ m \in ListType /\ m.mHead = p /\ m.mTail = l.mTail
              /\ m.mBackgroundPos = l.mBackgroundPos /\ m.undefined = l.undefined
              /\ \A q \in Pid :
                    /\ m.next[q] = IF q = p THEN l.mHead ELSE l.next[q]
                    /\ m.last[q] = IF q = l.mHead THEN p ELSE IF q = p THEN Null ELSE l.last[q]
<1> DEFINE h == [l EXCEPT !.mHead = p]
           nn == [l.next EXCEPT ![p] = l.mHead]
           ll == SetIf([l.last EXCEPT ![p] = Null], l.mHead, p)
           m == AtHead(l, p)
<1>1. /\ h \in ListType /\ h.next = l.next /\ h.mHead = p /\ h.mTail = l.mTail
      /\ h.mBackgroundPos = l.mBackgroundPos /\ h.undefined = l.undefined
  BY DEF ListType, Pointer
<1>2. m = [[h EXCEPT !.next = [h.next EXCEPT ![p] = l.mHead]] EXCEPT !.last = ll]
  BY DEF AtHead
<1>3. m = [[h EXCEPT !.next = nn] EXCEPT !.last = ll]
  BY <1>1, <1>2
<1>4. l.next \in [Pid -> Pointer] /\ l.last \in [Pid -> Pointer] /\ l.mHead \in Pointer
  BY DEF ListType
<1>5. nn \in [Pid -> Pointer] /\ ll \in [Pid -> Pointer]
  BY <1>4 DEF SetIf, Pointer
<1>6. \A q \in Pid :
         /\ nn[q] = IF q = p THEN l.mHead ELSE l.next[q]
         /\ ll[q] = IF q = l.mHead THEN p ELSE IF q = p THEN Null ELSE l.last[q]
  BY <1>4, NullAssumption DEF SetIf, Pointer
<1> HIDE DEF h, nn, ll, m
<1>7. /\ m \in ListType /\ m.next = nn /\ m.last = ll /\ m.mHead = p /\ m.mTail = l.mTail
      /\ m.mBackgroundPos = l.mBackgroundPos /\ m.undefined = l.undefined
  BY <1>1, <1>3, <1>5 DEF ListType
<1>8. QED
  BY <1>6, <1>7 DEF m

LEMMA BackgroundIs ==
    ASSUME NEW l \in ListType, NEW p \in Pid, NEW before \in Pointer,
           before = IF l.mBackgroundPos = Null THEN l.mTail ELSE l.last[l.mBackgroundPos]
    PROVE  LET m == AtBackground(l, p)
               back == l.mBackgroundPos
           IN /\ m \in ListType /\ m.mHead = l.mHead
              /\ m.mTail = IF back = Null THEN p ELSE l.mTail
              /\ m.mBackgroundPos = p /\ m.undefined = l.undefined
              /\ \A q \in Pid :
                    /\ m.next[q] = IF q = p THEN back ELSE IF q = before THEN p ELSE l.next[q]
                    /\ m.last[q] = IF q = p THEN before ELSE IF q = back THEN p ELSE l.last[q]
<1> DEFINE back == l.mBackgroundPos
           nn == [SetIf(l.next, before, p) EXCEPT ![p] = back]
           ll == [SetIf(l.last, back, p) EXCEPT ![p] = before]
           tail == IF back = Null THEN p ELSE l.mTail
           m == AtBackground(l, p)
<1>1. m = [[[[l EXCEPT !.mTail = tail] EXCEPT !.mBackgroundPos = p] EXCEPT !.next = nn]
             EXCEPT !.last = ll]
  <2>1. l.next = [[l EXCEPT !.mTail = tail] EXCEPT !.mBackgroundPos = p].next
    BY DEF ListType
  <2>2. l.last = [[[l EXCEPT !.mTail = tail] EXCEPT !.mBackgroundPos = p] EXCEPT !.next = nn].last
    BY DEF ListType
  <2>3. QED
    BY <2>1, <2>2 DEF AtBackground
<1>2. /\ l.next \in [Pid -> Pointer] /\ l.last \in [Pid -> Pointer]
      /\ back \in Pointer /\ tail \in Pointer
  BY DEF ListType, Pointer
<1>3. nn \in [Pid -> Pointer] /\ ll \in [Pid -> Pointer]
  BY <1>2 DEF SetIf, Pointer
<1>4. \A q \in Pid :
         /\ nn[q] = IF q = p THEN back ELSE IF q = before THEN p ELSE l.next[q]
         /\ ll[q] = IF q = p THEN before ELSE IF q = back THEN p ELSE l.last[q]
  BY <1>2, NullAssumption DEF SetIf, Pointer
<1> HIDE DEF back, nn, ll, tail, m
<1>5. /\ m \in ListType /\ m.next = nn /\ m.last = ll /\ m.mHead = l.mHead
      /\ m.mTail = tail /\ m.mBackgroundPos = p /\ m.undefined = l.undefined
  <2> DEFINE a == [l EXCEPT !.mTail = tail]
             b == [a EXCEPT !.mBackgroundPos = p]
             c == [b EXCEPT !.next = nn]
             d == [c EXCEPT !.last = ll]
  <2>1. a \in ListType /\ a.mTail = tail /\ a.mHead = l.mHead /\ a.undefined = l.undefined
    BY <1>2 DEF ListType
  <2>2. m = d
    BY <1>1
  <2> HIDE DEF a
  <2>3. /\ b \in ListType /\ b.mTail = tail /\ b.mHead = l.mHead /\ b.undefined = l.undefined
        /\ b.mBackgroundPos = p
    BY <2>1 DEF ListType, Pointer
  <2> HIDE DEF b
  <2>4. /\ c \in ListType /\ c.mTail = tail /\ c.mHead = l.mHead /\ c.undefined = l.undefined
        /\ c.mBackgroundPos = p /\ c.next = nn
    BY <2>3, <1>3 DEF ListType
  <2> HIDE DEF c
  <2>5. /\ d \in ListType /\ d.mTail = tail /\ d.mHead = l.mHead /\ d.undefined = l.undefined
        /\ d.mBackgroundPos = p /\ d.next = nn /\ d.last = ll
    BY <2>4, <1>3 DEF ListType
  <2>6. QED
    BY <2>2, <2>5
<1>6. QED
  BY <1>4, <1>5 DEF m, back, tail

\* Add(), in front.
LEMMA AddedInFront ==
    ASSUME NEW l, NEW o, Represents(l, o), NEW p \in Pid
    PROVE  /\ Represents(Add(l, p, TRUE), Order!Added(o, p, TRUE))
           /\ Add(l, p, TRUE).undefined = l.undefined
<1> DEFINE s == o.order
           t == <<p>> \o s
           m == [AtHead(l, p) EXCEPT !.mTail = IF @ = Null THEN p ELSE @]
<1>1. CASE Get(l, p)
  BY <1>1, Found DEF Add, Order!Added
<1>2. CASE ~Get(l, p)
  <2>1. /\ l \in ListType /\ o \in OrderType /\ Chained(l, s)
        /\ s \in Seq(Pid) /\ Len(s) \in Nat /\ o.place \in 1..(Len(s) + 1)
        /\ l.mHead = At(s, 1) /\ l.mTail = At(s, Len(s))
        /\ l.mBackgroundPos = At(s, o.place)
        /\ \A k \in Int : At(s, k) \in Pointer
        /\ \A k \in Int : At(s, k) # Null <=> k \in 1..Len(s)
    BY Represented
  <2>2. \A k \in Int : At(s, k) # p
    BY <1>2, Found
  <2>3. /\ t = InsertAt(s, 1, p) /\ t \in Seq(Pid) /\ Len(t) = Len(s) + 1
        /\ \A k \in Int : At(t, k) = IF k < 1 THEN At(s, k) ELSE IF k = 1 THEN p ELSE At(s, k - 1)
    <3>1. t = InsertAt(s, 1, p) /\ 1 \in 1..(Len(s) + 1)
      BY <2>1, PutInFront
    <3> HIDE DEF t
    <3>2. QED
      BY <2>1, <3>1, PlacesInserted
  <2>4. /\ m \in ListType /\ m.mHead = p /\ m.mTail = IF l.mTail = Null THEN p ELSE l.mTail
        /\ m.mBackgroundPos = l.mBackgroundPos /\ m.undefined = l.undefined
        /\ \A q \in Pid :
              /\ m.next[q] = IF q = p THEN l.mHead ELSE l.next[q]
              /\ m.last[q] = IF q = l.mHead THEN p ELSE IF q = p THEN Null ELSE l.last[q]
    <3> DEFINE h == AtHead(l, p)
    <3>1. /\ h \in ListType /\ h.mHead = p /\ h.mTail = l.mTail
          /\ h.mBackgroundPos = l.mBackgroundPos /\ h.undefined = l.undefined
          /\ \A q \in Pid :
                /\ h.next[q] = IF q = p THEN l.mHead ELSE l.next[q]
                /\ h.last[q] = IF q = l.mHead THEN p ELSE IF q = p THEN Null ELSE l.last[q]
      BY <2>1, HeadIs
    <3>2. m = [h EXCEPT !.mTail = IF h.mTail = Null THEN p ELSE h.mTail]
      OBVIOUS
    <3> HIDE DEF h, m
    <3>3. /\ m \in ListType /\ m.mHead = p /\ m.mTail = IF l.mTail = Null THEN p ELSE l.mTail
          /\ m.mBackgroundPos = l.mBackgroundPos /\ m.undefined = l.undefined
          /\ m.next = h.next /\ m.last = h.last
      BY <3>1, <3>2 DEF ListType, Pointer
    <3>4. QED
      BY <3>1, <3>3
  <2> HIDE DEF m, t, s
  <2>5. \A q \in Pid :
           /\ m.next[q] = IF q = p THEN At(s, 1) ELSE IF q = At(s, 1 - 1) THEN p ELSE l.next[q]
           /\ m.last[q] = IF q = p THEN At(s, 1 - 1) ELSE IF q = At(s, 1) THEN p ELSE l.last[q]
    <3>1. At(s, 1 - 1) = Null /\ At(s, 1) # p /\ 1 \in Int
      BY <2>1, <2>2
    <3>2. QED
      BY <3>1, <2>1, <2>4, NullAssumption
  <2>6. Chained(m, t)
    BY <2>1, <2>2, <2>3, <2>5, InsertChain
  <2>7. m.mHead = At(t, 1) /\ m.mTail = At(t, Len(t))
    <3>1. At(t, 1) = p /\ At(t, Len(t)) = IF Len(s) = 0 THEN p ELSE At(s, Len(s))
      BY <2>1, <2>3
    <3>2. l.mTail = Null <=> Len(s) = 0
      BY <2>1
    <3>3. QED
      BY <3>1, <3>2, <2>1, <2>4
  <2>8. m.mBackgroundPos = At(t, o.place + 1)
    BY <2>1, <2>3, <2>4
  <2>9. Represents(m, [order |-> t, place |-> o.place + 1])
    BY <2>1, <2>3, <2>4, <2>6, <2>7, <2>8 DEF Represents, Linked, OrderType
  <2>10. Add(l, p, TRUE) = m /\ Order!Added(o, p, TRUE) = [order |-> t, place |-> o.place + 1]
    BY <1>2, Found DEF Add, Order!Added, m, t, s
  <2>11. QED
    BY <2>4, <2>9, <2>10
<1>3. QED
  BY <1>1, <1>2
\* What precedes the background.
LEMMA BeforeBackground ==
    ASSUME NEW l \in ListType, NEW s, Chained(l, s), l.mTail = At(s, Len(s)),
           NEW place \in 1..(Len(s) + 1), l.mBackgroundPos = At(s, place)
    PROVE  At(s, place - 1) = IF l.mBackgroundPos = Null THEN l.mTail ELSE l.last[l.mBackgroundPos]
<1>1. s \in Seq(Pid)
  BY DEF Chained
<1>2. Len(s) \in Nat /\ \A k \in Int : At(s, k) # Null <=> k \in 1..Len(s)
  BY <1>1, Places
<1>3. CASE place = Len(s) + 1
  BY <1>2, <1>3
<1>4. CASE place # Len(s) + 1
  <2>1. place \in 1..Len(s) /\ At(s, place) = s[place]
    BY <1>2, <1>4 DEF At
  <2>2. QED
    BY <1>2, <2>1 DEF Chained
<1>5. QED
  BY <1>3, <1>4

LEMMA InsertsAlike ==
    ASSUME NEW s, NEW i, NEW p
    PROVE  Order!InsertAt(s, i, p) = InsertAt(s, i, p) /\ Order!RemoveAt(s, i) = RemoveAt(s, i)
BY DEF InsertAt, RemoveAt, Order!InsertAt, Order!RemoveAt

\* Add(), in front of the background.
LEMMA AddedBehind ==
    ASSUME NEW l, NEW o, Represents(l, o), NEW p \in Pid
    PROVE  /\ Represents(Add(l, p, FALSE), Order!Added(o, p, FALSE))
           /\ Add(l, p, FALSE).undefined = l.undefined
<1> DEFINE s == o.order
           t == InsertAt(s, o.place, p)
           before == At(s, o.place - 1)
           b == AtBackground(l, p)
           m == [b EXCEPT !.mHead = HeadBefore(l, p)]
<1>1. CASE Get(l, p)
  BY <1>1, Found DEF Add, Order!Added
<1>2. CASE ~Get(l, p)
  <2>1. /\ l \in ListType /\ o \in OrderType /\ Chained(l, s)
        /\ s \in Seq(Pid) /\ Len(s) \in Nat /\ o.place \in 1..(Len(s) + 1)
        /\ l.mHead = At(s, 1) /\ l.mTail = At(s, Len(s))
        /\ l.mBackgroundPos = At(s, o.place)
        /\ \A k \in Int : At(s, k) \in Pointer
        /\ \A k \in Int : At(s, k) # Null <=> k \in 1..Len(s)
    BY Represented
  <2>2. \A k \in Int : At(s, k) # p
    BY <1>2, Found
  <2>3. /\ t \in Seq(Pid) /\ Len(t) = Len(s) + 1
        /\ \A k \in Int : At(t, k) = IF k < o.place THEN At(s, k)
                                     ELSE IF k = o.place THEN p ELSE At(s, k - 1)
    <3>1. o.place \in 1..(Len(s) + 1)
      BY <2>1
    <3> HIDE DEF s
    <3>2. QED
      BY <2>1, <3>1, PlacesInserted
  <2>4. before \in Pointer /\ before = IF l.mBackgroundPos = Null THEN l.mTail
                                       ELSE l.last[l.mBackgroundPos]
    <3>1. o.place \in Int
      BY <2>1
    <3> HIDE DEF s
    <3>2. QED
      BY <2>1, <3>1, BeforeBackground
  <2> HIDE DEF t, s, before
  <2>5. /\ b \in ListType /\ b.mHead = l.mHead
        /\ b.mTail = IF l.mBackgroundPos = Null THEN p ELSE l.mTail
        /\ b.mBackgroundPos = p /\ b.undefined = l.undefined
        /\ \A q \in Pid :
              /\ b.next[q] = IF q = p THEN l.mBackgroundPos ELSE IF q = before THEN p ELSE l.next[q]
              /\ b.last[q] = IF q = p THEN before
                             ELSE IF q = l.mBackgroundPos THEN p ELSE l.last[q]
    BY <2>1, <2>4, BackgroundIs
  <2> HIDE DEF b
  <2>6. HeadBefore(l, p) = IF o.place = 1 THEN p ELSE l.mHead
    <3>1. CASE l.mBackgroundPos = Null
      <4>1. o.place \in Int /\ At(s, o.place) = Null
        BY <2>1, <3>1
      <4>2. o.place \notin 1..Len(s)
        BY <2>1, <4>1
      <4>3. o.place = Len(s) + 1
        BY <2>1, <4>1, <4>2
      <4>4. l.mHead = Null <=> Len(s) = 0
        BY <2>1
      <4>5. QED
        BY <2>1, <3>1, <4>3, <4>4 DEF HeadBefore
    <3>2. CASE l.mBackgroundPos # Null
      <4>1. l.last[l.mBackgroundPos] = Null <=> o.place = 1
        BY <2>1, <2>4, <3>2 DEF before
      <4>2. QED
        BY <3>2, <4>1 DEF HeadBefore
    <3>3. QED
      BY <3>1, <3>2
  <2>7. /\ m \in ListType /\ m.mHead = IF o.place = 1 THEN p ELSE l.mHead
        /\ m.mTail = IF l.mBackgroundPos = Null THEN p ELSE l.mTail
        /\ m.mBackgroundPos = p /\ m.undefined = l.undefined
        /\ m.next = b.next /\ m.last = b.last
    BY <2>1, <2>5, <2>6 DEF ListType, Pointer
  <2> HIDE DEF m
  <2>8. \A q \in Pid :
           /\ m.next[q] = IF q = p THEN At(s, o.place) ELSE IF q = At(s, o.place - 1) THEN p ELSE l.next[q]
           /\ m.last[q] = IF q = p THEN At(s, o.place - 1) ELSE IF q = At(s, o.place) THEN p ELSE l.last[q]
    BY <2>1, <2>5, <2>7 DEF before
  <2>9. Chained(m, t)
    BY <2>1, <2>2, <2>8, InsertChain DEF t
  <2>10. m.mHead = At(t, 1) /\ m.mTail = At(t, Len(t)) /\ m.mBackgroundPos = At(t, o.place)
    <3>1. l.mBackgroundPos = Null <=> o.place = Len(s) + 1
      BY <2>1
    <3>2. /\ At(t, 1) = IF o.place = 1 THEN p ELSE At(s, 1)
          /\ At(t, Len(t)) = IF o.place = Len(s) + 1 THEN p ELSE At(s, Len(s))
          /\ At(t, o.place) = p
      BY <2>1, <2>3
    <3>3. QED
      BY <3>1, <3>2, <2>1, <2>7
  <2>11. Represents(m, [order |-> t, place |-> o.place])
    BY <2>1, <2>3, <2>7, <2>9, <2>10 DEF Represents, Linked, OrderType
  <2>12. Add(l, p, FALSE) = m /\ Order!Added(o, p, FALSE) = [order |-> t, place |-> o.place]
    <3>1. [o EXCEPT !.order = t] = [order |-> t, place |-> o.place]
      BY <2>1 DEF OrderType
    <3>2. ~Order!Listed(o, p)
      BY <1>2, Found
    <3>3. Order!InsertAt(o.order, o.place, p) = t
      BY InsertsAlike DEF t, s
    <3>4. QED
      BY <1>2, <3>1, <3>2, <3>3 DEF Add, Order!Added, m, b
  <2>13. QED
    BY <2>7, <2>11, <2>12
<1>3. QED
  BY <1>1, <1>2
\* A list u and an order t that are l and s without the node p at place i.
TakenOut(l, s, i, p, u, t) ==
    /\ u \in ListType /\ Chained(u, t)
    /\ u.mHead = l.mHead /\ u.mTail = l.mTail
    /\ u.mBackgroundPos = l.mBackgroundPos /\ u.undefined = l.undefined
    /\ t \in Seq(Pid) /\ Len(t) = Len(s) - 1
    /\ \A k \in Int : At(t, k) = IF k < i THEN At(s, k) ELSE At(s, k + 1)
    /\ \A k \in Int : At(t, k) # p
    /\ At(t, 1) = IF l.mHead = p THEN l.next[p] ELSE l.mHead
    /\ At(t, Len(t)) = IF l.mTail = p THEN l.last[p] ELSE l.mTail
    /\ l.next[p] = At(s, i + 1) /\ l.last[p] = At(s, i - 1)

LEMMA RemovedIs ==
    ASSUME NEW l, NEW s, l \in ListType, Linked(l, s), NEW i \in 1..Len(s),
           NEW p \in Pid, p = At(s, i),
           NEW u, u = Unlink(l, p), NEW t, t = RemoveAt(s, i)
    PROVE  TakenOut(l, s, i, p, u, t)
<1>1. /\ Chained(l, s) /\ s \in Seq(Pid) /\ ChainedAt(l, s)
      /\ l.mHead = At(s, 1) /\ l.mTail = At(s, Len(s))
  BY ChainedByPlace DEF Linked, Chained
<1>2. /\ u \in ListType
      /\ u.mHead = l.mHead /\ u.mTail = l.mTail
      /\ u.mBackgroundPos = l.mBackgroundPos /\ u.undefined = l.undefined
      /\ \A q \in Pid :
            /\ u.next[q] = IF q = At(s, i - 1) THEN At(s, i + 1) ELSE l.next[q]
            /\ u.last[q] = IF q = At(s, i + 1) THEN At(s, i - 1) ELSE l.last[q]
  BY <1>1, Unlinked
<1>3. /\ t \in Seq(Pid) /\ Len(t) = Len(s) - 1
      /\ \A k \in Int : At(t, k) = IF k < i THEN At(s, k) ELSE At(s, k + 1)
  BY <1>1, PlacesRemoved
<1>4. Chained(u, t) /\ \A k \in Int : At(t, k) # p
  BY <1>1, <1>2, RemoveChain
<1>5. l.next[p] = At(s, i + 1) /\ l.last[p] = At(s, i - 1)
  <2>1. p # Null /\ i \in Int
    BY NullAssumption
  <2>2. QED
    BY <1>1, <2>1 DEF ChainedAt
<1>6. Len(s) \in Nat /\ i \in Int /\ p # Null
  BY <1>1, NullAssumption
<1>7. At(t, 1) = IF l.mHead = p THEN l.next[p] ELSE l.mHead
  <2>1. l.mHead = p <=> i = 1
    BY <1>1, <1>6 DEF ChainedAt
  <2>2. At(t, 1) = IF 1 < i THEN At(s, 1) ELSE At(s, 1 + 1)
    BY <1>3
  <2>3. QED
    BY <2>1, <2>2, <1>1, <1>5, <1>6
<1>8. At(t, Len(t)) = IF l.mTail = p THEN l.last[p] ELSE l.mTail
  <2>1. l.mTail = p <=> i = Len(s)
    BY <1>1, <1>6 DEF ChainedAt
  <2>2. /\ Len(t) = Len(s) - 1
        /\ At(t, Len(s) - 1) = IF Len(s) - 1 < i THEN At(s, Len(s) - 1) ELSE At(s, (Len(s) - 1) + 1)
    <3>1. Len(s) - 1 \in Int
      BY <1>6
    <3>2. QED
      BY <3>1, <1>3
  <2>3. CASE i = Len(s)
    <3>1. At(t, Len(t)) = At(s, i - 1)
      BY <2>2, <2>3, <1>6
    <3>2. QED
      BY <3>1, <2>1, <2>3, <1>5
  <2>4. CASE i # Len(s)
    <3>1. ~(Len(s) - 1 < i)
      BY <2>4, <1>6
    <3>2. (Len(s) - 1) + 1 = Len(s)
      BY <1>6
    <3>3. At(t, Len(t)) = At(s, Len(s))
      BY <2>2, <2>4, <3>1, <3>2
    <3>4. QED
      BY <3>3, <2>1, <2>4, <1>1
  <2>5. QED
    BY <2>3, <2>4
<1>9. QED
  BY <1>2, <1>3, <1>4, <1>5, <1>7, <1>8 DEF TakenOut

LEMMA HomeIs ==
    ASSUME NEW l, NEW o, Represents(l, o), NEW i \in 1..Len(o.order)
    PROVE  /\ l.next[At(o.order, i)] = At(o.order, i + 1)
           /\ Order!AtHome(o, i) <=> /\ l.mBackgroundPos # Null
                                     /\ l.last[l.mBackgroundPos] = At(o.order, i)
           /\ Order!AtHome(o, i) <=> /\ l.mBackgroundPos # Null
                                     /\ l.next[At(o.order, i)] = l.mBackgroundPos
           /\ l.mBackgroundPos = At(o.order, i) <=> o.place = i
<1> DEFINE s == o.order
<1>1. /\ s \in Seq(Pid) /\ Len(s) \in Nat /\ o.place \in 1..(Len(s) + 1)
      /\ l.mBackgroundPos = At(s, o.place)
      /\ \A k \in Int : At(s, k) # Null <=> k \in 1..Len(s)
      /\ ChainedAt(l, s)
  BY Represented
<1>2. l.mBackgroundPos # Null <=> o.place <= Len(s)
  BY <1>1
<1>3. At(s, i) # Null /\ i \in Int /\ o.place \in Int
  BY <1>1
<1>4. l.next[At(s, i)] = At(s, i + 1)
  BY <1>1, <1>3 DEF ChainedAt
<1> HIDE DEF s
<1>5. l.mBackgroundPos # Null => l.last[l.mBackgroundPos] = At(s, o.place - 1)
  BY <1>1, <1>3 DEF ChainedAt
<1>6. At(s, o.place - 1) = At(s, i) <=> o.place - 1 = i
  BY <1>1, <1>3 DEF ChainedAt
<1>7. l.mBackgroundPos # Null => (At(s, i + 1) = At(s, o.place) <=> i + 1 = o.place)
  BY <1>1, <1>3 DEF ChainedAt
<1>8. At(s, o.place) = At(s, i) <=> o.place = i
  BY <1>1, <1>3 DEF ChainedAt
<1>9. Order!AtHome(o, i) <=> i + 1 = o.place /\ o.place <= Len(s)
  BY DEF Order!AtHome, s
<1>10. QED
  BY <1>1, <1>2, <1>3, <1>4, <1>5, <1>6, <1>7, <1>8, <1>9 DEF s
LEMMA Assembled ==
    ASSUME NEW m \in ListType, NEW t, Chained(m, t), NEW place \in 1..(Len(t) + 1),
           m.mHead = At(t, 1), m.mTail = At(t, Len(t)), m.mBackgroundPos = At(t, place)
    PROVE  Represents(m, [order |-> t, place |-> place])
<1> DEFINE o == [order |-> t, place |-> place]
<1>1. t \in Seq(Pid) /\ Len(t) \in Nat
  BY DEF Chained
<1>2. place \in Nat
  BY <1>1
<1>3. o \in OrderType /\ o.order = t /\ o.place = place
  BY <1>1, <1>2 DEF OrderType
<1> HIDE DEF o
<1>4. Represents(m, o)
  BY <1>3 DEF Represents, Linked
<1>5. QED
  BY <1>4 DEF o

\* RemovePid().
LEMMA RemovedKeeps ==
    ASSUME NEW l, NEW o, Represents(l, o), NEW p \in Pid
    PROVE  /\ Represents(RemovePid(l, p), Order!Removed(o, p))
           /\ RemovePid(l, p).undefined = l.undefined
<1> DEFINE s == o.order
           i == Order!Position(o, p)
           t == RemoveAt(s, i)
           u == Unlink(l, p)
           head == IF l.mHead = p THEN l.next[p] ELSE l.mHead
           tail == IF l.mTail = p THEN l.last[p] ELSE l.mTail
           back == BackgroundWithout(l, p)
           m == [u EXCEPT
                   !.mHead = IF @ = p THEN l.next[p] ELSE @,
                   !.mTail = IF @ = p THEN l.last[p] ELSE @,
                   !.mBackgroundPos = BackgroundWithout(l, p),
                   !.next[p] = Null, !.last[p] = Null]
           place == IF i < o.place /\ ~Order!AtHome(o, i) THEN o.place - 1 ELSE o.place
<1> HIDE DEF m
<1>1. CASE ~Get(l, p)
  BY <1>1, Found DEF RemovePid, Order!Removed
<1>2. CASE Get(l, p)
  <2>1. /\ l \in ListType /\ o \in OrderType /\ Linked(l, s)
        /\ s \in Seq(Pid) /\ Len(s) \in Nat /\ o.place \in 1..(Len(s) + 1)
        /\ l.mBackgroundPos = At(s, o.place)
        /\ \A k \in Int : At(s, k) \in Pointer
        /\ \A k \in Int : At(s, k) # Null <=> k \in 1..Len(s)
        /\ ChainedAt(l, s)
    BY Represented DEF Represents
  <2>2. i \in 1..Len(s) /\ p = At(s, i) /\ i \in Int
    BY <1>2, Found
  <2>3. /\ l.next[At(s, i)] = At(s, i + 1)
        /\ Order!AtHome(o, i) <=> /\ l.mBackgroundPos # Null
                                  /\ l.next[At(s, i)] = l.mBackgroundPos
        /\ l.mBackgroundPos = At(s, i) <=> o.place = i
    BY <2>2, HomeIs
  <2> HIDE DEF i, s
  <2>4. /\ u \in ListType /\ Chained(u, t)
        /\ u.mHead = l.mHead /\ u.mTail = l.mTail
        /\ u.mBackgroundPos = l.mBackgroundPos /\ u.undefined = l.undefined
        /\ t \in Seq(Pid) /\ Len(t) = Len(s) - 1
        /\ \A k \in Int : At(t, k) = IF k < i THEN At(s, k) ELSE At(s, k + 1)
        /\ \A k \in Int : At(t, k) # p
        /\ At(t, 1) = head
        /\ At(t, Len(t)) = tail
        /\ l.next[p] = At(s, i + 1) /\ l.last[p] = At(s, i - 1)
    <3>1. l \in ListType /\ Linked(l, s)
      BY <2>1
    <3>2. u = Unlink(l, p) /\ t = RemoveAt(s, i)
      OBVIOUS
    <3> HIDE DEF u, t
    <3>3. TakenOut(l, s, i, p, u, t)
      BY <2>2, <3>1, <3>2, RemovedIs
    <3>4. QED
      BY <3>3 DEF TakenOut
  <2> HIDE DEF u, t
  <2>5. place \in 1..(Len(t) + 1)
    <3>1. /\ o.place \in Int /\ o.place >= 1 /\ o.place <= Len(s) + 1
          /\ i \in Int /\ i >= 1 /\ i <= Len(s) /\ Len(t) + 1 = Len(s) /\ Len(s) \in Int
      BY <2>1, <2>2, <2>4
    <3>2. Order!AtHome(o, i) <=> i + 1 = o.place /\ o.place <= Len(s)
      BY DEF Order!AtHome, s
    <3>3. place \in Int /\ place >= 1 /\ place <= Len(s)
      BY <3>1, <3>2
    <3>4. QED
      BY <3>1, <3>3
  <2>6. back = At(t, place)
    <3>1. CASE o.place = i
      <4>1. l.mBackgroundPos = p /\ place = i
        BY <2>2, <2>3, <3>1
      <4>2. QED
        BY <4>1, <2>2, <2>4 DEF BackgroundWithout
    <3>2. CASE Order!AtHome(o, i)
      <4>1. o.place = i + 1 /\ place = o.place
        BY <3>2 DEF Order!AtHome
      <4>2. l.mBackgroundPos # p /\ l.mBackgroundPos # Null /\ l.next[p] = l.mBackgroundPos
        BY <4>1, <2>2, <2>3, <3>2
      <4>3. l.next[l.mBackgroundPos] = At(s, o.place + 1)
        BY <4>2, <2>1 DEF ChainedAt
      <4>4. At(t, place) = At(s, o.place + 1)
        BY <4>1, <2>2, <2>4
      <4>5. QED
        BY <4>2, <4>3, <4>4 DEF BackgroundWithout
    <3>3. CASE o.place # i /\ ~Order!AtHome(o, i)
      <4>1. l.mBackgroundPos # p /\ ~(l.mBackgroundPos = l.next[p] /\ l.next[p] # Null)
        BY <2>2, <2>3, <3>3
      <4>2. back = At(s, o.place)
        BY <4>1, <2>1 DEF BackgroundWithout
      <4>3. CASE i < o.place
        <5>1. place = o.place - 1 /\ o.place - 1 \in Int /\ ~(o.place - 1 < i)
          BY <2>1, <2>2, <3>3, <4>3
        <5>2. At(t, place) = At(s, (o.place - 1) + 1) /\ (o.place - 1) + 1 = o.place
          BY <5>1, <2>1, <2>4
        <5>3. QED
          BY <4>2, <5>2
      <4>4. CASE ~(i < o.place)
        <5>1. place = o.place /\ o.place \in Int /\ o.place < i
          BY <2>1, <2>2, <3>3, <4>4
        <5>2. QED
          BY <5>1, <4>2, <2>4
      <4>5. QED
        BY <4>3, <4>4
    <3>4. QED
      BY <3>1, <3>2, <3>3
  <2>7. head \in Pointer /\ tail \in Pointer /\ back \in Pointer
    <3>1. Len(t) \in Int /\ 1 \in Int /\ place \in Int
      BY <2>1, <2>4, <2>5
    <3>2. At(t, 1) \in Pointer /\ At(t, Len(t)) \in Pointer /\ At(t, place) \in Pointer
      BY <3>1, <2>4, Places
    <3>3. QED
      BY <3>2, <2>4, <2>6
  <2> HIDE DEF place
  <2>8. /\ m \in ListType /\ m.mHead = head /\ m.mTail = tail /\ m.mBackgroundPos = back
        /\ m.undefined = l.undefined
        /\ \A q \in Pid : q # p => m.next[q] = u.next[q] /\ m.last[q] = u.last[q]
    <3> DEFINE a == [u EXCEPT !.mHead = head]
               b == [a EXCEPT !.mTail = tail]
               c == [b EXCEPT !.mBackgroundPos = back]
               nn == [u.next EXCEPT ![p] = Null]
               ll == [u.last EXCEPT ![p] = Null]
               d == [c EXCEPT !.next = nn]
               e == [d EXCEPT !.last = ll]
    <3>1. u.next \in [Pid -> Pointer] /\ u.last \in [Pid -> Pointer]
      BY <2>4 DEF ListType
    <3>2. /\ nn \in [Pid -> Pointer] /\ ll \in [Pid -> Pointer]
          /\ \A q \in Pid : q # p => nn[q] = u.next[q] /\ ll[q] = u.last[q]
      BY <3>1 DEF Pointer
    <3> HIDE DEF nn, ll, head, tail, back
    <3>3. a \in ListType /\ a.mHead = head /\ a.mTail = l.mTail /\ a.next = u.next /\ a.last = u.last
          /\ a.undefined = l.undefined
      BY <2>4, <2>7 DEF ListType
    <3> HIDE DEF a
    <3>4. b \in ListType /\ b.mHead = head /\ b.mTail = tail /\ b.next = u.next /\ b.last = u.last
          /\ b.undefined = l.undefined
      BY <3>3, <2>7 DEF ListType
    <3> HIDE DEF b
    <3>5. c \in ListType /\ c.mHead = head /\ c.mTail = tail /\ c.next = u.next /\ c.last = u.last
          /\ c.undefined = l.undefined /\ c.mBackgroundPos = back
      BY <3>4, <2>7 DEF ListType
    <3> HIDE DEF c
    <3>6. d \in ListType /\ d.mHead = head /\ d.mTail = tail /\ d.next = nn /\ d.last = u.last
          /\ d.undefined = l.undefined /\ d.mBackgroundPos = back
      BY <3>5, <3>2 DEF ListType
    <3> HIDE DEF d
    <3>7. e \in ListType /\ e.mHead = head /\ e.mTail = tail /\ e.next = nn /\ e.last = ll
          /\ e.undefined = l.undefined /\ e.mBackgroundPos = back
      BY <3>6, <3>2 DEF ListType
    <3>8. m = e
      <4> DEFINE g == [d EXCEPT !.last[p] = Null]
      <4>1. m = [[[[[u EXCEPT !.mHead = IF u.mHead = p THEN l.next[p] ELSE u.mHead]
                   EXCEPT !.mTail = IF u.mTail = p THEN l.last[p] ELSE u.mTail]
                   EXCEPT !.mBackgroundPos = back] EXCEPT !.next[p] = Null] EXCEPT !.last[p] = Null]
        BY DEF back, m
      <4>2. m = [[c EXCEPT !.next[p] = Null] EXCEPT !.last[p] = Null]
        BY <4>1, <2>4 DEF c, b, a, head, tail
      <4>3. [c EXCEPT !.next[p] = Null] = d
        BY <3>5 DEF d, nn
      <4>4. [d EXCEPT !.last[p] = Null] = e
        BY <3>6 DEF ll
      <4>5. QED
        BY <4>2, <4>3, <4>4
    <3>9. QED
      BY <3>7, <3>8, <3>2
  <2>9. Chained(m, t)
    <3>1. ASSUME NEW k \in 1..Len(t) PROVE t[k] \in Pid /\ t[k] # p
      <4>1. k \in Int /\ At(t, k) = t[k]
        BY <2>4 DEF At
      <4>2. QED
        BY <4>1, <2>4
    <3>2. QED
      BY <3>1, <2>4, <2>8 DEF Chained
  <2>10. Represents(m, [order |-> t, place |-> place])
    BY <2>4, <2>5, <2>6, <2>8, <2>9, Assembled
  <2>11. RemovePid(l, p) = m
    BY <1>2 DEF RemovePid, m, u
  <2>12. Order!Removed(o, p) = [order |-> t, place |-> place]
    <3>1. Order!Listed(o, p)
      BY <1>2, Found
    <3>2. QED
      BY <3>1, InsertsAlike DEF Order!Removed, t, s, i, place
  <2>13. QED
    BY <2>8, <2>10, <2>11, <2>12
<1>3. QED
  BY <1>1, <1>2
\* PushForeground().
LEMMA SameOrder ==
    ASSUME NEW s \in Seq(Pid), NEW t \in Seq(Pid), Len(s) = Len(t),
           \A k \in Int : At(s, k) = At(t, k)
    PROVE  s = t
<1>1. \A k \in 1..Len(s) : s[k] = t[k]
  BY Places
<1>2. s = [k \in 1..Len(s) |-> s[k]] /\ t = [k \in 1..Len(t) |-> t[k]]
  OBVIOUS
<1>3. QED
  BY <1>1, <1>2

LEMMA PlacesInFront ==
    ASSUME NEW t \in Seq(Pid), NEW p \in Pid
    PROVE  /\ <<p>> \o t = InsertAt(t, 1, p)
           /\ <<p>> \o t \in Seq(Pid) /\ Len(<<p>> \o t) = Len(t) + 1
           /\ \A k \in Int : At(<<p>> \o t, k) = IF k < 1 THEN At(t, k)
                                                 ELSE IF k = 1 THEN p ELSE At(t, k - 1)
<1>1. 1 \in 1..(Len(t) + 1)
  OBVIOUS
<1> DEFINE ahead == <<p>> \o t
<1>2. ahead = InsertAt(t, 1, p)
  BY PutInFront
<1> HIDE DEF ahead
<1>3. /\ ahead \in Seq(Pid) /\ Len(ahead) = Len(t) + 1
      /\ \A k \in Int : At(ahead, k) = IF k < 1 THEN At(t, k)
                                       ELSE IF k = 1 THEN p ELSE At(t, k - 1)
  BY <1>1, <1>2, PlacesInserted
<1>4. QED
  BY <1>2, <1>3 DEF ahead

LEMMA PushedKeeps ==
    ASSUME NEW l, NEW o, Represents(l, o), NEW p \in Pid
    PROVE  /\ Represents(PushForeground(l, p), Order!Pushed(o, p))
           /\ PushForeground(l, p).undefined = l.undefined
<1> DEFINE s == o.order
           i == Order!Position(o, p)
           t == RemoveAt(s, i)
           ahead == <<p>> \o t
           u == Unlink(l, p)
           out == [Unlink(l, p) EXCEPT !.mTail = IF @ = p /\ l.last[p] # Null
                                                 THEN l.last[p] ELSE @]
           h == IF l.mHead = p THEN l ELSE AtHead(out, p)
           back == BackgroundAfterPush(l, p)
           m == [h EXCEPT !.mBackgroundPos = back]
           place == IF Order!AtHome(o, i) THEN 2
                    ELSE IF i >= o.place THEN o.place + 1 ELSE o.place
<1> HIDE DEF m, h, out
<1>1. CASE ~Get(l, p)
  BY <1>1, Found DEF PushForeground, Order!Pushed
<1>2. CASE Get(l, p)
  <2>1. /\ l \in ListType /\ o \in OrderType /\ Linked(l, s)
        /\ s \in Seq(Pid) /\ Len(s) \in Nat /\ o.place \in 1..(Len(s) + 1)
        /\ l.mHead = At(s, 1) /\ l.mTail = At(s, Len(s))
        /\ l.mBackgroundPos = At(s, o.place)
        /\ \A k \in Int : At(s, k) \in Pointer
        /\ \A k \in Int : At(s, k) # Null <=> k \in 1..Len(s)
        /\ ChainedAt(l, s)
    BY Represented DEF Represents
  <2>2. i \in 1..Len(s) /\ p = At(s, i) /\ i \in Int /\ \A k \in Int : At(s, k) = p <=> k = i
    BY <1>2, Found
  <2>3. /\ Order!AtHome(o, i) <=> /\ l.mBackgroundPos # Null
                                  /\ l.last[l.mBackgroundPos] = p
        /\ l.mBackgroundPos = p <=> o.place = i
    BY <2>2, HomeIs
  <2> HIDE DEF i, s
  <2>4. TakenOut(l, s, i, p, u, t)
    <3>1. l \in ListType /\ Linked(l, s)
      BY <2>1
    <3>2. u = Unlink(l, p) /\ t = RemoveAt(s, i)
      OBVIOUS
    <3> HIDE DEF u, t
    <3>3. QED
      BY <2>2, <3>1, <3>2, RemovedIs
  <2> HIDE DEF u, t
  <2>5. t \in Seq(Pid) /\ Len(t) = Len(s) - 1
        /\ \A k \in Int : At(t, k) = IF k < i THEN At(s, k) ELSE At(s, k + 1)
    BY <2>4 DEF TakenOut
  <2>6. /\ ahead = InsertAt(t, 1, p) /\ ahead \in Seq(Pid) /\ Len(ahead) = Len(t) + 1
        /\ \A k \in Int : At(ahead, k) = IF k < 1 THEN At(t, k)
                                         ELSE IF k = 1 THEN p ELSE At(t, k - 1)
    BY <2>5, PlacesInFront
  <2> HIDE DEF ahead
  <2>7. place \in 1..(Len(ahead) + 1)
    BY <2>1, <2>2, <2>5, <2>6 DEF Order!AtHome, s
  <2>8. back = At(ahead, place)
    <3>1. l.mHead = At(s, 1) /\ (l.mHead = p <=> i = 1) /\ l.next[p] = At(s, i + 1)
      <4>1. l.next[p] = At(s, i + 1)
        BY <2>4 DEF TakenOut
      <4>2. QED
        BY <4>1, <2>1, <2>2
    <3>6. /\ o.place \in Int /\ o.place + 1 \in Int /\ o.place >= 1
          /\ ~(o.place + 1 < 1) /\ o.place + 1 # 1 /\ (o.place + 1) - 1 = o.place
      BY <2>1
    <3>7. At(ahead, o.place + 1) = At(t, o.place)
      <4> DEFINE next == o.place + 1
      <4>1. next \in Int /\ ~(next < 1) /\ next # 1 /\ next - 1 = o.place
        BY <3>6
      <4> HIDE DEF next
      <4>2. At(ahead, next) = At(t, next - 1)
        BY <4>1, <2>6
      <4>3. QED
        BY <4>1, <4>2 DEF next
    <3>2. CASE Order!AtHome(o, i)
      <4>1. place = 2 /\ back = IF l.mHead = p THEN l.next[p] ELSE l.mHead
        BY <2>3, <3>2 DEF BackgroundAfterPush
      <4>2. At(ahead, 2) = At(t, 1) /\ At(t, 1) = IF 1 < i THEN At(s, 1) ELSE At(s, 2)
        BY <2>5, <2>6
      <4>3. QED
        BY <4>1, <4>2, <3>1, <2>2
    <3>3. CASE ~Order!AtHome(o, i) /\ i = o.place
      <4>1. place = o.place + 1 /\ back = l.next[p]
        BY <2>1, <2>2, <2>3, <3>3 DEF BackgroundAfterPush
      <4>2. At(t, o.place) = At(s, o.place + 1)
        BY <3>6, <2>2, <2>5, <3>3
      <4>3. QED
        BY <4>1, <4>2, <3>1, <3>3, <3>7
    <3>4. CASE ~Order!AtHome(o, i) /\ i # o.place
      <4>1. back = At(s, o.place)
        BY <2>1, <2>3, <3>4 DEF BackgroundAfterPush
      <4>2. CASE i > o.place
        <5>1. place = o.place + 1
          BY <2>1, <2>2, <3>4, <4>2
        <5>2. At(t, o.place) = At(s, o.place)
          BY <3>6, <2>2, <2>5, <4>2
        <5>3. QED
          BY <4>1, <5>1, <5>2, <3>7
      <4>3. CASE i < o.place
        <5>1. place = o.place /\ o.place > 1 /\ o.place - 1 \in Int /\ ~(o.place - 1 < i)
          BY <2>1, <2>2, <3>4, <4>3
        <5>2. At(ahead, o.place) = At(t, o.place - 1)
          BY <2>1, <2>6, <5>1
        <5>3. At(t, o.place - 1) = At(s, (o.place - 1) + 1) /\ (o.place - 1) + 1 = o.place
          BY <2>1, <2>5, <5>1
        <5>4. QED
          BY <4>1, <5>1, <5>2, <5>3
      <4>4. QED
        BY <4>2, <4>3, <3>4, <2>1, <2>2
    <3>5. QED
      BY <3>2, <3>3, <3>4
  <2>9. back \in Pointer
    <3>1. place \in Int
      BY <2>1, <2>5, <2>6, <2>7
    <3>2. QED
      BY <3>1, <2>6, <2>8, Places
  <2> HIDE DEF place, back
  <2>10. /\ h \in ListType /\ Chained(h, ahead) /\ h.undefined = l.undefined
         /\ h.mHead = At(ahead, 1) /\ h.mTail = At(ahead, Len(ahead))
    <3>1. CASE l.mHead = p
      <4>1. h = l /\ i = 1
        BY <3>1, <2>1, <2>2 DEF h
      <4>2. ahead = s
        <5>1. ASSUME NEW k \in Int PROVE At(ahead, k) = At(s, k)
          <6>1. CASE k < 1
            <7>1. At(ahead, k) = At(t, k) /\ At(t, k) = At(s, k)
              BY <6>1, <4>1, <2>5, <2>6
            <7>2. QED
              BY <7>1
          <6>2. CASE k = 1
            BY <6>2, <4>1, <2>2, <2>6
          <6>3. CASE k > 1
            <7>1. At(ahead, k) = At(t, k - 1)
              BY <6>3, <2>6
            <7>2. At(t, k - 1) = At(s, (k - 1) + 1) /\ (k - 1) + 1 = k
              BY <6>3, <4>1, <2>5
            <7>3. QED
              BY <7>1, <7>2
          <6>4. QED
            BY <6>1, <6>2, <6>3
        <5>2. Len(ahead) = Len(s)
          BY <2>1, <2>5, <2>6
        <5>3. QED
          BY <5>1, <5>2, <2>1, <2>6, SameOrder
      <4>3. QED
        BY <4>1, <4>2, <2>1 DEF Linked
    <3>2. CASE l.mHead # p
      <4>1. h = AtHead(out, p) /\ i # 1
        BY <3>2, <2>1, <2>2 DEF h
      <4>2. /\ u \in ListType /\ Chained(u, t)
            /\ u.mHead = l.mHead /\ u.mTail = l.mTail /\ u.undefined = l.undefined
            /\ \A k \in Int : At(t, k) # p
            /\ At(t, 1) = l.mHead
            /\ At(t, Len(t)) = IF l.mTail = p THEN l.last[p] ELSE l.mTail
            /\ l.last[p] = At(s, i - 1)
        BY <2>4, <3>2 DEF TakenOut
      <4>3. l.last[p] # Null
        BY <4>1, <4>2, <2>1, <2>2
      <4>4. At(t, Len(t)) \in Pointer
        BY <2>5, Places
      <4>5. /\ out \in ListType /\ out.next = u.next /\ out.last = u.last
            /\ out.mHead = l.mHead /\ out.undefined = l.undefined
            /\ out.mTail = At(t, Len(t))
        <5>1. out = [u EXCEPT !.mTail = At(t, Len(t))]
          BY <4>2, <4>3 DEF out, u
        <5>2. QED
          BY <5>1, <4>2, <4>4 DEF ListType
      <4>6. /\ h \in ListType /\ h.mHead = p /\ h.mTail = out.mTail /\ h.undefined = out.undefined
            /\ \A q \in Pid :
                  /\ h.next[q] = IF q = p THEN out.mHead ELSE out.next[q]
                  /\ h.last[q] = IF q = out.mHead THEN p ELSE IF q = p THEN Null ELSE out.last[q]
        BY <4>1, <4>5, HeadIs
      <4>7. \A q \in Pid :
               /\ h.next[q] = IF q = p THEN At(t, 1) ELSE IF q = At(t, 1 - 1) THEN p ELSE u.next[q]
               /\ h.last[q] = IF q = p THEN At(t, 1 - 1) ELSE IF q = At(t, 1) THEN p ELSE u.last[q]
        <5>1. At(t, 1 - 1) = Null /\ At(t, 1) # p /\ out.mHead = At(t, 1)
          BY <4>2, <4>5 DEF At
        <5>2. QED
          BY <5>1, <4>5, <4>6, NullAssumption
      <4>8. Chained(h, ahead)
        <5>1. 1 \in 1..(Len(t) + 1)
          BY <2>5
        <5>2. Chained(h, InsertAt(t, 1, p))
          BY <5>1, <4>2, <4>7, InsertChain
        <5>3. QED
          BY <5>2, <2>6
      <4>9. At(ahead, 1) = p /\ At(ahead, Len(ahead)) = At(t, Len(t))
        <5>1. Len(t) >= 1
          BY <4>1, <2>1, <2>2, <2>5
        <5>2. QED
          BY <5>1, <2>5, <2>6
      <4>10. QED
        BY <4>5, <4>6, <4>8, <4>9
    <3>3. QED
      BY <3>1, <3>2
  <2>11. /\ m \in ListType /\ m.mHead = h.mHead /\ m.mTail = h.mTail /\ m.mBackgroundPos = back
         /\ m.undefined = h.undefined /\ m.next = h.next /\ m.last = h.last
    BY <2>9, <2>10 DEF m, ListType
  <2>12. Chained(m, ahead)
    BY <2>10, <2>11 DEF Chained
  <2>13. Represents(m, [order |-> ahead, place |-> place])
    BY <2>7, <2>8, <2>10, <2>11, <2>12, Assembled
  <2>14. PushForeground(l, p) = m
    BY <1>2 DEF PushForeground, m, h, out, back
  <2>15. Order!Pushed(o, p) = [order |-> ahead, place |-> place]
    <3>1. Order!Listed(o, p)
      BY <1>2, Found
    <3>2. QED
      BY <3>1, InsertsAlike DEF Order!Pushed, ahead, t, s, i, place
  <2>16. QED
    BY <2>10, <2>11, <2>13, <2>14, <2>15
<1>3. QED
  BY <1>1, <1>2
\* IntoBackground(), once there is a process in front of the background: the
\* unguarded writes have a node to write to.
LEMMA HiddenKeeps ==
    ASSUME NEW l, NEW o, Represents(l, o), NEW p \in Pid, o.place >= 2
    PROVE  /\ Represents(IntoBackground(l, p), Order!Hidden(o, p))
           /\ IntoBackground(l, p).undefined = l.undefined
           /\ Order!Hidden(o, p).place >= 2
<1> DEFINE s == o.order
           i == Order!Position(o, p)
           t == RemoveAt(s, i)
           u == Unlink(l, p)
           out == [Unlink(l, p) EXCEPT !.mHead = IF @ = p THEN l.next[p] ELSE @]
           place == IF i < o.place THEN o.place - 1 ELSE o.place
           new == InsertAt(t, place, p)
           before == At(t, place - 1)
           b == AtBackground(out, p)
           m == ToBackground(l, p)
           stays == i \in {Len(s), o.place} \/ Order!AtHome(o, i)
<1> HIDE DEF m, b, out
<1>1. CASE ~Get(l, p)
  BY <1>1, Found DEF IntoBackground, Order!Hidden
<1>2. CASE Get(l, p)
  <2>1. /\ l \in ListType /\ o \in OrderType /\ Linked(l, s)
        /\ s \in Seq(Pid) /\ Len(s) \in Nat /\ o.place \in 1..(Len(s) + 1)
        /\ l.mHead = At(s, 1) /\ l.mTail = At(s, Len(s))
        /\ l.mBackgroundPos = At(s, o.place)
        /\ \A k \in Int : At(s, k) \in Pointer
        /\ \A k \in Int : At(s, k) # Null <=> k \in 1..Len(s)
        /\ ChainedAt(l, s)
    BY Represented DEF Represents
  <2>2. i \in 1..Len(s) /\ p = At(s, i) /\ i \in Int /\ \A k \in Int : At(s, k) = p <=> k = i
    BY <1>2, Found
  <2>3. Order!AtHome(o, i) <=> l.mBackgroundPos # Null /\ l.last[l.mBackgroundPos] = p
    BY <2>2, HomeIs
  <2>4. Order!AtHome(o, i) <=> i + 1 = o.place /\ o.place <= Len(s)
    BY DEF Order!AtHome
  <2>5. Order!Listed(o, p)
    BY <1>2, Found
  <2> HIDE DEF i, s
  <2>6. stays <=> p \in {l.mTail, l.mBackgroundPos} \/ (l.mBackgroundPos # Null /\ l.last[l.mBackgroundPos] = p)
    <3>1. l.mTail = p <=> i = Len(s)
      BY <2>1, <2>2
    <3>2. l.mBackgroundPos = p <=> i = o.place
      <4>1. o.place \in Int
        BY <2>1
      <4>2. QED
        BY <4>1, <2>1, <2>2
    <3>3. QED
      BY <3>1, <3>2, <2>3
  <2>7. CASE stays
    <3>1. IntoBackground(l, p) = l
      BY <2>6, <2>7 DEF IntoBackground
    <3>2. Order!Hidden(o, p) = o
      BY <2>7, <2>5 DEF Order!Hidden, s, i
    <3>3. QED
      BY <3>1, <3>2
  <2>8. CASE ~stays
    <3>1. TakenOut(l, s, i, p, u, t)
      <4>1. l \in ListType /\ Linked(l, s)
        BY <2>1
      <4>2. u = Unlink(l, p) /\ t = RemoveAt(s, i)
        OBVIOUS
      <4> HIDE DEF u, t
      <4>3. QED
        BY <2>2, <4>1, <4>2, RemovedIs
    <3> HIDE DEF u, t
    <3>2. /\ u \in ListType /\ Chained(u, t)
          /\ u.mHead = l.mHead /\ u.mTail = l.mTail
          /\ u.mBackgroundPos = l.mBackgroundPos /\ u.undefined = l.undefined
          /\ \A k \in Int : At(t, k) # p
          /\ At(t, 1) = IF l.mHead = p THEN l.next[p] ELSE l.mHead
          /\ At(t, Len(t)) = IF l.mTail = p THEN l.last[p] ELSE l.mTail
          /\ l.next[p] = At(s, i + 1)
      BY <3>1 DEF TakenOut
    <3>3. t \in Seq(Pid) /\ Len(t) = Len(s) - 1
          /\ \A k \in Int : At(t, k) = IF k < i THEN At(s, k) ELSE At(s, k + 1)
      BY <3>1 DEF TakenOut
    <3>4. i # Len(s) /\ i # o.place /\ ~(i + 1 = o.place /\ o.place <= Len(s))
      <4>1. i \notin {Len(s), o.place} /\ ~Order!AtHome(o, i)
        BY <2>8
      <4>2. QED
        BY <4>1, <2>4
    <3>5. place \in 2..(Len(t) + 1) /\ place \in Int /\ place - 1 \in Int
      <4>1. /\ Len(s) \in Nat /\ o.place \in 2..(Len(s) + 1) /\ i \in 1..Len(s)
            /\ Len(t) = Len(s) - 1
        <5>1. Len(s) \in Nat /\ o.place \in 1..(Len(s) + 1)
          BY <2>1
        <5>2. o.place \in 2..(Len(s) + 1)
          BY <5>1
        <5>3. QED
          BY <5>1, <5>2, <3>3, <2>2
      <4>2. CASE i < o.place
        BY <4>1, <4>2, <3>4
      <4>3. CASE ~(i < o.place)
        BY <4>1, <4>3, <3>4
      <4>4. QED
        BY <4>2, <4>3
    <3>6. l.mBackgroundPos = At(t, place)
      <4>1. CASE i < o.place
        <5>1. place = o.place - 1 /\ ~(place < i) /\ place + 1 = o.place
          BY <4>1, <2>1, <2>2
        <5>2. At(t, place) = At(s, place + 1)
          BY <5>1, <3>3, <3>5
        <5>3. QED
          BY <5>1, <5>2, <2>1
      <4>2. CASE ~(i < o.place)
        <5>1. place = o.place /\ place < i
          BY <4>2, <3>4, <2>1, <2>2
        <5>2. At(t, place) = At(s, place)
          BY <5>1, <3>3, <3>5
        <5>3. QED
          BY <5>1, <5>2, <2>1
      <4>3. QED
        BY <4>1, <4>2
    <3>7. l.mTail # p /\ At(t, Len(t)) = l.mTail
      BY <3>2, <2>6, <2>8
    <3>8. At(t, 1) \in Pointer
      BY <3>3, Places
    <3>9. /\ out \in ListType /\ out.next = u.next /\ out.last = u.last
          /\ out.mHead = At(t, 1) /\ out.mTail = At(t, Len(t))
          /\ out.mBackgroundPos = At(t, place) /\ out.undefined = l.undefined
      <4>1. out = [u EXCEPT !.mHead = At(t, 1)]
        BY <3>2 DEF out, u
      <4>2. QED
        BY <4>1, <3>2, <3>6, <3>7, <3>8 DEF ListType
    <3>10. Chained(out, t)
      BY <3>2, <3>9 DEF Chained
    <3> HIDE DEF place, stays
    <3>11. place \in 1..(Len(t) + 1) /\ Len(t) \in Nat
      BY <3>3, <3>5
    <3>12. before = IF out.mBackgroundPos = Null THEN out.mTail ELSE out.last[out.mBackgroundPos]
      BY <3>9, <3>10, <3>11, BeforeBackground
    <3>13. before \in Pointer /\ before # Null
      <4>1. place - 1 \in 1..Len(t)
        BY <3>3, <3>5
      <4>2. QED
        BY <4>1, <3>3, <3>5, Places
    <3> HIDE DEF before
    <3>14. /\ b \in ListType /\ b.mHead = out.mHead
           /\ b.mTail = IF out.mBackgroundPos = Null THEN p ELSE out.mTail
           /\ b.mBackgroundPos = p /\ b.undefined = out.undefined
           /\ \A q \in Pid :
                 /\ b.next[q] = IF q = p THEN out.mBackgroundPos
                                ELSE IF q = before THEN p ELSE out.next[q]
                 /\ b.last[q] = IF q = p THEN before
                                ELSE IF q = out.mBackgroundPos THEN p ELSE out.last[q]
      BY <3>9, <3>12, <3>13, BackgroundIs DEF b
    <3>15. \A q \in Pid :
              /\ b.next[q] = IF q = p THEN At(t, place) ELSE IF q = At(t, place - 1) THEN p ELSE out.next[q]
              /\ b.last[q] = IF q = p THEN At(t, place - 1) ELSE IF q = At(t, place) THEN p ELSE out.last[q]
      BY <3>9, <3>14 DEF before
    <3>16. Chained(b, new)
      BY <3>2, <3>10, <3>11, <3>15, InsertChain
    <3>17. /\ new \in Seq(Pid) /\ Len(new) = Len(t) + 1
           /\ \A k \in Int : At(new, k) = IF k < place THEN At(t, k)
                                          ELSE IF k = place THEN p ELSE At(t, k - 1)
      BY <3>3, <3>11, PlacesInserted
    <3> HIDE DEF new
    <3>18. b.mHead = At(new, 1) /\ b.mTail = At(new, Len(new)) /\ b.mBackgroundPos = At(new, place)
      <4>1. At(new, 1) = At(t, 1) /\ At(new, place) = p
        BY <3>5, <3>17
      <4>2. out.mBackgroundPos = Null <=> place = Len(t) + 1
        <5>1. \A k \in Int : At(t, k) # Null <=> k \in 1..Len(t)
          BY <3>3, Places
        <5>2. At(t, place) # Null <=> place \in 1..Len(t)
          BY <5>1, <3>5
        <5>3. QED
          BY <5>2, <3>9, <3>11
      <4>3. At(new, Len(new)) = IF place = Len(t) + 1 THEN p ELSE At(t, Len(t))
        <5> DEFINE n == Len(t) + 1
        <5>1. n \in Int /\ n - 1 = Len(t) /\ ~(n < place)
          BY <3>11
        <5> HIDE DEF n
        <5>2. At(new, n) = IF n = place THEN p ELSE At(t, n - 1)
          BY <5>1, <3>17
        <5>3. QED
          BY <5>1, <5>2, <3>17 DEF n
      <4>4. QED
        BY <4>1, <4>2, <4>3, <3>9, <3>14
    <3>19. m = [b EXCEPT !.undefined = b.undefined \/ before = Null]
      BY <3>12 DEF ToBackground, m, b, out
    <3>20. /\ m \in ListType /\ m.mHead = b.mHead /\ m.mTail = b.mTail
           /\ m.mBackgroundPos = b.mBackgroundPos /\ m.next = b.next /\ m.last = b.last
           /\ m.undefined = b.undefined
      <4>1. b.undefined \in BOOLEAN
        BY <3>14 DEF ListType
      <4>2. (b.undefined \/ before = Null) = b.undefined
        BY <4>1, <3>13
      <4>3. m = [b EXCEPT !.undefined = b.undefined]
        BY <4>2, <3>19
      <4>4. QED
        BY <4>1, <4>3, <3>14 DEF ListType
    <3>21. Chained(m, new)
      BY <3>16, <3>20 DEF Chained
    <3>22. Represents(m, [order |-> new, place |-> place])
      <4>1. place \in 1..(Len(new) + 1)
        BY <3>11, <3>17
      <4>2. QED
        BY <4>1, <3>18, <3>20, <3>21, Assembled
    <3>23. IntoBackground(l, p) = m
      BY <1>2, <2>6, <2>8 DEF IntoBackground, m
    <3>24. Order!Hidden(o, p) = [order |-> new, place |-> place]
      BY <2>5, <2>8, InsertsAlike DEF Order!Hidden, new, t, s, i, place, stays
    <3>25. QED
      BY <3>5, <3>9, <3>14, <3>20, <3>22, <3>23, <3>24
  <2>9. QED
    BY <2>7, <2>8
<1>3. QED
  BY <1>1, <1>2
-----------------------------------------------------------------------------
(* What the list says by itself: a list represents one order only.          *)
LEMMA OrderIs == ASSUME NEW l, NEW o, Represents(l, o) PROVE OrderOf(l) = o
<1> DEFINE s == o.order
           places == {i \in DOMAIN s : s[i] = l.mBackgroundPos}
<1>1. /\ l \in ListType /\ o \in OrderType /\ Chained(l, s) /\ Linked(l, s)
      /\ s \in Seq(Pid) /\ Len(s) \in Nat /\ o.place \in 1..(Len(s) + 1)
      /\ l.mBackgroundPos = At(s, o.place)
  BY Represented DEF Represents
<1>2. Walk(l) = s
  BY <1>1, WalkIsOrder
<1>3. OrderOf(l) = [order |-> s, place |-> IF places = {} THEN Len(s) + 1 ELSE Min(places)]
  BY <1>2 DEF OrderOf
<1>4. o = [order |-> s, place |-> o.place]
  BY <1>1 DEF OrderType
<1> HIDE DEF s
<1>5. CASE o.place = Len(s) + 1
  <2>1. l.mBackgroundPos = Null
    BY <1>1, <1>5 DEF At
  <2>2. places = {}
    BY <2>1, <1>1, NullAssumption
  <2>3. QED
    BY <2>2, <1>3, <1>4, <1>5
<1>6. CASE o.place # Len(s) + 1
  <2>1. o.place \in 1..Len(s)
    BY <1>1, <1>6
  <2>2. l.mBackgroundPos = s[o.place]
    BY <2>1, <1>1 DEF At
  <2>3. DOMAIN s = 1..Len(s) /\ \A j, k \in 1..Len(s) : s[j] = s[k] => j = k
    BY <1>1 DEF Chained
  <2>4. places = {o.place}
    BY <2>1, <2>2, <2>3
  <2>5. Min(places) = o.place
    BY <2>1, <2>4 DEF Min
  <2>6. QED
    BY <2>4, <2>5, <1>3, <1>4
<1>7. QED
  BY <1>5, <1>6

\* Who is listed, as a set.
Members(o) == ToSet(o.order)

LEMMA MembersByPlace ==
    ASSUME NEW s \in Seq(Pid)
    PROVE  ToSet(s) = {q \in Pid : \E k \in Int : At(s, k) = q}
<1>1. ASSUME NEW q \in ToSet(s) PROVE q \in Pid /\ \E k \in Int : At(s, k) = q
  <2>1. PICK k \in 1..Len(s) : s[k] = q
    BY DEF ToSet
  <2>2. k \in Int /\ At(s, k) = q /\ q \in Pid
    BY <2>1 DEF At
  <2>3. QED
    BY <2>2
<1>2. ASSUME NEW q \in Pid, NEW k \in Int, At(s, k) = q PROVE q \in ToSet(s)
  <2>1. k \in 1..Len(s) /\ s[k] = q
    BY <1>2, NullAssumption DEF At
  <2>2. QED
    BY <2>1 DEF ToSet
<1>3. QED
  BY <1>1, <1>2

LEMMA MembersRemoved ==
    ASSUME NEW s \in Seq(Pid), NEW i \in 1..Len(s), NEW p \in Pid,
           \A k \in Int : At(s, k) = p <=> k = i
    PROVE  ToSet(RemoveAt(s, i)) = ToSet(s) \ {p}
<1> DEFINE t == RemoveAt(s, i)
<1>1. /\ t \in Seq(Pid)
      /\ \A k \in Int : At(t, k) = IF k < i THEN At(s, k) ELSE At(s, k + 1)
  BY PlacesRemoved
<1> HIDE DEF t
<1>2. ToSet(t) = {q \in Pid : \E k \in Int : At(t, k) = q}
  BY <1>1, MembersByPlace
<1>3. ToSet(s) = {q \in Pid : \E k \in Int : At(s, k) = q}
  BY MembersByPlace
<1>4. ASSUME NEW q \in Pid, NEW k \in Int, At(t, k) = q
      PROVE  q # p /\ \E j \in Int : At(s, j) = q
  <2> DEFINE j == IF k < i THEN k ELSE k + 1
  <2>1. j \in Int /\ j # i /\ At(s, j) = q
    <3>1. At(t, k) = At(s, j)
      BY <1>1
    <3>2. QED
      BY <3>1, <1>4
  <2>2. QED
    BY <2>1
<1>5. ASSUME NEW q \in Pid, q # p, NEW k \in Int, At(s, k) = q
      PROVE  \E j \in Int : At(t, j) = q
  <2>1. k # i
    BY <1>5
  <2>2. CASE k < i
    BY <2>2, <1>1, <1>5
  <2>3. CASE k > i
    <3>1. k - 1 \in Int /\ ~(k - 1 < i) /\ (k - 1) + 1 = k
      BY <2>3
    <3>2. At(t, k - 1) = q
      BY <3>1, <1>1, <1>5
    <3>3. QED
      BY <3>1, <3>2
  <2>4. QED
    BY <2>1, <2>2, <2>3
<1>6. QED
  BY <1>2, <1>3, <1>4, <1>5 DEF t

LEMMA MembersInserted ==
    ASSUME NEW s \in Seq(Pid), NEW i \in 1..(Len(s) + 1), NEW p \in Pid
    PROVE  ToSet(InsertAt(s, i, p)) = ToSet(s) \union {p}
<1> DEFINE t == InsertAt(s, i, p)
<1>1. /\ t \in Seq(Pid)
      /\ \A k \in Int : At(t, k) = IF k < i THEN At(s, k) ELSE IF k = i THEN p ELSE At(s, k - 1)
  BY PlacesInserted
<1> HIDE DEF t
<1>2. ToSet(t) = {q \in Pid : \E k \in Int : At(t, k) = q}
  BY <1>1, MembersByPlace
<1>3. ToSet(s) = {q \in Pid : \E k \in Int : At(s, k) = q}
  BY MembersByPlace
<1>4. ASSUME NEW q \in Pid, NEW k \in Int, At(t, k) = q, q # p
      PROVE  \E j \in Int : At(s, j) = q
  <2> DEFINE j == IF k < i THEN k ELSE k - 1
  <2>1. j \in Int /\ At(s, j) = q
    BY <1>1, <1>4
  <2>2. QED
    BY <2>1
<1>5. ASSUME NEW q \in Pid, NEW k \in Int, At(s, k) = q
      PROVE  \E j \in Int : At(t, j) = q
  <2>1. CASE k < i
    BY <2>1, <1>1, <1>5
  <2>2. CASE ~(k < i)
    <3>1. k + 1 \in Int /\ ~(k + 1 < i) /\ k + 1 # i /\ (k + 1) - 1 = k
      BY <2>2
    <3>2. At(t, k + 1) = q
      BY <3>1, <1>1, <1>5
    <3>3. QED
      BY <3>1, <3>2
  <2>3. QED
    BY <2>1, <2>2
<1>6. p \in ToSet(t)
  <2>1. i \in Int /\ At(t, i) = p
    BY <1>1
  <2>2. QED
    BY <2>1, <1>2
<1>7. QED
  BY <1>2, <1>3, <1>4, <1>5, <1>6 DEF t

\* Whom each operation of PriorityOrder adds to the order and takes from it,
\* and what it leaves of the place.
LEMMA MembersFollow ==
    ASSUME NEW l, NEW o, Represents(l, o), NEW p \in Pid
    PROVE  /\ Members(Order!Added(o, p, TRUE)) = Members(o) \union {p}
           /\ Members(Order!Added(o, p, FALSE)) = Members(o) \union {p}
           /\ Members(Order!Removed(o, p)) = Members(o) \ {p}
           /\ Members(Order!Pushed(o, p)) = Members(o)
           /\ Members(Order!Hidden(o, p)) = Members(o)
           /\ p \notin Members(o) => Order!Added(o, p, TRUE).place >= 2
           /\ Order!Added(o, p, FALSE).place = o.place
           /\ o.place >= 2 => Order!Removed(o, p).place >= 2 \/ Members(o) \subseteq {p}
           /\ p \in Members(o) => Order!Pushed(o, p).place >= 2
<1> DEFINE s == o.order
           i == Order!Position(o, p)
           t == RemoveAt(s, i)
           listed == Order!Listed(o, p)
<1>1. /\ o \in OrderType /\ s \in Seq(Pid) /\ Len(s) \in Nat /\ o.place \in 1..(Len(s) + 1)
  BY Represented
<1>2. p \in Members(o) <=> listed
  BY DEF Members, ToSet, Order!Listed
<1>3. listed => i \in 1..Len(s) /\ \A k \in Int : At(s, k) = p <=> k = i
  BY Found
<1>4. \A then : Members(then) = ToSet(then.order)
  BY DEF Members
<1> HIDE DEF i, s, listed
<1>5. CASE ~listed
  <2>1. /\ Order!Removed(o, p) = o /\ Order!Pushed(o, p) = o /\ Order!Hidden(o, p) = o
        /\ Order!Added(o, p, TRUE) = [order |-> <<p>> \o s, place |-> o.place + 1]
        /\ Order!Added(o, p, FALSE) = [o EXCEPT !.order = InsertAt(s, o.place, p)]
    BY <1>5, InsertsAlike DEF Order!Removed, Order!Pushed, Order!Hidden, Order!Added, listed, s
  <2>2. ToSet(<<p>> \o s) = ToSet(s) \union {p}
    <3>1. 1 \in 1..(Len(s) + 1)
      BY <1>1
    <3>2. ToSet(InsertAt(s, 1, p)) = ToSet(s) \union {p}
      BY <3>1, <1>1, MembersInserted
    <3>3. QED
      BY <3>2, <1>1, PutInFront
  <2>3. ToSet(InsertAt(s, o.place, p)) = ToSet(s) \union {p}
    BY <1>1, MembersInserted
  <2>4. Order!Added(o, p, FALSE).order = InsertAt(s, o.place, p) /\ Order!Added(o, p, FALSE).place = o.place
    BY <2>1, <1>1 DEF OrderType
  <2>5. Members(o) = ToSet(s) /\ p \notin ToSet(s)
    BY <1>2, <1>5 DEF Members, s
  <2>6. Members(Order!Added(o, p, TRUE)) = ToSet(s) \union {p} /\ Order!Added(o, p, TRUE).place >= 2
    <3> DEFINE ahead == <<p>> \o s
               new == [order |-> ahead, place |-> o.place + 1]
    <3>1. new.order = ahead /\ new.place = o.place + 1
      OBVIOUS
    <3>2. Order!Added(o, p, TRUE) = new
      BY <2>1
    <3>3. ToSet(ahead) = ToSet(s) \union {p}
      BY <2>2
    <3> HIDE DEF ahead, new
    <3>4. Members(new) = ToSet(ahead)
      BY <3>1 DEF Members
    <3>5. new.place >= 2
      BY <3>1, <1>1
    <3>6. QED
      BY <3>2, <3>3, <3>4, <3>5
  <2>7. Members(Order!Added(o, p, FALSE)) = ToSet(s) \union {p}
    BY <2>3, <2>4 DEF Members
  <2>8. Members(o) \ {p} = Members(o)
    BY <2>5
  <2>9. QED
    BY <1>1, <1>2, <1>5, <2>1, <2>4, <2>5, <2>6, <2>7, <2>8
<1>6. CASE listed
  <2> DEFINE place == IF i < o.place THEN o.place - 1 ELSE o.place
             pushed == IF Order!AtHome(o, i) THEN 2
                       ELSE IF i >= o.place THEN o.place + 1 ELSE o.place
             removed == IF i < o.place /\ ~Order!AtHome(o, i) THEN o.place - 1 ELSE o.place
             stays == i \in {Len(s), o.place} \/ Order!AtHome(o, i)
             hidden == [order |-> InsertAt(t, place, p), place |-> place]
  <2>1. i \in 1..Len(s) /\ \A k \in Int : At(s, k) = p <=> k = i
    BY <1>3, <1>6
  <2>2. /\ Order!Added(o, p, TRUE) = o /\ Order!Added(o, p, FALSE) = o
        /\ Order!Removed(o, p) = [order |-> t, place |-> removed]
        /\ Order!Pushed(o, p) = [order |-> <<p>> \o t, place |-> pushed]
        /\ Order!Hidden(o, p) = IF stays THEN o ELSE hidden
    BY <1>6, InsertsAlike DEF Order!Removed, Order!Pushed, Order!Hidden, Order!Added, listed, s, i
  <2>3. t \in Seq(Pid) /\ Len(t) = Len(s) - 1 /\ ToSet(t) = ToSet(s) \ {p}
    <3>1. t \in Seq(Pid) /\ Len(t) = Len(s) - 1
      BY <1>1, <2>1, PlacesRemoved
    <3>2. ToSet(t) = ToSet(s) \ {p}
      BY <1>1, <2>1, MembersRemoved
    <3>3. QED
      BY <3>1, <3>2
  <2>4. Members(o) = ToSet(s) /\ p \in ToSet(s)
    BY <1>2, <1>6 DEF Members, s
  <2> HIDE DEF t
  <2>5. ToSet(<<p>> \o t) = ToSet(s)
    <3>1. 1 \in 1..(Len(t) + 1)
      BY <2>3
    <3>2. ToSet(InsertAt(t, 1, p)) = ToSet(t) \union {p}
      BY <3>1, <2>3, MembersInserted
    <3>3. QED
      BY <3>2, <2>3, <2>4, PutInFront
  <2>6. ~stays => ToSet(InsertAt(t, place, p)) = ToSet(s)
    <3>1. ~stays => place \in 1..(Len(t) + 1)
      <4>1. i \in Int /\ o.place \in Int /\ Len(s) \in Int /\ Len(t) = Len(s) - 1
        BY <1>1, <2>1, <2>3
      <4>2. QED
        BY <4>1, <1>1, <2>1
    <3>2. ~stays => ToSet(InsertAt(t, place, p)) = ToSet(t) \union {p}
      BY <3>1, <2>3, MembersInserted
    <3>3. QED
      BY <3>2, <2>3, <2>4
  <2>7. Order!AtHome(o, i) <=> i + 1 = o.place /\ o.place <= Len(s)
    BY DEF Order!AtHome, s
  <2>8. pushed >= 2
    BY <2>1, <2>7, <1>1
  <2>9. o.place >= 2 => removed >= 2 \/ Members(o) \subseteq {p}
    <3>1. CASE o.place = 2 /\ Len(s) = 1 /\ i = 1
      <4>1. ToSet(s) \subseteq {s[1]} /\ At(s, i) = s[1]
        BY <3>1, <1>1 DEF ToSet, At
      <4>2. At(s, i) = p
        BY <2>1
      <4>3. QED
        BY <4>1, <4>2, <2>4
    <3>2. CASE ~(o.place = 2 /\ Len(s) = 1 /\ i = 1)
      <4>1. i \in 1..Len(s) /\ Len(s) \in Nat /\ o.place \in 1..(Len(s) + 1)
        BY <1>1, <2>1
      <4>2. CASE i < o.place /\ ~Order!AtHome(o, i)
        <5>1. removed = o.place - 1
          BY <4>2
        <5>2. ~(i + 1 = o.place /\ o.place <= Len(s))
          BY <4>2, <2>7
        <5>3. \A a, b, c \in Int :
                 /\ a >= 1 /\ a <= b /\ a < c /\ c <= b + 1
                 /\ ~(a + 1 = c /\ c <= b) /\ ~(c = 2 /\ b = 1 /\ a = 1)
                 => c - 1 >= 2
          OBVIOUS
        <5>4. /\ i \in Int /\ Len(s) \in Int /\ o.place \in Int
              /\ i >= 1 /\ i <= Len(s) /\ i < o.place /\ o.place <= Len(s) + 1
          BY <4>1, <4>2
        <5>5. o.place - 1 >= 2
          BY <3>2, <5>2, <5>3, <5>4
        <5>6. QED
          BY <5>1, <5>5
      <4>3. CASE ~(i < o.place /\ ~Order!AtHome(o, i))
        <5>1. removed = o.place
          BY <4>3
        <5>2. QED
          BY <5>1
      <4>4. QED
        BY <4>2, <4>3
    <3>3. QED
      BY <3>1, <3>2
  <2> HIDE DEF place, pushed, removed, stays
  <2>10. Members(Order!Removed(o, p)) = Members(o) \ {p} /\ Order!Removed(o, p).place = removed
    BY <2>2, <2>3, <2>4 DEF Members
  <2>11. Members(Order!Pushed(o, p)) = Members(o) /\ Order!Pushed(o, p).place = pushed
    BY <2>2, <2>4, <2>5 DEF Members
  <2>12. Members(Order!Hidden(o, p)) = Members(o)
    <3>1. hidden.order = InsertAt(t, place, p)
      OBVIOUS
    <3> HIDE DEF hidden
    <3>2. QED
      BY <3>1, <2>2, <2>4, <2>6 DEF Members
  <2>13. Members(o) \union {p} = Members(o)
    BY <2>4
  <2>14. QED
    BY <2>2, <2>4, <2>8, <2>9, <2>10, <2>11, <2>12, <2>13
<1>7. QED
  BY <1>5, <1>6
-----------------------------------------------------------------------------
(* Several processes that leave the front one after the other.              *)
HiddenLists(l, gone, f) ==
    f = [i \in 0..Len(gone) |-> IF i = 0 THEN l ELSE IntoBackground(f[i - 1], gone[i])]

HiddenOrders(o, gone, f) ==
    f = [i \in 0..Len(gone) |-> IF i = 0 THEN o ELSE Order!Hidden(f[i - 1], gone[i])]

LEMMA HiddenListsExist ==
    ASSUME NEW l, NEW o, Represents(l, o), NEW gone \in Seq(Pid), gone = << >> \/ o.place >= 2
    PROVE  \E f : HiddenLists(l, gone, f)
<1> DEFINE n == Len(gone)
           S == {x \in ListType : \E y : Represents(x, y) /\ (n = 0 \/ y.place >= 2)}
           step == [i \in 1..n |-> [x \in S |-> IntoBackground(x, gone[i])]]
<1>1. n \in Nat /\ (n = 0 \/ o.place >= 2) /\ l \in S
  BY DEF Represents
<1>2. ASSUME NEW i \in 1..n, NEW x \in S PROVE IntoBackground(x, gone[i]) \in S
  <2>1. gone[i] \in Pid /\ n # 0
    BY <1>1
  <2>2. PICK y : Represents(x, y) /\ y.place >= 2
    BY <2>1
  <2>3. /\ Represents(IntoBackground(x, gone[i]), Order!Hidden(y, gone[i]))
        /\ Order!Hidden(y, gone[i]).place >= 2
    BY <2>1, <2>2, HiddenKeeps
  <2>4. QED
    BY <2>3 DEF Represents
<1>3. step \in [1..n -> [S -> S]]
  <2> HIDE DEF S
  <2>1. QED
    BY <1>2
<1> HIDE DEF S
<1>4. PICK g \in [0..n -> S] : Iterated(l, step, n, g)
  <2> HIDE DEF step, n
  <2>1. QED
    BY <1>1, <1>3, IteratedExists
<1>5. \A i \in 0..n : g[i] \in S
  OBVIOUS
<1>6. g = [i \in 0..n |-> IF i = 0 THEN l ELSE step[i][g[i - 1]]]
  BY <1>4 DEF Iterated
<1> DEFINE f == [i \in 0..n |-> IF i = 0 THEN l ELSE IntoBackground(g[i - 1], gone[i])]
<1>7. ASSUME NEW i \in 0..n PROVE g[i] = f[i]
  <2>1. CASE i = 0
    BY <2>1, <1>6
  <2>2. CASE i # 0
    <3>1. i \in 1..n /\ i - 1 \in 0..n
      BY <1>1, <2>2
    <3>2. g[i] = step[i][g[i - 1]] /\ g[i - 1] \in S
      BY <3>1, <2>2, <1>5, <1>6
    <3>3. step[i][g[i - 1]] = IntoBackground(g[i - 1], gone[i])
      BY <3>1, <3>2
    <3>4. QED
      BY <3>2, <3>3, <2>2
  <2>3. QED
    BY <2>1, <2>2
<1>8. g = f
  <2>1. g = [i \in 0..n |-> g[i]] /\ f = [i \in 0..n |-> f[i]]
    OBVIOUS
  <2> HIDE DEF f
  <2>2. QED
    BY <2>1, <1>7
<1>9. HiddenLists(l, gone, g)
  BY <1>8 DEF HiddenLists
<1>10. QED
  BY <1>9

LEMMA HiddenOrdersExist ==
    ASSUME NEW l, NEW o, Represents(l, o), NEW gone \in Seq(Pid), gone = << >> \/ o.place >= 2
    PROVE  \E f : HiddenOrders(o, gone, f)
<1> DEFINE n == Len(gone)
           S == {y \in OrderType : \E x : Represents(x, y) /\ (n = 0 \/ y.place >= 2)}
           step == [i \in 1..n |-> [y \in S |-> Order!Hidden(y, gone[i])]]
<1>1. n \in Nat /\ (n = 0 \/ o.place >= 2) /\ o \in S
  BY DEF Represents
<1>2. ASSUME NEW i \in 1..n, NEW y \in S PROVE Order!Hidden(y, gone[i]) \in S
  <2>1. gone[i] \in Pid /\ n # 0
    BY <1>1
  <2>2. PICK x : Represents(x, y) /\ y.place >= 2
    BY <2>1
  <2>3. /\ Represents(IntoBackground(x, gone[i]), Order!Hidden(y, gone[i]))
        /\ Order!Hidden(y, gone[i]).place >= 2
    BY <2>1, <2>2, HiddenKeeps
  <2>4. QED
    BY <2>3 DEF Represents
<1>3. step \in [1..n -> [S -> S]]
  <2> HIDE DEF S
  <2>1. QED
    BY <1>2
<1> HIDE DEF S
<1>4. PICK g \in [0..n -> S] : Iterated(o, step, n, g)
  <2> HIDE DEF step, n
  <2>1. QED
    BY <1>1, <1>3, IteratedExists
<1>5. \A i \in 0..n : g[i] \in S
  OBVIOUS
<1>6. g = [i \in 0..n |-> IF i = 0 THEN o ELSE step[i][g[i - 1]]]
  BY <1>4 DEF Iterated
<1> DEFINE f == [i \in 0..n |-> IF i = 0 THEN o ELSE Order!Hidden(g[i - 1], gone[i])]
<1>7. ASSUME NEW i \in 0..n PROVE g[i] = f[i]
  <2>1. CASE i = 0
    BY <2>1, <1>6
  <2>2. CASE i # 0
    <3>1. i \in 1..n /\ i - 1 \in 0..n
      BY <1>1, <2>2
    <3>2. g[i] = step[i][g[i - 1]] /\ g[i - 1] \in S
      BY <3>1, <2>2, <1>5, <1>6
    <3>3. step[i][g[i - 1]] = Order!Hidden(g[i - 1], gone[i])
      BY <3>1, <3>2
    <3>4. QED
      BY <3>2, <3>3, <2>2
  <2>3. QED
    BY <2>1, <2>2
<1>8. g = f
  <2>1. g = [i \in 0..n |-> g[i]] /\ f = [i \in 0..n |-> f[i]]
    OBVIOUS
  <2> HIDE DEF f
  <2>2. QED
    BY <2>1, <1>7
<1>9. HiddenOrders(o, gone, g)
  BY <1>8 DEF HiddenOrders
<1>10. QED
  BY <1>9

LEMMA HiddenAllKeeps ==
    ASSUME NEW l, NEW o, Represents(l, o), NEW gone \in Seq(Pid), gone = << >> \/ o.place >= 2
    PROVE  /\ Represents(IntoBackgroundAll(l, gone), Order!HiddenAll(o, gone))
           /\ IntoBackgroundAll(l, gone).undefined = l.undefined
           /\ Members(Order!HiddenAll(o, gone)) = Members(o)
           /\ o.place >= 2 => Order!HiddenAll(o, gone).place >= 2
<1> DEFINE n == Len(gone)
           f == CHOOSE x : HiddenLists(l, gone, x)
           h == CHOOSE x : HiddenOrders(o, gone, x)
           good == {k \in 0..n : /\ Represents(f[k], h[k])
                                 /\ f[k].undefined = l.undefined
                                 /\ Members(h[k]) = Members(o)
                                 /\ o.place >= 2 => h[k].place >= 2}
<1>1. IntoBackgroundAll(l, gone) = f[n] /\ Order!HiddenAll(o, gone) = h[n]
  BY DEF IntoBackgroundAll, Order!HiddenAll, HiddenLists, HiddenOrders
<1>2. HiddenLists(l, gone, f) /\ HiddenOrders(o, gone, h)
  BY HiddenListsExist, HiddenOrdersExist
<1> HIDE DEF f, h
<1>3. n \in Nat /\ (n = 0 \/ o.place >= 2) /\ \A k \in 1..n : gone[k] \in Pid
  OBVIOUS
<1>4. /\ \A i \in 0..n : f[i] = IF i = 0 THEN l ELSE IntoBackground(f[i - 1], gone[i])
      /\ \A i \in 0..n : h[i] = IF i = 0 THEN o ELSE Order!Hidden(h[i - 1], gone[i])
  BY <1>2 DEF HiddenLists, HiddenOrders
<1> HIDE DEF n
<1>5. 0 \in good
  BY <1>3, <1>4
<1>6. ASSUME NEW k \in 0..(n - 1), k \in good PROVE k + 1 \in good
  <2> DEFINE j == k + 1
  <2>1. j \in 1..n /\ j \in 0..n /\ j # 0 /\ j - 1 = k /\ n # 0
    BY <1>3
  <2> HIDE DEF j
  <2>2. /\ Represents(f[k], h[k]) /\ h[k].place >= 2 /\ f[k].undefined = l.undefined
        /\ Members(h[k]) = Members(o) /\ gone[j] \in Pid
    BY <2>1, <1>3, <1>6
  <2>3. f[j] = IntoBackground(f[k], gone[j]) /\ h[j] = Order!Hidden(h[k], gone[j])
    BY <2>1, <1>4
  <2>4. /\ Represents(f[j], h[j]) /\ f[j].undefined = f[k].undefined /\ h[j].place >= 2
    BY <2>2, <2>3, HiddenKeeps
  <2>5. Members(h[j]) = Members(h[k])
    <3>1. \A x, y : Represents(x, y) => \A q \in Pid : Members(Order!Hidden(y, q)) = Members(y)
      BY MembersFollow
    <3>2. Members(Order!Hidden(h[k], gone[j])) = Members(h[k])
      BY <3>1, <2>2
    <3>3. QED
      BY <3>2, <2>3
  <2>6. QED
    BY <2>1, <2>2, <2>4, <2>5 DEF j
<1>7. 0..n \subseteq good
  <2> HIDE DEF good
  <2>1. QED
    BY <1>3, <1>5, <1>6, UpTo
<1>8. n \in good
  BY <1>3, <1>7
<1>9. QED
  BY <1>1, <1>8

LEMMA GoneIsSequence == ASSUME NEW gone \in Gone PROVE gone \in Seq(Pid)
<1>1. PICK S \in SUBSET Pid : gone \in SetToSeqs(S)
  BY DEF Gone
<1>2. Cardinality(S) \in Nat
  BY <1>1, PidAssumption, FS_Subset, FS_CardinalityType
<1>3. gone \in [1..Cardinality(S) -> S]
  BY <1>1 DEF SetToSeqs
<1>4. gone \in Seq(S)
  BY <1>2, <1>3
<1>5. QED
  BY <1>4

LEMMA NobodyLeaves ==
    ASSUME NEW gone \in Gone, ToSet(gone) \subseteq shown
    PROVE  gone = << >> \/ shown # {}
<1>1. gone \in Seq(Pid)
  BY GoneIsSequence
<1>2. ASSUME gone # << >> PROVE gone[1] \in ToSet(gone)
  BY <1>1, <1>2 DEF ToSet
<1>3. QED
  BY <1>2

\* The whole switch.
LEMMA SwitchedKeeps ==
    ASSUME NEW l, NEW o, Represents(l, o), NEW p \in Pid, NEW gone \in Gone,
           gone = << >> \/ o.place >= 2, p \in Members(o)
    PROVE  LET then == Order!Pushed(Order!HiddenAll(o, gone), p)
           IN /\ Represents(Switched(l, p, gone), then)
              /\ Switched(l, p, gone).undefined = l.undefined
              /\ Members(then) = Members(o)
              /\ then.place >= 2
<1> DEFINE m == IntoBackgroundAll(l, gone)
           h == Order!HiddenAll(o, gone)
<1>1. gone \in Seq(Pid)
  BY GoneIsSequence
<1>2. Represents(m, h) /\ m.undefined = l.undefined /\ Members(h) = Members(o)
  BY <1>1, HiddenAllKeeps
<1>3. Switched(l, p, gone) = PushForeground(m, p)
  BY DEF Switched
<1> HIDE DEF m, h
<1>4. Represents(PushForeground(m, p), Order!Pushed(h, p)) /\ PushForeground(m, p).undefined = m.undefined
  BY <1>2, PushedKeeps
<1>5. Members(Order!Pushed(h, p)) = Members(h) /\ Order!Pushed(h, p).place >= 2
  BY <1>2, MembersFollow
<1>6. QED
  BY <1>2, <1>3, <1>4, <1>5 DEF h
-----------------------------------------------------------------------------
(* The invariant: the list represents an order of the processes that have   *)
(* not ended, and while any of them is shown the background begins behind   *)
(* the first place.                                                         *)
Inv ==
    /\ TypeOK
    /\ Represents(list, OrderOf(list))
    /\ Members(OrderOf(list)) = {p \in Pid : app[p] # "NONE"}
    /\ shown # {} => OrderOf(list).place >= 2
    /\ ~list.undefined
    /\ RunningIsMonitored

LEMMA InitInv == Init => Inv
<1> SUFFICES ASSUME Init PROVE Inv
  OBVIOUS
<1> DEFINE o == [order |-> << >>, place |-> 1]
<1>1. TypeOK
  BY DEF Init, TypeOK, Pointer, NoInfo, LOW, PERSISTENT
<1>2. Represents(list, o)
  <2>1. list \in ListType /\ o \in OrderType
    BY DEF Init, ListType, OrderType, Pointer
  <2>2. list.mHead = Null /\ list.mTail = Null /\ list.mBackgroundPos = Null
    BY DEF Init
  <2>3. o.order = << >> /\ o.place = 1 /\ Len(<< >>) = 0 /\ << >> \in Seq(Pid)
    OBVIOUS
  <2> HIDE DEF o
  <2>4. Chained(list, << >>)
    BY <2>3 DEF Chained
  <2>5. At(<< >>, 1) = Null /\ At(<< >>, 0) = Null
    BY <2>3 DEF At
  <2>6. QED
    BY <2>1, <2>2, <2>3, <2>4, <2>5 DEF Represents, Linked
<1>3. OrderOf(list) = o
  BY <1>2, OrderIs
<1>4. Members(o) = {p \in Pid : app[p] # "NONE"}
  BY DEF Members, ToSet, Init
<1>5. shown = {} /\ ~list.undefined /\ RunningIsMonitored
  BY DEF Init, RunningIsMonitored
<1>6. QED
  BY <1>1, <1>2, <1>3, <1>4, <1>5 DEF Inv

\* A step that leads to a list that represents then preserves the invariant
\* when it adds and takes the processes that start and end.
LEMMA InvFollows ==
    ASSUME TypeOK', NEW then, Represents(list', then),
           Members(then) = {p \in Pid : app'[p] # "NONE"},
           shown' # {} => then.place >= 2,
           list'.undefined = FALSE, RunningIsMonitored'
    PROVE  Inv' /\ OrderOf(list') = then
<1>1. OrderOf(list') = then
  BY OrderIs
<1>2. QED
  BY <1>1 DEF Inv

LEMMA AttachTypes ==
    ASSUME Inv, NEW p \in Pid, NEW level \in LOW..PERSISTENT, Attach(p, level), app[p] = "NONE"
    PROVE  /\ app' = [app EXCEPT ![p] = "RUNNING"]
           /\ app' \in [Pid -> {"NONE", "RUNNING", "STOPPING"}]
           /\ {q \in Pid : app'[q] # "NONE"} = {q \in Pid : app[q] # "NONE"} \union {p}
           /\ info' \in [Pid -> [priorityLevel : LOW..PERSISTENT, oomScore : Int]]
           /\ DOMAIN mPidOomScore' \subseteq {q \in Pid : app'[q] # "NONE"}
           /\ \A q \in DOMAIN mPidOomScore' : mPidOomScore'[q] \in Int
           /\ RunningIsMonitored'
<1>1. /\ app \in [Pid -> {"NONE", "RUNNING", "STOPPING"}]
      /\ info \in [Pid -> [priorityLevel : LOW..PERSISTENT, oomScore : Int]]
      /\ DOMAIN mPidOomScore \subseteq {q \in Pid : app[q] # "NONE"}
      /\ \A q \in DOMAIN mPidOomScore : mPidOomScore[q] \in Int
      /\ RunningIsMonitored
  BY DEF Inv, TypeOK
<1>2. /\ app' = [app EXCEPT ![p] = "RUNNING"]
      /\ info' = [info EXCEPT ![p] = [priorityLevel |-> level, oomScore |-> OS_MIDDLE_LEVEL_MIN_ADJ]]
      /\ mPidOomScore' = [q \in DOMAIN mPidOomScore \union {p} |->
                            IF q = p THEN OS_MIDDLE_LEVEL_MIN_ADJ ELSE mPidOomScore[q]]
  BY DEF Attach, SetPidOomScore
<1>3. OS_MIDDLE_LEVEL_MIN_ADJ \in Int
  BY DEF OS_MIDDLE_LEVEL_MIN_ADJ
<1>4. /\ app' \in [Pid -> {"NONE", "RUNNING", "STOPPING"}]
      /\ {q \in Pid : app'[q] # "NONE"} = {q \in Pid : app[q] # "NONE"} \union {p}
  BY <1>1, <1>2
<1>5. info' \in [Pid -> [priorityLevel : LOW..PERSISTENT, oomScore : Int]]
  BY <1>1, <1>2, <1>3
<1>6. /\ DOMAIN mPidOomScore' \subseteq {q \in Pid : app'[q] # "NONE"}
      /\ \A q \in DOMAIN mPidOomScore' : mPidOomScore'[q] \in Int
  BY <1>1, <1>2, <1>3, <1>4
<1>7. RunningIsMonitored'
  <2>1. ASSUME NEW q \in Pid, app'[q] = "RUNNING"
        PROVE  q \in DOMAIN mPidOomScore' /\ mPidOomScore'[q] = info'[q].oomScore
    <3>1. CASE q = p
      BY <3>1, <1>1, <1>2
    <3>2. CASE q # p
      BY <3>2, <2>1, <1>1, <1>2 DEF RunningIsMonitored
    <3>3. QED
      BY <3>1, <3>2
  <2>2. QED
    BY <2>1 DEF RunningIsMonitored
<1>8. QED
  BY <1>2, <1>4, <1>5, <1>6, <1>7

\* What each action makes of the order: Follows() of PriorityOrder, or nothing.
LEMMA StartServiceInv ==
    ASSUME Inv, NEW p \in DOMAIN ServiceLevel, StartService(p)
    PROVE  Inv' /\ OrderOf(list') = Order!Added(OrderOf(list), p, FALSE)
<1> DEFINE o == OrderOf(list)
           then == Order!Added(o, p, FALSE)
<1>1. p \in Pid /\ ServiceLevel[p] \in LOW..PERSISTENT
  BY LevelAssumption
<1>2. /\ app[p] = "NONE" /\ Attach(p, ServiceLevel[p])
      /\ list' = Add(list, p, FALSE) /\ shown' = shown /\ front' = front
  BY DEF StartService
<1>3. /\ TypeOK /\ Represents(list, o) /\ Members(o) = {q \in Pid : app[q] # "NONE"}
      /\ shown # {} => o.place >= 2
      /\ list.undefined = FALSE /\ list \in ListType
  BY DEF Inv, Represents, ListType
<1> HIDE DEF o
<1>4. Represents(list', then) /\ list'.undefined = FALSE
  BY <1>1, <1>2, <1>3, AddedBehind
<1>5. Members(then) = Members(o) \union {p} /\ then.place = o.place
  BY <1>1, <1>3, MembersFollow
<1>6. list' \in ListType
  BY <1>4 DEF Represents
<1> HIDE DEF then
<1>7. /\ app' \in [Pid -> {"NONE", "RUNNING", "STOPPING"}]
      /\ {q \in Pid : app'[q] # "NONE"} = {q \in Pid : app[q] # "NONE"} \union {p}
      /\ info' \in [Pid -> [priorityLevel : LOW..PERSISTENT, oomScore : Int]]
      /\ DOMAIN mPidOomScore' \subseteq {q \in Pid : app'[q] # "NONE"}
      /\ \A q \in DOMAIN mPidOomScore' : mPidOomScore'[q] \in Int
      /\ RunningIsMonitored'
  BY <1>1, <1>2, AttachTypes
<1>8. TypeOK'
  BY <1>2, <1>3, <1>6, <1>7 DEF TypeOK, ListType
<1>9. QED
  BY <1>2, <1>3, <1>4, <1>5, <1>7, <1>8, InvFollows DEF then, o

LEMMA StartServiceInInv ==
    ASSUME Inv, NEW p \in DOMAIN ServiceLevel, StartServiceIn(p)
    PROVE  Inv' /\ list' = list
<1>1. p \in Pid /\ ServiceLevel[p] \in LOW..PERSISTENT
  BY LevelAssumption
<1>2. /\ info' = [info EXCEPT ![p].priorityLevel = ServiceLevel[p]]
      /\ UNCHANGED <<list, mPidOomScore, app, shown, front>>
  BY DEF StartServiceIn
<1>3. TypeOK /\ info \in [Pid -> [priorityLevel : LOW..PERSISTENT, oomScore : Int]]
  BY DEF Inv, TypeOK
<1>4. /\ info' \in [Pid -> [priorityLevel : LOW..PERSISTENT, oomScore : Int]]
      /\ \A q \in Pid : info'[q].oomScore = info[q].oomScore
  BY <1>1, <1>2, <1>3
<1>5. TypeOK'
  BY <1>2, <1>3, <1>4 DEF TypeOK
<1>6. RunningIsMonitored'
  BY <1>2, <1>4 DEF Inv, RunningIsMonitored
<1>7. QED
  BY <1>2, <1>5, <1>6 DEF Inv

LEMMA ShowNewInv ==
    ASSUME Inv, NEW p \in Pid, ShowNew(p)
    PROVE  /\ Inv'
           /\ \E gone \in Gone :
                 /\ ToSet(gone) \subseteq shown /\ shown' = (shown \ ToSet(gone)) \union {p}
                 /\ front' = p
                 /\ OrderOf(list') =
                       Order!Pushed(Order!HiddenAll(Order!Added(OrderOf(list), p, TRUE), gone), p)
<1> DEFINE o == OrderOf(list)
           added == Order!Added(o, p, TRUE)
<1>1. Level[p] \in LOW..PERSISTENT
  BY LevelAssumption
<1>2. PICK gone \in Gone :
         /\ ToSet(gone) \subseteq shown
         /\ list' = Switched(Add(list, p, TRUE), p, gone)
         /\ shown' = (shown \ ToSet(gone)) \union {p}
         /\ front' = p
  BY DEF ShowNew, ComesToFront
<1>3. app[p] = "NONE" /\ Attach(p, Level[p])
  BY DEF ShowNew
<1>4. /\ TypeOK /\ Represents(list, o) /\ Members(o) = {q \in Pid : app[q] # "NONE"}
      /\ list.undefined = FALSE /\ list \in ListType
  BY DEF Inv, Represents, ListType
<1> DEFINE then == Order!Pushed(Order!HiddenAll(added, gone), p)
<1> HIDE DEF o
<1>5. /\ Represents(Add(list, p, TRUE), added)
      /\ Add(list, p, TRUE).undefined = FALSE
  BY <1>4, AddedInFront
<1>6. Members(added) = Members(o) \union {p} /\ added.place >= 2
  BY <1>3, <1>4, MembersFollow
<1> HIDE DEF added
<1>7. /\ Represents(list', then) /\ list'.undefined = FALSE
      /\ Members(then) = Members(added) /\ then.place >= 2
  BY <1>2, <1>5, <1>6, SwitchedKeeps
<1>8. list' \in ListType
  BY <1>7 DEF Represents
<1> HIDE DEF then
<1>9. /\ app' \in [Pid -> {"NONE", "RUNNING", "STOPPING"}]
      /\ {q \in Pid : app'[q] # "NONE"} = {q \in Pid : app[q] # "NONE"} \union {p}
      /\ info' \in [Pid -> [priorityLevel : LOW..PERSISTENT, oomScore : Int]]
      /\ DOMAIN mPidOomScore' \subseteq {q \in Pid : app'[q] # "NONE"}
      /\ \A q \in DOMAIN mPidOomScore' : mPidOomScore'[q] \in Int
      /\ RunningIsMonitored'
  BY <1>1, <1>3, AttachTypes
<1>10. TypeOK'
  BY <1>2, <1>4, <1>8, <1>9 DEF TypeOK, ListType
<1>11. Inv' /\ OrderOf(list') = then
  BY <1>4, <1>6, <1>7, <1>9, <1>10, InvFollows
<1>12. QED
  BY <1>2, <1>11 DEF then, added, o
LEMMA ShowInv ==
    ASSUME Inv, NEW p \in Pid, Show(p)
    PROVE  /\ Inv'
           /\ \E gone \in Gone :
                 /\ ToSet(gone) \subseteq shown /\ shown' = (shown \ ToSet(gone)) \union {p}
                 /\ front' = p
                 /\ OrderOf(list') = Order!Pushed(Order!HiddenAll(OrderOf(list), gone), p)
<1> DEFINE o == OrderOf(list)
<1>1. PICK gone \in Gone :
         /\ ToSet(gone) \subseteq shown
         /\ list' = Switched(list, p, gone)
         /\ shown' = (shown \ ToSet(gone)) \union {p}
         /\ front' = p
  BY DEF Show, ComesToFront
<1>2. app[p] # "NONE" /\ info' = info /\ mPidOomScore' = mPidOomScore /\ app' = app
  BY DEF Show
<1>3. /\ TypeOK /\ Represents(list, o) /\ Members(o) = {q \in Pid : app[q] # "NONE"}
      /\ list.undefined = FALSE /\ list \in ListType /\ RunningIsMonitored
      /\ shown # {} => o.place >= 2
  BY DEF Inv, Represents, ListType
<1> DEFINE then == Order!Pushed(Order!HiddenAll(o, gone), p)
<1> HIDE DEF o
<1>4. gone = << >> \/ o.place >= 2
  BY <1>1, <1>3, NobodyLeaves
<1>5. /\ Represents(list', then) /\ list'.undefined = FALSE
      /\ Members(then) = Members(o) /\ then.place >= 2
  BY <1>1, <1>2, <1>3, <1>4, SwitchedKeeps
<1>6. list' \in ListType
  BY <1>5 DEF Represents
<1> HIDE DEF then
<1>7. TypeOK'
  BY <1>1, <1>2, <1>3, <1>6 DEF TypeOK, ListType
<1>8. RunningIsMonitored'
  BY <1>2, <1>3 DEF RunningIsMonitored
<1>9. Inv' /\ OrderOf(list') = then
  BY <1>2, <1>3, <1>5, <1>7, <1>8, InvFollows
<1>10. QED
  BY <1>1, <1>9 DEF then, o

LEMMA LeaveInv ==
    ASSUME Inv, NEW p \in Pid, Leave(p)
    PROVE  Inv' /\ OrderOf(list') = Order!Hidden(OrderOf(list), p)
<1> DEFINE o == OrderOf(list)
           then == Order!Hidden(o, p)
<1>1. /\ p \in shown /\ list' = IntoBackground(list, p) /\ shown' = shown \ {p}
      /\ info' = info /\ mPidOomScore' = mPidOomScore /\ app' = app
      /\ front' = IF front = p THEN Null ELSE front
  BY DEF Leave, LosesFront
<1>2. /\ TypeOK /\ Represents(list, o) /\ Members(o) = {q \in Pid : app[q] # "NONE"}
      /\ list.undefined = FALSE /\ list \in ListType /\ RunningIsMonitored
      /\ o.place >= 2
  BY <1>1 DEF Inv, Represents, ListType
<1> HIDE DEF o
<1>3. Represents(list', then) /\ list'.undefined = FALSE /\ then.place >= 2
  BY <1>1, <1>2, HiddenKeeps
<1>4. Members(then) = Members(o)
  BY <1>2, MembersFollow
<1>5. list' \in ListType
  BY <1>3 DEF Represents
<1> HIDE DEF then
<1>6. TypeOK'
  BY <1>1, <1>2, <1>5 DEF TypeOK, ListType
<1>7. RunningIsMonitored'
  BY <1>1, <1>2 DEF RunningIsMonitored
<1>8. Inv' /\ OrderOf(list') = then
  BY <1>1, <1>2, <1>3, <1>4, <1>6, <1>7, InvFollows
<1>9. QED
  BY <1>8 DEF then, o

LEMMA ExitInv ==
    ASSUME Inv, NEW p \in Pid, Exit(p)
    PROVE  Inv' /\ OrderOf(list') = Order!Removed(OrderOf(list), p)
<1> DEFINE o == OrderOf(list)
           then == Order!Removed(o, p)
<1>1. /\ app' = [app EXCEPT ![p] = "NONE"] /\ shown' = shown \ {p}
      /\ list' = RemovePid(list, p) /\ info' = [info EXCEPT ![p] = NoInfo]
      /\ mPidOomScore' = [q \in DOMAIN mPidOomScore \ {p} |-> mPidOomScore[q]]
      /\ front' = IF front = p THEN Null ELSE front
  BY DEF Exit, LosesFront, CancelMonitorPid, Restrict
<1>2. /\ TypeOK /\ Represents(list, o) /\ Members(o) = {q \in Pid : app[q] # "NONE"}
      /\ list.undefined = FALSE /\ list \in ListType /\ RunningIsMonitored
      /\ shown # {} => o.place >= 2
  BY DEF Inv, Represents, ListType
<1>3. /\ app \in [Pid -> {"NONE", "RUNNING", "STOPPING"}]
      /\ info \in [Pid -> [priorityLevel : LOW..PERSISTENT, oomScore : Int]]
      /\ shown \subseteq {q \in Pid : app[q] # "NONE"}
      /\ DOMAIN mPidOomScore \subseteq {q \in Pid : app[q] # "NONE"}
      /\ \A q \in DOMAIN mPidOomScore : mPidOomScore[q] \in Int
  BY <1>2 DEF TypeOK
<1> HIDE DEF o
<1>4. Represents(list', then) /\ list'.undefined = FALSE
  BY <1>1, <1>2, RemovedKeeps
<1>5. Members(then) = Members(o) \ {p} /\ (o.place >= 2 => then.place >= 2 \/ Members(o) \subseteq {p})
  BY <1>2, MembersFollow
<1>6. list' \in ListType
  BY <1>4 DEF Represents
<1> HIDE DEF then
<1>7. /\ app' \in [Pid -> {"NONE", "RUNNING", "STOPPING"}]
      /\ {q \in Pid : app'[q] # "NONE"} = {q \in Pid : app[q] # "NONE"} \ {p}
  BY <1>1, <1>3
<1>8. shown' # {} => then.place >= 2
  BY <1>1, <1>2, <1>3, <1>5
<1>9. info' \in [Pid -> [priorityLevel : LOW..PERSISTENT, oomScore : Int]]
  <2>1. NoInfo \in [priorityLevel : LOW..PERSISTENT, oomScore : Int]
    BY DEF NoInfo, LOW, PERSISTENT
  <2>2. QED
    BY <2>1, <1>1, <1>3
<1>10. TypeOK'
  <2>1. /\ DOMAIN mPidOomScore' \subseteq {q \in Pid : app'[q] # "NONE"}
        /\ \A q \in DOMAIN mPidOomScore' : mPidOomScore'[q] \in Int
    BY <1>1, <1>3, <1>7
  <2>2. shown' \subseteq {q \in Pid : app'[q] # "NONE"} /\ front' \in shown' \union {Null}
    BY <1>1, <1>2, <1>3, <1>7 DEF TypeOK
  <2>3. QED
    BY <2>1, <2>2, <1>6, <1>7, <1>9 DEF TypeOK, ListType
<1>11. RunningIsMonitored'
  BY <1>1, <1>2, <1>3 DEF RunningIsMonitored
<1>12. Inv' /\ OrderOf(list') = then
  BY <1>2, <1>4, <1>5, <1>7, <1>8, <1>10, <1>11, InvFollows
<1>13. QED
  BY <1>12 DEF then, o

\* The scores are numbers.
LEMMA ScoresAreNumbers == Inv => \A p \in Pid : Analysed[p] \in Int
<1> SUFFICES ASSUME Inv, NEW p \in Pid PROVE Analysed[p] \in Int
  OBVIOUS
<1> DEFINE s == Walk(list)
           i == CHOOSE k \in DOMAIN s : s[k] = p
<1>1. Linked(list, OrderOf(list).order)
  BY DEF Inv, Represents
<1>2. s \in Seq(Pid)
  BY <1>1, WalkIsOrder DEF Linked, Chained
<1>3. info \in [Pid -> [priorityLevel : LOW..PERSISTENT, oomScore : Int]]
  BY DEF Inv, TypeOK
<1>4. Analysed[p] = IF p \in ToSet(s) THEN CalculateScore(s, i) ELSE info[p].oomScore
  BY DEF Analysed
<1>5. CASE p \in ToSet(s)
  <2>1. i \in DOMAIN s
    BY <1>5 DEF ToSet
  <2> HIDE DEF i, s
  <2>2. i \in 1..Len(s) /\ s[i] \in Pid
    BY <1>2, <2>1
  <2>3. LevelCount(s, i) \in Nat
    <3>1. \A j \in Int : IsFiniteSet(2..j)
      BY FS_Interval
    <3>2. IsFiniteSet(2..(i - 1))
      BY <2>2, <3>1
    <3>3. QED
      BY <3>2, FS_Subset, FS_CardinalityType DEF LevelCount
  <2>4. info[s[i]].oomScore \in Int /\ info[s[i]].priorityLevel \in LOW..PERSISTENT
    BY <2>2, <1>3
  <2>5. info[s[i]].priorityLevel # PERSISTENT => BaseScore(info[s[i]].priorityLevel) \in Int
    <3>1. info[s[i]].priorityLevel \in {LOW, MIDDLE, HIGH, PERSISTENT}
      BY <2>4 DEF LOW, MIDDLE, HIGH, PERSISTENT
    <3>2. QED
      BY <3>1 DEF BaseScore, LOW, MIDDLE, HIGH, PERSISTENT, OS_HIGH_LEVEL_MIN_ADJ,
                  OS_MIDDLE_LEVEL_MIN_ADJ, OS_LOW_LEVEL_MIN_ADJ
  <2>6. CalculateScore(s, i) \in Int
    BY <2>3, <2>4, <2>5 DEF CalculateScore, Smaller, OS_FOREGROUND_APP_ADJ,
       OS_SYSTEM_HOME_APP_ADJ, OS_PERSISTENT_PROC_ADJ
  <2>7. QED
    BY <2>6, <1>4, <1>5
<1>6. CASE p \notin ToSet(s)
  BY <1>3, <1>4, <1>6
<1>7. QED
  BY <1>5, <1>6

LEMMA ExecuteLMKInv ==
    ASSUME Inv, NEW memory \in Memory, ExecuteLMK(memory)
    PROVE  Inv' /\ list' = list
<1> DEFINE reached == Reached(memory, OomScoreThreshold)
           threshold == OomScoreThreshold[Min(reached)][3]
           oom == Analysed
           score == Scored(oom)
           killed == {p \in DOMAIN score : score[p] >= threshold}
<1>1. /\ app' = [p \in Pid |-> IF p \in killed /\ app[p] = "RUNNING" THEN "STOPPING" ELSE app[p]]
      /\ info' = [p \in Pid |-> [info[p] EXCEPT !.oomScore = oom[p]]]
      /\ mPidOomScore' = Restrict(score, DOMAIN score \ killed)
      /\ UNCHANGED <<list, shown, front>>
  BY DEF ExecuteLMK
<1>2. \A p \in Pid : oom[p] \in Int
  BY ScoresAreNumbers
<1>3. /\ app \in [Pid -> {"NONE", "RUNNING", "STOPPING"}]
      /\ info \in [Pid -> [priorityLevel : LOW..PERSISTENT, oomScore : Int]]
      /\ shown \subseteq {q \in Pid : app[q] # "NONE"}
      /\ DOMAIN mPidOomScore \subseteq {q \in Pid : app[q] # "NONE"}
      /\ \A q \in DOMAIN mPidOomScore : mPidOomScore[q] \in Int
      /\ RunningIsMonitored
  BY DEF Inv, TypeOK
<1>4. \A p \in Pid : oom[p] # info[p].oomScore => app[p] # "NONE"
  <2>1. Linked(list, OrderOf(list).order) /\ ToSet(OrderOf(list).order) = {q \in Pid : app[q] # "NONE"}
    BY DEF Inv, Represents, Members
  <2>2. ToSet(Walk(list)) = {q \in Pid : app[q] # "NONE"}
    BY <2>1, WalkIsOrder
  <2>3. QED
    BY <2>2 DEF Analysed
<1> HIDE DEF oom
<1>5. /\ score = [p \in DOMAIN mPidOomScore \union {q \in Pid : oom[q] # info[q].oomScore} |->
                    IF oom[p] # info[p].oomScore THEN oom[p] ELSE mPidOomScore[p]]
      /\ DOMAIN score = DOMAIN mPidOomScore \union {q \in Pid : oom[q] # info[q].oomScore}
  BY DEF Scored
<1> HIDE DEF score, threshold, reached
<1>6. /\ DOMAIN score \subseteq {q \in Pid : app[q] # "NONE"}
      /\ \A p \in DOMAIN score : score[p] \in Int
  BY <1>2, <1>3, <1>4, <1>5
<1>7. mPidOomScore' = [p \in DOMAIN score \ killed |-> score[p]]
  BY <1>1 DEF Restrict
<1>8. /\ app' \in [Pid -> {"NONE", "RUNNING", "STOPPING"}]
      /\ {q \in Pid : app'[q] # "NONE"} = {q \in Pid : app[q] # "NONE"}
  BY <1>1, <1>3
<1>9. /\ info' \in [Pid -> [priorityLevel : LOW..PERSISTENT, oomScore : Int]]
      /\ \A p \in Pid : info'[p].oomScore = oom[p]
  BY <1>1, <1>2, <1>3
<1>10. TypeOK'
  <2>1. /\ DOMAIN mPidOomScore' \subseteq {q \in Pid : app'[q] # "NONE"}
        /\ \A q \in DOMAIN mPidOomScore' : mPidOomScore'[q] \in Int
    BY <1>6, <1>7, <1>8
  <2>2. shown' \subseteq {q \in Pid : app'[q] # "NONE"}
    BY <1>1, <1>3, <1>8
  <2>3. list' = list /\ front' = front /\ shown' = shown /\ TypeOK
    BY <1>1 DEF Inv
  <2>4. QED
    BY <2>1, <2>2, <2>3, <1>8, <1>9 DEF TypeOK
<1>11. RunningIsMonitored'
  <2>1. ASSUME NEW p \in Pid, app'[p] = "RUNNING"
        PROVE  p \in DOMAIN mPidOomScore' /\ mPidOomScore'[p] = info'[p].oomScore
    <3>1. app[p] = "RUNNING" /\ p \notin killed
      BY <2>1, <1>1
    <3>2. p \in DOMAIN mPidOomScore /\ mPidOomScore[p] = info[p].oomScore
      BY <3>1, <1>3 DEF RunningIsMonitored
    <3>3. p \in DOMAIN score /\ score[p] = oom[p]
      BY <3>2, <1>5
    <3>4. QED
      BY <3>1, <3>3, <1>7, <1>9
  <2>2. QED
    BY <2>1 DEF RunningIsMonitored
<1>12. QED
  BY <1>1, <1>8, <1>10, <1>11 DEF Inv
-----------------------------------------------------------------------------
(* The theorems.                                                            *)
LEMMA StutterInv == Inv /\ UNCHANGED vars => Inv' /\ list' = list
BY DEF vars, Inv, TypeOK, RunningIsMonitored

LEMMA NextInv == Inv /\ [Next]_vars => Inv'
<1> SUFFICES ASSUME Inv, [Next]_vars PROVE Inv'
  OBVIOUS
<1>1. CASE \E p \in DOMAIN ServiceLevel : StartService(p) \/ StartServiceIn(p)
  BY <1>1, StartServiceInv, StartServiceInInv
<1>2. CASE \E p \in Pid : ShowNew(p) \/ Show(p) \/ Leave(p) \/ Exit(p)
  BY <1>2, ShowNewInv, ShowInv, LeaveInv, ExitInv
<1>3. CASE \E memory \in Memory : ExecuteLMK(memory)
  BY <1>3, ExecuteLMKInv
<1>4. CASE UNCHANGED vars
  BY <1>4, StutterInv
<1>5. QED
  BY <1>1, <1>2, <1>3, <1>4 DEF Next

\* Every reachable list represents the order of the processes that have not
\* ended, with the background behind the first of them while one is shown.
THEOREM SpecInv == Spec => []Inv
BY InitInv, NextInv, PTL DEF Spec

\* The doubly linked list is sound, whatever the number of processes, what
\* their levels are and what tasks they share: add(), removePid(),
\* pushForeground() and intoBackground() keep both directions, the ends and
\* mBackgroundPos.
THEOREM SpecListIsSound == Spec => []ListIsSound
<1>1. Inv => ListIsSound
  <2> SUFFICES ASSUME Inv PROVE ListIsSound
    OBVIOUS
  <2> DEFINE o == OrderOf(list)
             s == o.order
             n == Len(s)
  <2>1. /\ TypeOK /\ Represents(list, o)
        /\ ToSet(s) = {p \in Pid : app[p] # "NONE"}
    BY DEF Inv, Members
  <2> HIDE DEF o
  <2>2. /\ Chained(list, s) /\ Linked(list, s)
        /\ s \in Seq(Pid) /\ n \in Nat /\ o.place \in 1..(n + 1)
        /\ list.mTail = At(s, n) /\ list.mBackgroundPos = At(s, o.place)
    BY <2>1, Represented DEF Represents
  <2>3. Walk(list) = s
    BY <2>2, WalkIsOrder
  <2> HIDE DEF s
  <2>4. n = Cardinality(ToSet(s))
    <3>1. s \in [1..n -> ToSet(s)] /\ \A i, j \in 1..n : s[i] = s[j] => i = j
      BY <2>2 DEF ToSet, Chained
    <3>2. \A q \in ToSet(s) : \E i \in 1..n : s[i] = q
      BY <2>2 DEF ToSet
    <3>3. s \in Bijection(1..n, ToSet(s))
      BY <3>1, <3>2 DEF Bijection, Injection, Surjection, IsInjective
    <3>4. Cardinality(ToSet(s)) = Cardinality(1..n)
      BY <3>3, <2>2, FirstNumbers, FS_Bijection DEF ExistsBijection
    <3>5. QED
      BY <3>4, <2>2, FirstNumbers
  <2>5. \A i \in 1..n : list.last[s[i]] = IF i = 1 THEN Null ELSE s[i - 1]
    <3>1. ASSUME NEW i \in 1..n PROVE list.last[s[i]] = IF i = 1 THEN Null ELSE s[i - 1]
      <4>1. list.last[s[i]] = At(s, i - 1)
        BY <2>2 DEF Chained
      <4>2. At(s, i - 1) = IF i = 1 THEN Null ELSE s[i - 1]
        BY <2>2 DEF At
      <4>3. QED
        BY <4>1, <4>2
    <3>2. QED
      BY <3>1
  <2>6. list.mTail = IF n = 0 THEN Null ELSE s[n]
    BY <2>2 DEF At
  <2>7. list.mBackgroundPos \in ToSet(s) \union {Null}
    BY <2>2 DEF At, ToSet
  <2>8. QED
    BY <2>1, <2>3, <2>4, <2>5, <2>6, <2>7 DEF ListIsSound, s
<1>2. QED
  BY <1>1, SpecInv, PTL

\* intoBackground() never writes through a null pointer: a process that leaves
\* the front was shown, and then the background begins behind the first place.
THEOREM SpecNeverUndefined == Spec => []NeverUndefined
<1>1. Inv => NeverUndefined
  BY DEF Inv, NeverUndefined
<1>2. QED
  BY <1>1, SpecInv, PTL

\* A process that has not been asked to end is monitored, with the score its
\* node has.
THEOREM SpecRunningIsMonitored == Spec => []RunningIsMonitored
<1>1. Inv => RunningIsMonitored
  BY DEF Inv
<1>2. QED
  BY <1>1, SpecInv, PTL

\* The doubly linked list of ProcessPriorityPolicy implements the order of
\* PriorityOrder, operation by operation.
THEOREM SpecKeepsOrder == Spec => KeepsOrder
<1>1. Init => Order!Init
  <2> SUFFICES ASSUME Init PROVE OrderOf(list) = Order!Empty
    BY DEF Order!Init
  <2>1. Members(OrderOf(list)) = {}
    BY InitInv DEF Inv, Init
  <2>2. Represents(list, OrderOf(list))
    BY InitInv DEF Inv
  <2>3. /\ OrderOf(list).order \in Seq(Pid) /\ OrderOf(list).place \in 1..(Len(OrderOf(list).order) + 1)
        /\ OrderOf(list) \in OrderType
    BY <2>2, Represented
  <2>4. OrderOf(list).order = << >>
    <3> DEFINE s == OrderOf(list).order
    <3>1. s \in Seq(Pid) /\ ToSet(s) = {}
      BY <2>1, <2>3 DEF Members
    <3> HIDE DEF s
    <3>2. Len(s) = 0
      <4>1. Len(s) # 0 => s[1] \in ToSet(s)
        BY <3>1 DEF ToSet
      <4>2. QED
        BY <3>1, <4>1
    <3>3. s = << >>
      BY <3>1, <3>2, EmptySeq
    <3>4. QED
      BY <3>3 DEF s
  <2>5. OrderOf(list).place = 1
    BY <2>3, <2>4
  <2>6. OrderOf(list) = [order |-> OrderOf(list).order, place |-> OrderOf(list).place]
    BY <2>3 DEF OrderType
  <2>7. QED
    BY <2>4, <2>5, <2>6 DEF Order!Empty
<1>2. Inv /\ [Next]_vars => [Order!Next]_(OrderOf(list))
  <2> SUFFICES ASSUME Inv, [Next]_vars
               PROVE  \/ \E p \in Pid : Order!Follows(OrderOf(list), OrderOf(list'), p)
                      \/ OrderOf(list') = OrderOf(list)
    BY DEF Order!Next
  <2>1. CASE \E p \in DOMAIN ServiceLevel : StartService(p) \/ StartServiceIn(p)
    <3>1. PICK p \in DOMAIN ServiceLevel : StartService(p) \/ StartServiceIn(p)
      BY <2>1
    <3>2. p \in Pid
      BY LevelAssumption
    <3>3. CASE StartService(p)
      BY <3>2, <3>3, StartServiceInv DEF Order!Follows
    <3>4. CASE StartServiceIn(p)
      BY <3>4, StartServiceInInv
    <3>5. QED
      BY <3>1, <3>3, <3>4
  <2>2. ASSUME NEW p \in Pid, ShowNew(p) PROVE Order!Follows(OrderOf(list), OrderOf(list'), p)
    BY <2>2, ShowNewInv DEF Order!Follows
  <2>3. ASSUME NEW p \in Pid, Show(p) PROVE Order!Follows(OrderOf(list), OrderOf(list'), p)
    <3> DEFINE o == OrderOf(list)
    <3>1. PICK gone \in Gone : OrderOf(list') = Order!Pushed(Order!HiddenAll(o, gone), p)
      BY <2>3, ShowInv
    <3>2. Represents(list, o) /\ Members(o) = {q \in Pid : app[q] # "NONE"} /\ app[p] # "NONE"
      BY <2>3 DEF Inv, Show
    <3>3. Order!Listed(o, p)
      BY <3>2 DEF Members, ToSet, Order!Listed
    <3>4. Order!Added(o, p, TRUE) = o
      BY <3>3 DEF Order!Added
    <3>5. QED
      BY <3>1, <3>4 DEF Order!Follows
  <2>4. ASSUME NEW p \in Pid, Leave(p) PROVE Order!Follows(OrderOf(list), OrderOf(list'), p)
    BY <2>4, LeaveInv DEF Order!Follows
  <2>5. ASSUME NEW p \in Pid, Exit(p) PROVE Order!Follows(OrderOf(list), OrderOf(list'), p)
    BY <2>5, ExitInv DEF Order!Follows
  <2>6. CASE \E memory \in Memory : ExecuteLMK(memory)
    BY <2>6, ExecuteLMKInv
  <2>7. CASE UNCHANGED vars
    BY <2>7, StutterInv
  <2>8. QED
    BY <2>1, <2>2, <2>3, <2>4, <2>5, <2>6, <2>7 DEF Next
<1>3. QED
  BY <1>1, <1>2, SpecInv, PTL DEF Spec, KeepsOrder, Order!Spec
-----------------------------------------------------------------------------
(* The places of the processes in front and of home.                       *)
HomePlace(o) == At(o.order, o.place - 1)

\* The order after each operation, place by place: p is added to o ...
AddedFirst(o, p, then) ==
    /\ then.place = o.place + 1
    /\ \A k \in Int : At(then.order, k) = IF k < 1 THEN At(o.order, k)
                                          ELSE IF k = 1 THEN p ELSE At(o.order, k - 1)

AddedAtPlace(o, p, then) ==
    \A k \in Int : At(then.order, k) = IF k < o.place THEN At(o.order, k)
                                       ELSE IF k = o.place THEN p ELSE At(o.order, k - 1)

LEMMA PlacesFollow ==
    ASSUME NEW l, NEW o, Represents(l, o), NEW p \in Pid, p \notin Members(o)
    PROVE  /\ AddedFirst(o, p, Order!Added(o, p, TRUE))
           /\ AddedAtPlace(o, p, Order!Added(o, p, FALSE))
<1> DEFINE s == o.order
<1>1. /\ o \in OrderType /\ s \in Seq(Pid) /\ Len(s) \in Nat /\ o.place \in 1..(Len(s) + 1)
  BY Represented
<1>3. ~Order!Listed(o, p)
  BY DEF Members, ToSet, Order!Listed
<1> DEFINE ahead == <<p>> \o s
           new == [order |-> ahead, place |-> o.place + 1]
           behind == InsertAt(s, o.place, p)
<1>4. Order!Added(o, p, TRUE) = new /\ Order!Added(o, p, FALSE) = [o EXCEPT !.order = behind]
  BY <1>3, InsertsAlike DEF Order!Added
<1>5. new.order = ahead /\ new.place = o.place + 1
  OBVIOUS
<1>6. [o EXCEPT !.order = behind].order = behind
  BY <1>1 DEF OrderType
<1> HIDE DEF s
<1>7. /\ Len(ahead) = Len(s) + 1
      /\ \A k \in Int : At(ahead, k) = IF k < 1 THEN At(s, k)
                                       ELSE IF k = 1 THEN p ELSE At(s, k - 1)
  BY <1>1, PlacesInFront
<1>8. \A k \in Int : At(behind, k) = IF k < o.place THEN At(s, k)
                                     ELSE IF k = o.place THEN p ELSE At(s, k - 1)
  BY <1>1, PlacesInserted
<1> HIDE DEF new, ahead, behind
<1>9. AddedFirst(o, p, new)
  BY <1>5, <1>7 DEF AddedFirst, s
<1>10. AddedAtPlace(o, p, [o EXCEPT !.order = behind])
  BY <1>6, <1>8 DEF AddedAtPlace, s
<1>11. QED
  BY <1>4, <1>9, <1>10

\* ... and of the operations on a listed process, with its place i and the
\* others' order t.
Described(o, p, i, t) ==
    /\ \A k \in Int : At(o.order, k) = p <=> k = i
    /\ Len(t) = Len(o.order) - 1
    /\ \A k \in Int : At(t, k) = IF k < i THEN At(o.order, k) ELSE At(o.order, k + 1)
    /\ Order!Removed(o, p) =
          [order |-> t, place |-> IF i < o.place /\ ~Order!AtHome(o, i)
                                  THEN o.place - 1 ELSE o.place]
    /\ Order!Pushed(o, p) =
          [order |-> <<p>> \o t, place |-> IF Order!AtHome(o, i) THEN 2
                                           ELSE IF i >= o.place THEN o.place + 1
                                           ELSE o.place]
    /\ Order!Hidden(o, p) =
          LET place == IF i < o.place THEN o.place - 1 ELSE o.place
          IN IF i \in {Len(o.order), o.place} \/ Order!AtHome(o, i) THEN o
             ELSE [order |-> InsertAt(t, place, p), place |-> place]
    /\ Order!AtHome(o, i) <=> i + 1 = o.place /\ o.place <= Len(o.order)

LEMMA ListedFollow ==
    ASSUME NEW l, NEW o, Represents(l, o), NEW p \in Members(o)
    PROVE  \E i \in 1..Len(o.order), t \in Seq(Pid) : Described(o, p, i, t)
<1> DEFINE s == o.order
           i == Order!Position(o, p)
           t == RemoveAt(s, i)
<1>1. s \in Seq(Pid) /\ p \in Pid
  BY Represented DEF Members, ToSet
<1>2. Order!Listed(o, p)
  BY DEF Members, ToSet, Order!Listed
<1>3. i \in 1..Len(s) /\ \A k \in Int : At(s, k) = p <=> k = i
  BY <1>1, <1>2, Found
<1>4. Order!AtHome(o, i) <=> i + 1 = o.place /\ o.place <= Len(s)
  BY DEF Order!AtHome
<1>5. /\ Order!Removed(o, p) =
            [order |-> t, place |-> IF i < o.place /\ ~Order!AtHome(o, i)
                                    THEN o.place - 1 ELSE o.place]
      /\ Order!Pushed(o, p) =
            [order |-> <<p>> \o t, place |-> IF Order!AtHome(o, i) THEN 2
                                             ELSE IF i >= o.place THEN o.place + 1
                                             ELSE o.place]
      /\ Order!Hidden(o, p) =
            LET place == IF i < o.place THEN o.place - 1 ELSE o.place
            IN IF i \in {Len(s), o.place} \/ Order!AtHome(o, i) THEN o
               ELSE [order |-> InsertAt(t, place, p), place |-> place]
  BY <1>2, InsertsAlike DEF Order!Removed, Order!Pushed, Order!Hidden
<1> HIDE DEF i
<1>6. /\ t \in Seq(Pid) /\ Len(t) = Len(s) - 1
      /\ \A k \in Int : At(t, k) = IF k < i THEN At(s, k) ELSE At(s, k + 1)
  BY <1>1, <1>3, PlacesRemoved
<1>7. Described(o, p, i, t)
  BY <1>3, <1>4, <1>5, <1>6 DEF Described
<1> HIDE DEF t
<1>8. QED
  BY <1>3, <1>6, <1>7

\* Who stands in front of home's place is shown, and the process that came to
\* the front last is the first.
InFront(o, S, first) ==
    /\ \A k \in Int : 1 <= k /\ k <= o.place - 2 => At(o.order, k) \in S
    /\ first # Null => At(o.order, 1) = first

KeepsHome(o, then) == HomePlace(o) # Null => HomePlace(then) = HomePlace(o)

LEMMA RemovedFront ==
    ASSUME NEW l, NEW o, Represents(l, o), NEW p \in Pid,
           NEW S, NEW first, InFront(o, S, first), p # first
    PROVE  LET then == Order!Removed(o, p)
           IN /\ InFront(then, S \ {p}, first)
              /\ p # HomePlace(o) => KeepsHome(o, then)
<1> DEFINE s == o.order
           b == o.place
           then == Order!Removed(o, p)
<1>1. /\ s \in Seq(Pid) /\ Len(s) \in Nat /\ b \in 1..(Len(s) + 1)
      /\ \A k \in Int : At(s, k) # Null <=> k \in 1..Len(s)
  BY Represented
<1>2. CASE p \notin Members(o)
  <2>1. then = o
    BY <1>2 DEF Order!Removed, Order!Listed, Members, ToSet
  <2>2. \A k \in Int : At(s, k) # p
    BY <1>1, <1>2, MembersByPlace DEF Members
  <2>3. InFront(o, S \ {p}, first)
    BY <2>2 DEF InFront
  <2>4. QED
    BY <2>1, <2>3 DEF KeepsHome
<1>3. CASE p \in Members(o)
  <2>0. PICK i \in 1..Len(s), t \in Seq(Pid) : Described(o, p, i, t)
    BY <1>3, ListedFollow
  <2>1.       /\ \A k \in Int : At(s, k) = p <=> k = i
              /\ \A k \in Int : At(t, k) = IF k < i THEN At(s, k) ELSE At(s, k + 1)
              /\ then = [order |-> t, place |-> IF i < b /\ ~Order!AtHome(o, i) THEN b - 1 ELSE b]
              /\ Order!AtHome(o, i) <=> i + 1 = b /\ b <= Len(s)
    BY <2>0 DEF Described
  <2> DEFINE c == then.place
  <2>2. then.order = t /\ c = IF i < b /\ ~(i + 1 = b /\ b <= Len(s)) THEN b - 1 ELSE b
    BY <2>1
  <2> HIDE DEF then, c, s, b
  <2>3. i \in Int /\ i >= 1 /\ i <= Len(s) /\ b \in Int /\ b >= 1 /\ b <= Len(s) + 1
    BY <1>1, <2>1
  <2>4. /\ \A k \in Int : 1 <= k /\ k <= b - 2 => At(s, k) \in S
        /\ first # Null => At(s, 1) = first
    BY DEF InFront, s, b
  <2>5. ASSUME NEW k \in Int, 1 <= k, k <= c - 2 PROVE At(t, k) \in S \ {p}
    <3>1. CASE k < i
      <4>1. At(t, k) = At(s, k) /\ k # i
        <5>1. \A j \in Int : At(t, j) = IF j < i THEN At(s, j) ELSE At(s, j + 1)
          BY <2>1
        <5>2. At(t, k) = At(s, k)
          BY <5>1, <3>1
        <5>3. k # i
          BY <2>3, <3>1
        <5>4. QED
          BY <5>2, <5>3
      <4>0. At(s, k) # p
        BY <4>1, <2>1
      <4>2. k <= b - 2
        BY <2>2, <2>3, <2>5
      <4>3. QED
        BY <4>0, <4>1, <4>2, <2>4, <2>5
    <3>2. CASE ~(k < i)
      <4>1. At(t, k) = At(s, k + 1) /\ k + 1 # i /\ k + 1 \in Int
        BY <3>2, <2>1, <2>3
      <4>2. At(s, k + 1) # p
        BY <4>1, <2>1
      <4>3. k + 1 <= b - 2
        BY <3>2, <2>2, <2>3, <2>5
      <4>4. At(s, k + 1) \in S
        BY <4>1, <4>3, <2>4, <2>5
      <4>5. QED
        BY <4>1, <4>2, <4>4
    <3>3. QED
      BY <3>1, <3>2
  <2>6. ASSUME first # Null PROVE At(t, 1) = first
    <3>1. At(s, 1) = first /\ i # 1
      BY <2>1, <2>4, <2>6
    <3>2. 1 < i
      BY <3>1, <2>3
    <3>3. QED
      BY <3>1, <3>2, <2>1
  <2>7. InFront(then, S \ {p}, first)
    BY <2>2, <2>5, <2>6 DEF InFront, c
  <2>8. ASSUME p # HomePlace(o), HomePlace(o) # Null PROVE HomePlace(then) = HomePlace(o)
    <3>1. HomePlace(o) = At(s, b - 1) /\ HomePlace(then) = At(t, c - 1)
      BY <2>2 DEF HomePlace, s, b, c
    <3>2. b - 1 # i /\ b - 1 \in Int
      BY <3>1, <2>1, <2>3, <2>8
    <3>3. CASE i < b
      <4>1. c = b - 1
        BY <3>2, <3>3, <2>2, <2>3
      <4>2. c - 1 \in Int /\ ~(c - 1 < i) /\ (c - 1) + 1 = b - 1
        BY <3>2, <3>3, <4>1, <2>3
      <4>3. At(t, c - 1) = At(s, (c - 1) + 1)
        BY <4>2, <2>1
      <4>4. QED
        BY <4>2, <4>3, <3>1
    <3>4. CASE ~(i < b)
      <4>1. c = b /\ b - 1 < i
        BY <3>4, <2>2, <2>3
      <4>2. At(t, b - 1) = At(s, b - 1)
        BY <4>1, <3>2, <2>1
      <4>3. QED
        BY <4>1, <4>2, <3>1
    <3>5. QED
      BY <3>3, <3>4
  <2>9. QED
    BY <2>7, <2>8 DEF KeepsHome, then
<1>4. QED
  BY <1>2, <1>3

LEMMA HiddenFront ==
    ASSUME NEW l, NEW o, Represents(l, o), NEW p \in Pid, o.place >= 2,
           NEW S, NEW first, InFront(o, S, first), p # first
    PROVE  LET then == Order!Hidden(o, p)
           IN InFront(then, S \ {p}, first) /\ HomePlace(then) = HomePlace(o)
<1> DEFINE s == o.order
           b == o.place
           then == Order!Hidden(o, p)
<1>1. /\ s \in Seq(Pid) /\ Len(s) \in Nat /\ b \in 1..(Len(s) + 1)
      /\ \A k \in Int : At(s, k) # Null <=> k \in 1..Len(s)
  BY Represented
<1>0. /\ \A k \in Int : 1 <= k /\ k <= b - 2 => At(s, k) \in S
      /\ first # Null => At(s, 1) = first
  BY DEF InFront
<1>2. CASE p \notin Members(o)
  <2>1. then = o
    BY <1>2 DEF Order!Hidden, Order!Listed, Members, ToSet
  <2>2. \A k \in Int : At(s, k) # p
    BY <1>1, <1>2, MembersByPlace DEF Members
  <2>3. InFront(o, S \ {p}, first)
    BY <2>2 DEF InFront
  <2>4. QED
    BY <2>1, <2>3
<1>3. CASE p \in Members(o)
  <2>0. PICK i \in 1..Len(s), t \in Seq(Pid) : Described(o, p, i, t)
    BY <1>3, ListedFollow
  <2>1.       /\ \A k \in Int : At(s, k) = p <=> k = i
              /\ Len(t) = Len(s) - 1
              /\ \A k \in Int : At(t, k) = IF k < i THEN At(s, k) ELSE At(s, k + 1)
              /\ then = LET place == IF i < o.place THEN o.place - 1 ELSE o.place
                        IN IF i \in {Len(o.order), o.place} \/ Order!AtHome(o, i) THEN o
                           ELSE [order |-> InsertAt(t, place, p), place |-> place]
              /\ Order!AtHome(o, i) <=> i + 1 = b /\ b <= Len(s)
    BY <2>0 DEF Described
  <2> DEFINE c == IF i < b THEN b - 1 ELSE b
             new == InsertAt(t, c, p)
             stays == i = Len(s) \/ i = b \/ (i + 1 = b /\ b <= Len(s))
  <2>2. then = IF stays THEN o ELSE [order |-> new, place |-> c]
    BY <2>1
  <2>3. i \in Int /\ i >= 1 /\ i <= Len(s) /\ b \in Int /\ b >= 2 /\ b <= Len(s) + 1
    BY <1>1, <2>1
  <2>4. /\ \A k \in Int : At(s, k) = p <=> k = i
        /\ \A k \in Int : At(t, k) = IF k < i THEN At(s, k) ELSE At(s, k + 1)
    BY <2>1
  <2>5. CASE stays
    <3>1. then = o
      BY <2>2, <2>5
    <3> HIDE DEF then, s, b
    <3>2. ~(i <= b - 2)
      BY <1>1, <2>3, <2>5
    <3>3. \A k \in Int : 1 <= k /\ k <= b - 2 => At(s, k) \in S \ {p}
      BY <3>2, <2>1, <1>0
    <3>4. InFront(o, S \ {p}, first)
      BY <3>3, <1>0 DEF InFront, s, b
    <3>5. QED
      BY <3>1, <3>4 DEF then
  <2>6. CASE ~stays
    <3>1. then.order = new /\ then.place = c
      BY <2>2, <2>6
    <3> HIDE DEF then, s, b
    <3>2. /\ c \in Int /\ c \in {b, b - 1} /\ c >= 2 /\ c \in 1..(Len(t) + 1)
      <4>1. Len(t) = Len(s) - 1 /\ i # Len(s) /\ i # b /\ ~(i + 1 = b /\ b <= Len(s))
        BY <2>1, <2>6
      <4>2. CASE i < b
        BY <1>1, <2>3, <4>1, <4>2
      <4>3. CASE ~(i < b)
        BY <1>1, <2>3, <4>1, <4>3
      <4>4. QED
        BY <4>2, <4>3
    <3>3. At(t, c - 1) = At(s, b - 1)
      <4>1. CASE i < b
        <5>1. c - 1 \in Int /\ ~(c - 1 < i) /\ (c - 1) + 1 = b - 1
          BY <4>1, <2>3, <2>6, <1>1
        <5>2. At(t, c - 1) = At(s, (c - 1) + 1)
          BY <5>1, <2>1
        <5>3. QED
          BY <5>1, <5>2
      <4>2. CASE ~(i < b)
        <5>1. c = b /\ b - 1 < i /\ b - 1 \in Int
          BY <4>2, <2>3
        <5>2. QED
          BY <5>1, <2>1
      <4>3. QED
        BY <4>1, <4>2
    <3>4. ASSUME NEW k \in Int, 1 <= k, k <= c - 2 PROVE At(t, k) \in S \ {p}
      <4>1. CASE k < i
        <5>1. At(t, k) = At(s, k) /\ k # i
          <6>1. \A j \in Int : At(t, j) = IF j < i THEN At(s, j) ELSE At(s, j + 1)
            BY <2>4
          <6>2. At(t, k) = At(s, k)
            BY <6>1, <4>1
          <6>3. k # i
            BY <2>3, <4>1
          <6>4. QED
            BY <6>2, <6>3
        <5>0. At(s, k) # p
          BY <5>1, <2>4
        <5>2. k <= b - 2
          BY <2>3, <3>2, <3>4
        <5>3. QED
          BY <5>0, <5>1, <5>2, <1>0, <3>4
      <4>2. CASE ~(k < i)
        <5>1. At(t, k) = At(s, k + 1) /\ k + 1 # i /\ k + 1 \in Int
          BY <4>2, <2>4, <2>3
        <5>2. At(s, k + 1) # p
          BY <5>1, <2>4
        <5>3. k + 1 <= b - 2
          BY <4>2, <2>3, <3>4
        <5>4. At(s, k + 1) \in S
          BY <5>1, <5>3, <1>0, <3>4
        <5>5. QED
          BY <5>1, <5>2, <5>4
      <4>3. QED
        BY <4>1, <4>2
    <3>5. ASSUME first # Null PROVE At(t, 1) = first
      <4>1. At(s, 1) = first /\ i # 1
        BY <2>4, <1>0, <3>5
      <4>2. 1 < i
        BY <4>1, <2>3
      <4>3. QED
        BY <4>1, <4>2, <2>4
    <3> HIDE DEF c
    <3>6. \A k \in Int : At(new, k) = IF k < c THEN At(t, k) ELSE IF k = c THEN p ELSE At(t, k - 1)
      BY <3>2, PlacesInserted
    <3> HIDE DEF new
    <3>7. At(new, c - 1) = At(t, c - 1) /\ At(new, 1) = At(t, 1)
      BY <3>2, <3>6
    <3>8. \A k \in Int : 1 <= k /\ k <= c - 2 => At(new, k) \in S \ {p}
      BY <3>2, <3>4, <3>6
    <3>9. HomePlace(then) = At(new, c - 1) /\ HomePlace(o) = At(s, b - 1)
      BY <3>1 DEF HomePlace, s, b
    <3>10. InFront(then, S \ {p}, first)
      BY <3>1, <3>5, <3>7, <3>8 DEF InFront
    <3>11. QED
      BY <3>3, <3>7, <3>9, <3>10 DEF then
  <2>7. QED
    BY <2>5, <2>6
<1>4. QED
  BY <1>2, <1>3

\* The process that comes to the front is the first, and home is where it was
\* unless there is nobody left who is not in front.
LEMMA PushedFront ==
    ASSUME NEW l, NEW o, Represents(l, o), NEW p \in Members(o),
           NEW S, InFront(o, S, Null)
    PROVE  LET then == Order!Pushed(o, p)
           IN /\ InFront(then, S \union {p}, p)
              /\ KeepsHome(o, then) \/ Members(o) \subseteq S \union {p}
<1> DEFINE s == o.order
           b == o.place
           then == Order!Pushed(o, p)
<1>1. /\ s \in Seq(Pid) /\ Len(s) \in Nat /\ b \in 1..(Len(s) + 1)
      /\ \A k \in Int : At(s, k) # Null <=> k \in 1..Len(s)
  BY Represented
<1>2. PICK i \in 1..Len(s), t \in Seq(Pid) : Described(o, p, i, t)
  BY ListedFollow
<1>3. /\ \A k \in Int : At(s, k) = p <=> k = i
      /\ \A k \in Int : At(t, k) = IF k < i THEN At(s, k) ELSE At(s, k + 1)
      /\ then = [order |-> <<p>> \o t,
                 place |-> IF Order!AtHome(o, i) THEN 2 ELSE IF i >= b THEN b + 1 ELSE b]
      /\ Order!AtHome(o, i) <=> i + 1 = b /\ b <= Len(s)
  BY <1>2 DEF Described
<1>0. \A k \in Int : 1 <= k /\ k <= b - 2 => At(s, k) \in S
  BY DEF InFront
<1> DEFINE c == then.place
           q == <<p>> \o t
<1>5. p \in Pid
  BY Represented, MembersByPlace DEF Members
<1>13. Members(o) = {x \in Pid : \E k \in Int : At(s, k) = x}
  BY <1>1, MembersByPlace DEF Members
<1> HIDE DEF then, q, s, b
<1>4. then.order = q /\ c = IF i + 1 = b /\ b <= Len(s) THEN 2 ELSE IF i >= b THEN b + 1 ELSE b
  BY <1>3 DEF q
<1>6. \A k \in Int : At(q, k) = IF k < 1 THEN At(t, k) ELSE IF k = 1 THEN p ELSE At(t, k - 1)
  BY <1>5, PlacesInFront DEF q
<1> HIDE DEF c
<1>7. /\ i \in Int /\ i >= 1 /\ i <= Len(s) /\ b \in Int /\ b >= 1 /\ b <= Len(s) + 1
  BY <1>1
<1>8. At(q, 1) = p
  BY <1>6
<1>9. ASSUME NEW k \in Int, 1 <= k, k <= c - 2 PROVE At(q, k) \in S \union {p}
  <2>1. CASE k = 1
    BY <2>1, <1>8
  <2>2. CASE k # 1
    <3> DEFINE j == k - 1
    <3>1. j \in Int /\ 1 <= j /\ At(q, k) = At(t, j)
      BY <2>2, <1>6, <1>9
    <3>2. (i >= b => j <= b - 2) /\ (i < b => j <= b - 3)
      BY <1>4, <1>7, <1>9, <2>2
    <3> HIDE DEF j
    <3>3. CASE j < i
      <4>1. At(t, j) = At(s, j) /\ j <= b - 2
        BY <3>1, <3>2, <3>3, <1>3, <1>7
      <4>2. QED
        BY <4>1, <3>1, <1>0
    <3>4. CASE ~(j < i)
      <4>1. At(t, j) = At(s, j + 1) /\ j + 1 <= b - 2 /\ j + 1 \in Int /\ 1 <= j + 1
        BY <3>1, <3>2, <3>4, <1>3, <1>7
      <4>2. QED
        BY <4>1, <3>1, <1>0
    <3>5. QED
      BY <3>3, <3>4
  <2>3. QED
    BY <2>1, <2>2
<1>10. InFront(then, S \union {p}, p)
  BY <1>4, <1>8, <1>9 DEF InFront, c
<1>11. ASSUME HomePlace(o) # Null, ~(Members(o) \subseteq S \union {p}) PROVE HomePlace(then) = HomePlace(o)
  <2>1. HomePlace(o) = At(s, b - 1) /\ HomePlace(then) = At(q, c - 1)
    BY <1>4 DEF HomePlace, s, b, c
  <2>2. b - 1 \in Int /\ b >= 2
    <3>1. b - 1 \in 1..Len(s)
      BY <2>1, <1>1, <1>7, <1>11
    <3>2. QED
      BY <3>1, <1>7
  <2>3. CASE i = b - 1
    <3>1. HomePlace(o) = p
      BY <2>1, <2>2, <2>3, <1>3
    <3>2. b <= Len(s)
      <4>1. PICK x \in Members(o) : x \notin S /\ x # p
        BY <1>11
      <4>2. PICK k \in Int : At(s, k) = x /\ x \in Pid
        BY <4>1, <1>13
      <4>3. k \in 1..Len(s) /\ k # i
        BY <4>1, <4>2, <1>1, <1>3, NullAssumption
      <4>4. ~(k <= b - 2)
        BY <4>1, <4>2, <4>3, <1>0
      <4>5. QED
        BY <4>3, <4>4, <2>3, <1>7, <1>1
    <3>3. c = 2
      BY <2>2, <2>3, <3>2, <1>4, <1>7, <1>1
    <3>4. c - 1 = 1
      BY <3>3
    <3>5. QED
      BY <3>1, <3>4, <2>1, <1>8
  <2>4. CASE i < b - 1
    <3>1. c = b /\ c - 1 \in Int /\ c - 1 > 1 /\ (c - 1) - 1 \in Int
          /\ ~((c - 1) - 1 < i) /\ ((c - 1) - 1) + 1 = b - 1
      BY <2>4, <1>4, <1>7, <1>1
    <3>2. At(q, c - 1) = At(t, (c - 1) - 1)
      BY <3>1, <1>6
    <3>3. At(t, (c - 1) - 1) = At(s, ((c - 1) - 1) + 1)
      BY <3>1, <1>3
    <3>4. QED
      BY <3>1, <3>2, <3>3, <2>1
  <2>5. CASE i >= b
    <3>1. c = b + 1 /\ c - 1 \in Int /\ c - 1 > 1 /\ (c - 1) - 1 = b - 1 /\ b - 1 < i
      BY <2>2, <2>5, <1>4, <1>7, <1>1
    <3>2. At(q, c - 1) = At(t, (c - 1) - 1)
      BY <3>1, <1>6
    <3>3. At(t, b - 1) = At(s, b - 1)
      BY <3>1, <2>2, <1>3
    <3>4. QED
      BY <3>1, <3>2, <3>3, <2>1
  <2>6. QED
    BY <2>3, <2>4, <2>5, <1>7
<1>12. QED
  BY <1>10, <1>11 DEF KeepsHome, then

LEMMA AddedBehindFront ==
    ASSUME NEW l, NEW o, Represents(l, o), NEW p \in Pid, p \notin Members(o),
           NEW S, NEW first, InFront(o, S, first), first # Null => o.place >= 2
    PROVE  LET then == Order!Added(o, p, FALSE)
           IN InFront(then, S, first) /\ KeepsHome(o, then)
<1> DEFINE s == o.order
           b == o.place
           then == Order!Added(o, p, FALSE)
           q == then.order
<1>1. b \in Int /\ b >= 1
  BY Represented
<1>2. AddedAtPlace(o, p, then)
  BY PlacesFollow
<1>3. then.place = b
  BY MembersFollow
<1> HIDE DEF then, q, s, b
<1>4. \A k \in Int : k < b => At(q, k) = At(s, k)
  BY <1>1, <1>2 DEF AddedAtPlace, q, s, b
<1>5. HomePlace(then) = HomePlace(o)
  <2>1. At(q, b - 1) = At(s, b - 1)
    BY <1>1, <1>4
  <2>2. QED
    BY <2>1, <1>3 DEF HomePlace, q, s, b
<1>6. InFront(then, S, first)
  <2>1. /\ \A k \in Int : 1 <= k /\ k <= b - 2 => At(s, k) \in S
        /\ first # Null => At(s, 1) = first
        /\ first # Null => b >= 2
    BY DEF InFront, s, b
  <2>2. \A k \in Int : 1 <= k /\ k <= b - 2 => At(q, k) \in S
    BY <2>1, <1>1, <1>4
  <2>3. first # Null => At(q, 1) = first
    BY <2>1, <1>1, <1>4
  <2>4. QED
    BY <2>2, <2>3, <1>3 DEF InFront, q
<1>7. QED
  BY <1>5, <1>6 DEF KeepsHome, then

LEMMA AddedInFrontFront ==
    ASSUME NEW l, NEW o, Represents(l, o), NEW p \in Pid, p \notin Members(o),
           NEW S, InFront(o, S, Null)
    PROVE  LET then == Order!Added(o, p, TRUE)
           IN InFront(then, S \union {p}, p) /\ KeepsHome(o, then)
<1> DEFINE s == o.order
           b == o.place
           then == Order!Added(o, p, TRUE)
           q == then.order
<1>1. b \in Int /\ b >= 1 /\ (At(s, b - 1) # Null <=> b - 1 \in 1..Len(s))
  BY Represented
<1>2. AddedFirst(o, p, then)
  BY PlacesFollow
<1> HIDE DEF then
<1>3. /\ then.place = b + 1
      /\ \A k \in Int : At(q, k) = IF k < 1 THEN At(s, k)
                                   ELSE IF k = 1 THEN p ELSE At(s, k - 1)
  BY <1>2 DEF AddedFirst
<1>0. \A k \in Int : 1 <= k /\ k <= b - 2 => At(s, k) \in S
  BY DEF InFront
<1> HIDE DEF q, s, b
<1>4. ASSUME NEW k \in Int, 1 <= k, k <= (b + 1) - 2 PROVE At(q, k) \in S \union {p}
  <2>1. CASE k = 1
    BY <2>1, <1>3
  <2>2. CASE k # 1
    <3>1. At(q, k) = At(s, k - 1) /\ k - 1 \in Int /\ 1 <= k - 1 /\ k - 1 <= b - 2
      BY <2>2, <1>1, <1>3, <1>4
    <3>2. QED
      BY <3>1, <1>0
  <2>3. QED
    BY <2>1, <2>2
<1>5. b - 1 >= 1 => At(q, b) = At(s, b - 1)
  BY <1>1, <1>3
<1>6. HomePlace(then) = At(q, (b + 1) - 1) /\ HomePlace(o) = At(s, b - 1) /\ (b + 1) - 1 = b
  BY <1>1, <1>3 DEF HomePlace, q, s, b
<1>7. HomePlace(o) # Null => HomePlace(then) = HomePlace(o)
  BY <1>1, <1>5, <1>6
<1>8. InFront(then, S \union {p}, p)
  <2>1. At(q, 1) = p
    BY <1>3
  <2>2. QED
    BY <2>1, <1>3, <1>4 DEF InFront, q
<1>9. QED
  BY <1>7, <1>8 DEF KeepsHome, then

\* Several processes leave the front one after the other.
LEMMA HiddenAllFront ==
    ASSUME NEW l, NEW o, Represents(l, o), NEW gone \in Seq(Pid), gone = << >> \/ o.place >= 2,
           NEW S, InFront(o, S, Null)
    PROVE  LET then == Order!HiddenAll(o, gone)
           IN InFront(then, S \ ToSet(gone), Null) /\ HomePlace(then) = HomePlace(o)
<1> DEFINE n == Len(gone)
           f == CHOOSE x : HiddenLists(l, gone, x)
           h == CHOOSE x : HiddenOrders(o, gone, x)
           left(k) == {gone[j] : j \in 1..k}
           good == {k \in 0..n : /\ Represents(f[k], h[k])
                                 /\ n = 0 \/ h[k].place >= 2
                                 /\ InFront(h[k], S \ left(k), Null)
                                 /\ HomePlace(h[k]) = HomePlace(o)}
<1>1. Order!HiddenAll(o, gone) = h[n] /\ left(n) = ToSet(gone)
  BY DEF Order!HiddenAll, HiddenOrders, ToSet
<1>2. HiddenLists(l, gone, f) /\ HiddenOrders(o, gone, h)
  BY HiddenListsExist, HiddenOrdersExist
<1> HIDE DEF f, h
<1>3. n \in Nat /\ (n = 0 \/ o.place >= 2) /\ \A k \in 1..n : gone[k] \in Pid
  OBVIOUS
<1>4. /\ \A i \in 0..n : f[i] = IF i = 0 THEN l ELSE IntoBackground(f[i - 1], gone[i])
      /\ \A i \in 0..n : h[i] = IF i = 0 THEN o ELSE Order!Hidden(h[i - 1], gone[i])
  BY <1>2 DEF HiddenLists, HiddenOrders
<1> HIDE DEF n
<1>5. 0 \in good
  <2>1. f[0] = l /\ h[0] = o /\ 0 \in 0..n
    BY <1>3, <1>4
  <2>2. S \ left(0) = S
    OBVIOUS
  <2> HIDE DEF left
  <2>3. QED
    BY <2>1, <2>2, <1>3
<1>6. ASSUME NEW k \in 0..(n - 1), k \in good PROVE k + 1 \in good
  <2> DEFINE j == k + 1
  <2>1. j \in 1..n /\ j \in 0..n /\ j # 0 /\ j - 1 = k /\ n # 0
    BY <1>3
  <2>2. (S \ left(k)) \ {gone[j]} = S \ left(j)
    <3>1. 1..j = (1..k) \union {j}
      BY <2>1, <1>3
    <3>2. QED
      BY <3>1
  <2> HIDE DEF j, left
  <2>3. /\ Represents(f[k], h[k]) /\ h[k].place >= 2 /\ InFront(h[k], S \ left(k), Null)
        /\ HomePlace(h[k]) = HomePlace(o) /\ gone[j] \in Pid /\ gone[j] # Null
    BY <2>1, <1>3, <1>6, NullAssumption
  <2>4. f[j] = IntoBackground(f[k], gone[j]) /\ h[j] = Order!Hidden(h[k], gone[j])
    BY <2>1, <1>4
  <2>5. Represents(f[j], h[j]) /\ h[j].place >= 2
    BY <2>3, <2>4, HiddenKeeps
  <2>6. InFront(h[j], (S \ left(k)) \ {gone[j]}, Null) /\ HomePlace(h[j]) = HomePlace(h[k])
    BY <2>3, <2>4, HiddenFront
  <2>7. QED
    BY <2>1, <2>2, <2>3, <2>5, <2>6 DEF j
<1>7. 0..n \subseteq good
  <2> HIDE DEF good
  <2>1. QED
    BY <1>3, <1>5, <1>6, UpTo
<1>8. n \in good
  BY <1>3, <1>7
<1> HIDE DEF left
<1>9. QED
  BY <1>1, <1>8

\* The whole switch, of a process on the list.
LEMMA SwitchedFront ==
    ASSUME NEW l, NEW o, Represents(l, o), NEW p \in Members(o), NEW gone \in Gone,
           gone = << >> \/ o.place >= 2, NEW S, InFront(o, S, Null)
    PROVE  LET then == Order!Pushed(Order!HiddenAll(o, gone), p)
           IN /\ InFront(then, (S \ ToSet(gone)) \union {p}, p)
              /\ KeepsHome(o, then) \/ Members(o) \subseteq (S \ ToSet(gone)) \union {p}
<1> DEFINE m == IntoBackgroundAll(l, gone)
           h == Order!HiddenAll(o, gone)
<1>1. gone \in Seq(Pid)
  BY GoneIsSequence
<1>2. Represents(m, h) /\ Members(h) = Members(o)
  BY <1>1, HiddenAllKeeps
<1>3. InFront(h, S \ ToSet(gone), Null) /\ HomePlace(h) = HomePlace(o)
  BY <1>1, HiddenAllFront
<1> HIDE DEF m, h
<1>4. /\ InFront(Order!Pushed(h, p), (S \ ToSet(gone)) \union {p}, p)
      /\ KeepsHome(h, Order!Pushed(h, p)) \/ Members(h) \subseteq (S \ ToSet(gone)) \union {p}
  BY <1>2, <1>3, PushedFront
<1>5. QED
  BY <1>2, <1>3, <1>4 DEF KeepsHome, h

\* What is kept of the places: the invariant about them, and home's place
\* unless everybody is in front.
ShownFirst == InFront(OrderOf(list), shown, front)

HomeStays == \/ KeepsHome(OrderOf(list), OrderOf(list'))
             \/ Members(OrderOf(list')) \subseteq shown'

LEMMA ShowFront ==
    ASSUME Inv, ShownFirst, NEW p \in Pid, Show(p)
    PROVE  ShownFirst' /\ HomeStays
<1> DEFINE o == OrderOf(list)
<1>1. PICK gone \in Gone :
         /\ ToSet(gone) \subseteq shown /\ shown' = (shown \ ToSet(gone)) \union {p} /\ front' = p
         /\ OrderOf(list') = Order!Pushed(Order!HiddenAll(o, gone), p)
  BY ShowInv
<1>2. /\ Represents(list, o) /\ Members(o) = {q \in Pid : app[q] # "NONE"} /\ p \in Members(o)
      /\ shown # {} => o.place >= 2
      /\ InFront(o, shown, Null)
  BY DEF Inv, Show, ShownFirst, InFront
<1>3. Members(OrderOf(list')) = Members(o)
  BY <1>2, ShowInv DEF Inv, Show
<1> HIDE DEF o
<1>4. gone = << >> \/ o.place >= 2
  BY <1>1, <1>2, NobodyLeaves
<1>5. /\ InFront(OrderOf(list'), shown', p)
      /\ KeepsHome(o, OrderOf(list')) \/ Members(o) \subseteq shown'
  BY <1>1, <1>2, <1>4, SwitchedFront
<1>6. QED
  BY <1>1, <1>3, <1>5 DEF ShownFirst, HomeStays, o

LEMMA ShowNewFront ==
    ASSUME Inv, ShownFirst, NEW p \in Pid, ShowNew(p)
    PROVE  ShownFirst' /\ HomeStays
<1> DEFINE o == OrderOf(list)
           added == Order!Added(o, p, TRUE)
<1>1. PICK gone \in Gone :
         /\ ToSet(gone) \subseteq shown /\ shown' = (shown \ ToSet(gone)) \union {p} /\ front' = p
         /\ OrderOf(list') = Order!Pushed(Order!HiddenAll(added, gone), p)
  BY ShowNewInv
<1>2. /\ Represents(list, o) /\ Members(o) = {q \in Pid : app[q] # "NONE"} /\ p \notin Members(o)
      /\ InFront(o, shown, Null)
  BY DEF Inv, ShowNew, ShownFirst, InFront
<1>3. Members(OrderOf(list')) = {q \in Pid : app'[q] # "NONE"}
  BY ShowNewInv DEF Inv
<1>4. {q \in Pid : app'[q] # "NONE"} = {q \in Pid : app[q] # "NONE"} \union {p}
  BY LevelAssumption, AttachTypes DEF ShowNew
<1> HIDE DEF o
<1>5. /\ Represents(Add(list, p, TRUE), added) /\ Members(added) = Members(o) \union {p}
      /\ added.place >= 2
  BY <1>2, AddedInFront, MembersFollow
<1>6. InFront(added, shown \union {p}, p) /\ KeepsHome(o, added)
  BY <1>2, AddedInFrontFront
<1>7. InFront(added, shown \union {p}, Null)
  BY <1>6 DEF InFront
<1>8. ((shown \union {p}) \ ToSet(gone)) \union {p} = shown'
  BY <1>1
<1> HIDE DEF added
<1>9. /\ InFront(OrderOf(list'), shown', p)
      /\ KeepsHome(added, OrderOf(list')) \/ Members(added) \subseteq shown'
  <2> DEFINE S == shown \union {p}
             then == Order!Pushed(Order!HiddenAll(added, gone), p)
  <2>1. p \in Members(added)
    BY <1>5
  <2>2. InFront(added, S, Null)
    BY <1>7
  <2> HIDE DEF S, then
  <2>3. /\ InFront(then, (S \ ToSet(gone)) \union {p}, p)
        /\ KeepsHome(added, then) \/ Members(added) \subseteq (S \ ToSet(gone)) \union {p}
    BY <2>1, <2>2, <1>5, SwitchedFront DEF then
  <2>4. QED
    BY <2>3, <1>1, <1>8 DEF S, then
<1>10. QED
  BY <1>1, <1>2, <1>3, <1>4, <1>5, <1>6, <1>9 DEF ShownFirst, HomeStays, KeepsHome, o

LEMMA LeaveFront ==
    ASSUME Inv, ShownFirst, NEW p \in Pid, Leave(p)
    PROVE  ShownFirst' /\ HomeStays
<1> DEFINE o == OrderOf(list)
           first == IF front = p THEN Null ELSE front
<1>1. /\ OrderOf(list') = Order!Hidden(o, p) /\ shown' = shown \ {p} /\ p \in shown
      /\ front' = first
  BY LeaveInv DEF Leave, LosesFront
<1>2. Represents(list, o) /\ o.place >= 2
  BY <1>1 DEF Inv
<1>3. InFront(o, shown, first) /\ p # first
  BY NullAssumption DEF ShownFirst, InFront
<1> HIDE DEF o, first
<1>4. InFront(Order!Hidden(o, p), shown \ {p}, first) /\ HomePlace(Order!Hidden(o, p)) = HomePlace(o)
  BY <1>2, <1>3, HiddenFront
<1>5. QED
  BY <1>1, <1>4 DEF ShownFirst, HomeStays, KeepsHome, o

LEMMA ExitFront ==
    ASSUME Inv, ShownFirst, NEW p \in Pid, Exit(p)
    PROVE  /\ ShownFirst'
           /\ \/ HomeStays
              \/ HomePlace(OrderOf(list)) \in Pid /\ app'[HomePlace(OrderOf(list))] = "NONE"
<1> DEFINE o == OrderOf(list)
           first == IF front = p THEN Null ELSE front
<1>1. /\ OrderOf(list') = Order!Removed(o, p) /\ shown' = shown \ {p}
      /\ front' = first /\ app' = [app EXCEPT ![p] = "NONE"]
  BY ExitInv DEF Exit, LosesFront
<1>2. Represents(list, o) /\ app \in [Pid -> {"NONE", "RUNNING", "STOPPING"}]
  BY DEF Inv, TypeOK
<1>3. InFront(o, shown, first) /\ p # first
  BY NullAssumption DEF ShownFirst, InFront
<1>4. app'[p] = "NONE"
  BY <1>1, <1>2
<1> HIDE DEF o, first
<1>5. /\ InFront(Order!Removed(o, p), shown \ {p}, first)
      /\ p # HomePlace(o) => KeepsHome(o, Order!Removed(o, p))
  BY <1>2, <1>3, RemovedFront
<1>6. QED
  BY <1>1, <1>4, <1>5 DEF ShownFirst, HomeStays, o

LEMMA StartServiceFront ==
    ASSUME Inv, ShownFirst, NEW p \in DOMAIN ServiceLevel, StartService(p)
    PROVE  ShownFirst' /\ HomeStays
<1> DEFINE o == OrderOf(list)
           then == Order!Added(o, p, FALSE)
<1>1. OrderOf(list') = then /\ shown' = shown /\ front' = front
  BY StartServiceInv DEF StartService
<1>2. /\ Represents(list, o) /\ p \in Pid /\ p \notin Members(o)
      /\ front # Null => o.place >= 2
      /\ InFront(o, shown, front)
  BY LevelAssumption DEF Inv, TypeOK, StartService, ShownFirst
<1> HIDE DEF o
<1>3. InFront(then, shown, front) /\ KeepsHome(o, then)
  BY <1>2, AddedBehindFront
<1>4. QED
  BY <1>1, <1>3 DEF ShownFirst, HomeStays, o

LEMMA NextFront ==
    ASSUME Inv, ShownFirst, [Next]_vars
    PROVE  /\ ShownFirst'
           /\ \/ HomeStays
              \/ HomePlace(OrderOf(list)) \in Pid /\ app'[HomePlace(OrderOf(list))] = "NONE"
<1>1. ASSUME NEW p \in DOMAIN ServiceLevel, StartService(p) \/ StartServiceIn(p)
      PROVE  ShownFirst' /\ HomeStays
  BY <1>1, StartServiceFront DEF StartServiceIn, ShownFirst, HomeStays, KeepsHome
<1>2. ASSUME NEW p \in Pid, ShowNew(p) \/ Show(p) \/ Leave(p) PROVE ShownFirst' /\ HomeStays
  BY <1>2, ShowNewFront, ShowFront, LeaveFront
<1>3. ASSUME NEW memory \in Memory, ExecuteLMK(memory) PROVE ShownFirst' /\ HomeStays
  <2>1. list' = list /\ shown' = shown /\ front' = front
    BY <1>3 DEF ExecuteLMK
  <2>2. QED
    BY <2>1 DEF ShownFirst, HomeStays, KeepsHome
<1>4. CASE UNCHANGED vars
  BY <1>4 DEF vars, ShownFirst, HomeStays, KeepsHome
<1>5. QED
  BY <1>1, <1>2, <1>3, <1>4, ExitFront DEF Next

\* The process at home's place is the one scored as home.
LEMMA HomeOfList ==
    ASSUME NEW l, NEW o, Represents(l, o), NEW p \in Members(o)
    PROVE  l.next[p] = l.mBackgroundPos <=> HomePlace(o) = p
<1> DEFINE s == o.order
           b == o.place
<1>1. /\ s \in Seq(Pid) /\ Len(s) \in Nat /\ b \in 1..(Len(s) + 1)
      /\ \A k \in Int : At(s, k) # Null <=> k \in 1..Len(s)
      /\ ChainedAt(l, s) /\ l.mBackgroundPos = At(s, b)
  BY Represented
<1>2. PICK i \in 1..Len(s), t \in Seq(Pid) : Described(o, p, i, t)
  BY ListedFollow
<1>3. \A k \in Int : At(s, k) = p <=> k = i
  BY <1>2 DEF Described
<1>4. HomePlace(o) = At(s, b - 1)
  BY DEF HomePlace
<1> HIDE DEF s, b
<1>5. i \in Int /\ i >= 1 /\ i <= Len(s) /\ b \in Int /\ b >= 1 /\ b <= Len(s) + 1
  BY <1>1
<1>6. At(s, i) = p /\ p # Null
  BY <1>1, <1>3, <1>5
<1>7. l.next[p] = At(s, i + 1)
  BY <1>1, <1>5, <1>6 DEF ChainedAt
<1>8. At(s, i + 1) = At(s, b) <=> i + 1 = b
  <2>1. CASE b <= Len(s)
    <3>1. At(s, b) # Null
      BY <2>1, <1>1, <1>5
    <3>2. QED
      BY <3>1, <1>1, <1>5 DEF ChainedAt
  <2>2. CASE b = Len(s) + 1
    <3>1. At(s, b) = Null
      BY <2>2, <1>1, <1>5
    <3>2. At(s, i + 1) = Null <=> ~(i + 1 <= Len(s))
      BY <1>1, <1>5
    <3>3. QED
      BY <2>2, <3>1, <3>2, <1>1, <1>5
  <2>3. QED
    BY <2>1, <2>2, <1>5, <1>1
<1>9. HomePlace(o) = p <=> b - 1 = i
  BY <1>3, <1>4, <1>5
<1>10. QED
  BY <1>1, <1>5, <1>7, <1>8, <1>9

LEMMA InitFront == Init => ShownFirst
<1> SUFFICES ASSUME Init PROVE ShownFirst
  OBVIOUS
<1>1. Members(OrderOf(list)) = {} /\ Represents(list, OrderOf(list)) /\ front = Null
  BY InitInv DEF Inv, Init
<1> DEFINE s == OrderOf(list).order
<1>2. s \in Seq(Pid) /\ Len(s) \in Nat /\ OrderOf(list).place \in 1..(Len(s) + 1) /\ ToSet(s) = {}
  BY <1>1, Represented DEF Members
<1> HIDE DEF s
<1>3. Len(s) # 0 => s[1] \in ToSet(s)
  BY <1>2 DEF ToSet
<1>4. OrderOf(list).place = 1
  BY <1>2, <1>3
<1>5. QED
  BY <1>1, <1>4 DEF ShownFirst, InFront

\* Whatever is shown beside what, the processes in front of home's place are
\* among those shown, and the one that came to the front last is at the head of
\* the list.
THEOREM SpecShownFirst == Spec => [](Inv /\ ShownFirst)
<1>1. Inv /\ ShownFirst /\ [Next]_vars => ShownFirst'
  BY NextFront
<1>2. QED
  BY <1>1, InitFront, SpecInv, PTL DEF Spec

\* The process at home's place keeps it as long as it lives, for any number of
\* processes and whatever is shown beside it, while anyone is in the background:
\* pushForeground() and removePid() move mBackgroundPos with it.
THEOREM SpecHomeKeepsPlace == Spec => HomeKeepsPlace
<1>1. ASSUME Inv, Inv', ShownFirst, [Next]_vars, NEW p \in Pid, AtHomesPlace(p), app'[p] # "NONE",
             \E q \in Pid : app'[q] # "NONE" /\ q \notin shown'
      PROVE  AtHomesPlace(p)'
  <2> DEFINE o == OrderOf(list)
             then == OrderOf(list')
  <2>1. Represents(list, o) /\ Members(o) = {q \in Pid : app[q] # "NONE"}
    BY <1>1 DEF Inv
  <2>2. Represents(list', then) /\ Members(then) = {q \in Pid : app'[q] # "NONE"}
    BY <1>1 DEF Inv
  <2>3. KeepsHome(o, then) \/ app'[HomePlace(o)] = "NONE"
    BY <1>1, <2>2, NextFront DEF HomeStays
  <2>4. p \in Members(o) /\ p \in Members(then) /\ p # Null /\ list.next[p] = list.mBackgroundPos
    BY <1>1, <2>1, <2>2, NullAssumption DEF AtHomesPlace
  <2> HIDE DEF o, then
  <2>5. HomePlace(o) = p
    BY <2>1, <2>4, HomeOfList
  <2>6. HomePlace(then) = p
    BY <1>1, <2>3, <2>4, <2>5 DEF KeepsHome
  <2>7. list'.next[p] = list'.mBackgroundPos
    BY <2>2, <2>4, <2>6, HomeOfList
  <2>8. QED
    BY <1>1, <2>7 DEF AtHomesPlace
<1>2. Inv /\ Inv' /\ ShownFirst /\ [Next]_vars
        => [\A p \in Pid :
               AtHomesPlace(p) /\ app'[p] # "NONE" /\ (\E q \in Pid : app'[q] # "NONE" /\ q \notin shown')
                  => AtHomesPlace(p)']_vars
  BY <1>1
<1>3. QED
  BY <1>2, SpecShownFirst, PTL DEF Spec, HomeKeepsPlace

\* The score of the head of the list.
LEMMA HeadScore ==
    ASSUME Inv, ShownFirst, NEW p \in Pid, front = p
    PROVE  Analysed[p] <= OS_FOREGROUND_APP_ADJ
<1> DEFINE s == Walk(list)
           i == CHOOSE k \in DOMAIN s : s[k] = p
<1>1. Linked(list, OrderOf(list).order)
  BY DEF Inv, Represents
<1>2. s = OrderOf(list).order /\ s \in Seq(Pid) /\ \A j, k \in 1..Len(s) : s[j] = s[k] => j = k
  BY <1>1, WalkIsOrder DEF Linked, Chained
<1>3. At(s, 1) = p /\ p # Null
  BY <1>2, NullAssumption DEF ShownFirst, InFront
<1>4. info[p].oomScore \in Int
  BY DEF Inv, TypeOK
<1>5. Analysed[p] = IF p \in ToSet(s) THEN CalculateScore(s, i) ELSE info[p].oomScore
  BY DEF Analysed
<1> HIDE DEF s
<1>6. 1 \in DOMAIN s /\ s[1] = p /\ DOMAIN s = 1..Len(s)
  BY <1>2, <1>3 DEF At
<1>7. i \in 1..Len(s) /\ s[i] = p /\ p \in ToSet(s)
  BY <1>6 DEF ToSet
<1> HIDE DEF i
<1>8. i = 1
  BY <1>2, <1>6, <1>7
<1>9. CalculateScore(s, i) = Smaller(info[p].oomScore, OS_FOREGROUND_APP_ADJ)
  BY <1>6, <1>8 DEF CalculateScore
<1>10. QED
  BY <1>4, <1>5, <1>7, <1>9 DEF Smaller, OS_FOREGROUND_APP_ADJ

\* The row that the memory has fallen to has a threshold above 0, if those of
\* the configuration have and there is any memory left.
Positive ==
    /\ \A i \in DOMAIN Cfg : Cfg[i][3] > 0
    /\ \A memory \in Memory : memory[1] > 0 /\ memory[2] > 0

LEMMA ThresholdIsPositive ==
    ASSUME Positive, NEW memory \in Memory, Reached(memory, OomScoreThreshold) # {}
    PROVE  OomScoreThreshold[Min(Reached(memory, OomScoreThreshold))][3] \in Nat \ {0}
<1> DEFINE rows == IF Cfg = << >> THEN Warnings ELSE Cfg
           table == [i \in 1..MAX_ADJUST_NUM |-> IF i <= Len(rows) THEN rows[i] ELSE <<0, 0, 0>>]
           reached == Reached(memory, table)
           m == Min(reached)
<1>1. OomScoreThreshold = table
  BY DEF OomScoreThreshold
<1>2. Len(rows) \in Nat /\ \A i \in 1..Len(rows) : rows[i][3] \in Nat \ {0}
  <2>1. CASE Cfg = << >>
    <3>1. /\ Len(Warnings) = 3
          /\ Warnings[1][3] = 10 /\ Warnings[2][3] = 102 /\ Warnings[3][3] = 500
      BY DEF Warnings
    <3>2. \A i \in 1..Len(Warnings) : Warnings[i][3] \in Nat \ {0}
      BY <3>1
    <3>3. rows = Warnings
      BY <2>1
    <3> HIDE DEF rows
    <3>4. Len(rows) = 3
      BY <3>1, <3>3
    <3>5. \A i \in 1..3 : rows[i][3] \in Nat \ {0}
      BY <3>1, <3>2, <3>3
    <3>6. QED
      BY <3>4, <3>5
  <2>2. CASE Cfg # << >>
    BY <2>2, CfgAssumption DEF Positive
  <2>3. QED
    BY <2>1, <2>2
<1>3. memory[1] \in Nat /\ memory[2] \in Nat /\ memory[1] > 0 /\ memory[2] > 0
  BY CfgAssumption DEF Positive
<1> HIDE DEF rows
<1>4. \A i \in 1..MAX_ADJUST_NUM : table[i] = IF i <= Len(rows) THEN rows[i] ELSE <<0, 0, 0>>
  OBVIOUS
<1>5. DOMAIN table = 1..MAX_ADJUST_NUM
  OBVIOUS
<1> HIDE DEF table
<1>6. reached = {i \in 1..MAX_ADJUST_NUM : memory[1] <= table[i][1] \/ memory[2] <= table[i][2]}
  BY <1>5 DEF Reached
<1>7. reached # {}
  BY <1>1
<1> HIDE DEF reached
<1>8. m \in reached
  <2>1. reached \in SUBSET Nat
    BY <1>6 DEF MAX_ADJUST_NUM
  <2>2. \E x \in reached : \A y \in reached : x <= y
    BY <1>7, <2>1, LeastNat
  <2>3. QED
    BY <2>2 DEF Min
<1> HIDE DEF m
<1>9. m \in 1..MAX_ADJUST_NUM /\ (memory[1] <= table[m][1] \/ memory[2] <= table[m][2])
  BY <1>6, <1>8
<1>10. m <= Len(rows)
  <2>1. ~(m <= Len(rows)) => table[m] = <<0, 0, 0>>
    BY <1>4, <1>9
  <2>2. table[m] = <<0, 0, 0>> => table[m][1] = 0 /\ table[m][2] = 0
    OBVIOUS
  <2>3. QED
    BY <2>1, <2>2, <1>3, <1>9
<1>11. table[m][3] \in Nat \ {0}
  BY <1>2, <1>4, <1>9, <1>10 DEF MAX_ADJUST_NUM
<1>12. QED
  BY <1>1, <1>11 DEF m, reached

\* executeLMK() never asks the process that came to the front last to end, for
\* any number of processes, levels and lines of the configuration: it is at the
\* head of the list, whose score is not above that of the foreground.
THEOREM SpecLastShownIsSpared ==
    ASSUME Positive
    PROVE  Spec => LastShownIsSpared
<1>1. ASSUME Inv, ShownFirst, [Next]_vars, NEW p \in Pid, front = p, app[p] = "RUNNING"
      PROVE  app'[p] # "STOPPING"
  <2>1. app \in [Pid -> {"NONE", "RUNNING", "STOPPING"}] /\ RunningIsMonitored
    BY <1>1 DEF Inv, TypeOK
  <2>2. ASSUME NEW q \in Pid, NEW level, Attach(q, level) PROVE app'[p] # "STOPPING"
    BY <1>1, <2>1, <2>2 DEF Attach
  <2>3. CASE \E q \in DOMAIN ServiceLevel : StartService(q) \/ StartServiceIn(q)
    BY <1>1, <2>2, <2>3, LevelAssumption DEF StartService, StartServiceIn
  <2>4. CASE \E q \in Pid : ShowNew(q) \/ Show(q) \/ Leave(q)
    BY <1>1, <2>2, <2>4 DEF ShowNew, Show, Leave
  <2>5. ASSUME NEW q \in Pid, Exit(q) PROVE app'[p] # "STOPPING"
    BY <1>1, <2>1, <2>5 DEF Exit
  <2>6. ASSUME NEW memory \in Memory, ExecuteLMK(memory) PROVE app'[p] # "STOPPING"
    <3> DEFINE threshold == OomScoreThreshold[Min(Reached(memory, OomScoreThreshold))][3]
               oom == Analysed
               score == Scored(oom)
               killed == {q \in DOMAIN score : score[q] >= threshold}
    <3>1. app'[p] = IF p \in killed /\ app[p] = "RUNNING" THEN "STOPPING" ELSE app[p]
      BY <2>6 DEF ExecuteLMK
    <3>2. Reached(memory, OomScoreThreshold) # {}
      BY <2>6 DEF ExecuteLMK
    <3>3. threshold \in Nat \ {0}
      BY <3>2, ThresholdIsPositive
    <3>4. oom[p] <= 0 /\ oom[p] \in Int
      BY <1>1, HeadScore, ScoresAreNumbers DEF OS_FOREGROUND_APP_ADJ
    <3>5. mPidOomScore[p] = info[p].oomScore /\ p \in DOMAIN mPidOomScore
      BY <1>1, <2>1 DEF RunningIsMonitored
    <3> HIDE DEF oom, threshold
    <3>6. score[p] = oom[p]
      BY <3>5 DEF Scored
    <3> HIDE DEF score
    <3>7. p \notin killed
      <4>1. ~(score[p] >= threshold)
        BY <3>3, <3>4, <3>6
      <4>2. QED
        BY <4>1
    <3>8. QED
      BY <3>1, <3>7, <1>1
  <2>7. CASE UNCHANGED vars
    BY <1>1, <2>7 DEF vars
  <2>8. QED
    BY <1>1, <2>3, <2>4, <2>5, <2>6, <2>7 DEF Next
<1>2. Inv /\ ShownFirst /\ [Next]_vars
        => [\A p \in Pid : front = p /\ app[p] = "RUNNING" => app'[p] # "STOPPING"]_vars
  BY <1>1
<1>3. QED
  BY <1>2, SpecShownFirst, PTL DEF Spec, LastShownIsSpared
=============================================================================

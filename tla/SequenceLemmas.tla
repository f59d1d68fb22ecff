---------------------------- MODULE SequenceLemmas ----------------------------
(***************************************************************************)
(* Facts about numbers, recursive functions and sequences that the proofs  *)
(* of several modules need: the least number of a set, which stands for    *)
(* induction; the function that applies one step after the other; what     *)
(* removing and inserting an element leaves at each place; loops.          *)
(***************************************************************************)
EXTENDS Integers, SequencesExt, SequenceTheorems, FiniteSetTheorems, TLAPS

\* Every set of numbers has a least one.
LEMMA LeastNat ==
    ASSUME NEW T \in SUBSET Nat, T # {}
    PROVE  \E m \in T : \A n \in T : m <= n
<1> DEFINE U == {1..n : n \in T}
<1>1. \A n \in Nat : IsFiniteSet(1..n) /\ 1..n \in SUBSET Nat
  BY FS_Interval
<1>2. U \subseteq FiniteSubsetsOf(Nat) /\ U # {}
  BY <1>1 DEF FiniteSubsetsOf
<1>3. IsWellFoundedOn(StrictSubsetOrdering(Nat), FiniteSubsetsOf(Nat))
  BY FS_StrictSubsetOrderingWellFounded
<1> HIDE DEF U
<1>4. PICK u \in U : \A v \in U : ~(<<v, u>> \in StrictSubsetOrdering(Nat))
  BY <1>2, <1>3, WFMin
<1>5. PICK m \in T : u = 1..m
  BY DEF U
<1>6. ASSUME NEW n \in T, n < m PROVE FALSE
  <2>1. 1..n \in U
    BY DEF U
  <2>2. 1..n \subseteq 1..m /\ m \in 1..m /\ m \notin 1..n
    BY <1>6
  <2>3. <<1..n, u>> \in StrictSubsetOrdering(Nat)
    BY <2>2, <1>5 DEF StrictSubsetOrdering
  <2>4. QED
    BY <2>1, <2>3, <1>4
<1>7. QED
  BY <1>6

\* Induction up to n: a set of numbers that holds 0, and k + 1 with each k.
LEMMA UpTo ==
    ASSUME NEW n \in Nat, NEW T, 0 \in T,
           \A k \in 0..(n - 1) : k \in T => k + 1 \in T
    PROVE  0..n \subseteq T
<1> SUFFICES ASSUME (0..n) \ T # {} PROVE FALSE
  OBVIOUS
<1>1. PICK m \in (0..n) \ T : \A k \in (0..n) \ T : m <= k
  <2> DEFINE B == (0..n) \ T
  <2>1. B \in SUBSET Nat /\ B # {}
    OBVIOUS
  <2> HIDE DEF B
  <2>2. \E m \in B : \A k \in B : m <= k
    BY <2>1, LeastNat
  <2>3. QED
    BY <2>2 DEF B
<1>2. m - 1 \in 0..(n - 1) /\ m - 1 \in 0..n /\ m = (m - 1) + 1
  BY <1>1
<1>3. m - 1 \in T
  BY <1>1, <1>2
<1>4. QED
  BY <1>1, <1>2, <1>3

\* The values from x on when step[1], step[2] ... are applied.
Iterated(x, step, n, g) ==
    g = [i \in 0..n |-> IF i = 0 THEN x ELSE step[i][g[i - 1]]]

\* A step applied n times has a result after each of them, of the type it keeps.
LEMMA IteratedExists ==
    ASSUME NEW S, NEW x \in S, NEW n \in Nat, NEW step \in [1..n -> [S -> S]]
    PROVE  \E g \in [0..n -> S] : Iterated(x, step, n, g)
<1> DEFINE T == {m \in 0..n : \E g \in [0..m -> S] : Iterated(x, step, m, g)}
<1>1. 0 \in T
  <2> DEFINE g == [i \in 0..0 |-> x]
  <2>1. g \in [0..0 -> S] /\ \A i \in 0..0 : i = 0
    OBVIOUS
  <2>2. Iterated(x, step, 0, g)
    BY <2>1 DEF Iterated
  <2>3. QED
    BY <2>1, <2>2
<1>2. ASSUME NEW k \in 0..(n - 1), k \in T PROVE k + 1 \in T
  <2>1. PICK h \in [0..k -> S] : Iterated(x, step, k, h)
    BY <1>2
  <2> DEFINE m == k + 1
             g == [i \in 0..m |-> IF i = m THEN step[m][h[k]] ELSE h[i]]
  <2>2. m \in 1..n /\ k \in 0..k /\ \A i \in 0..m : i # m => i \in 0..k
    OBVIOUS
  <2>3. step[m] \in [S -> S] /\ h[k] \in S
    BY <2>2
  <2>4. g \in [0..m -> S]
    BY <2>2, <2>3
  <2>5. \A i \in 0..k : h[i] = IF i = 0 THEN x ELSE step[i][h[i - 1]]
    BY <2>1 DEF Iterated
  <2>6. ASSUME NEW i \in 0..m
        PROVE  g[i] = IF i = 0 THEN x ELSE step[i][g[i - 1]]
    <3>1. CASE i = m
      <4>1. i # 0 /\ i - 1 = k /\ k # m /\ k \in 0..m
        BY <3>1
      <4>2. QED
        BY <3>1, <4>1
    <3>2. CASE i # m
      <4>1. i \in 0..k /\ i \in 0..m /\ (i # 0 => i - 1 \in 0..m /\ i - 1 # m)
        BY <3>2
      <4>2. QED
        BY <3>2, <4>1, <2>5
    <3>3. QED
      BY <3>1, <3>2
  <2>7. g = [i \in 0..m |-> IF i = 0 THEN x ELSE step[i][g[i - 1]]]
    <3> DEFINE f == [i \in 0..m |-> IF i = 0 THEN x ELSE step[i][g[i - 1]]]
    <3>1. DOMAIN f = 0..m /\ DOMAIN g = 0..m /\ \A i \in 0..m : f[i] = g[i]
      BY <2>6
    <3> HIDE DEF g
    <3>2. f = [i \in 0..m |-> f[i]]
      OBVIOUS
    <3>3. g = [i \in 0..m |-> g[i]]
      BY <2>4
    <3> HIDE DEF f
    <3>4. f = g
      BY <3>1, <3>2, <3>3
    <3>5. QED
      BY <3>4 DEF f
  <2> HIDE DEF g
  <2>8. Iterated(x, step, m, g)
    BY <2>7 DEF Iterated
  <2>9. QED
    BY <2>2, <2>4, <2>8
<1>3. 0..n \subseteq T
  <2> HIDE DEF T
  <2>1. QED
    BY <1>1, <1>2, UpTo
<1>4. QED
  BY <1>3

\* What RemoveAt returns, index by index.
LEMMA RemoveAtFacts ==
    ASSUME NEW S, NEW s \in Seq(S), NEW i \in 1..Len(s)
    PROVE  /\ RemoveAt(s, i) \in Seq(S)
           /\ Len(RemoveAt(s, i)) = Len(s) - 1
           /\ \A k \in 1..(Len(s) - 1) : RemoveAt(s, i)[k] = IF k < i THEN s[k] ELSE s[k + 1]
<1> DEFINE a == SubSeq(s, 1, i - 1)
           b == SubSeq(s, i + 1, Len(s))
<1>1. Len(s) \in Nat /\ i \in Int
  OBVIOUS
<1>2. /\ a \in Seq(S) /\ Len(a) = i - 1
      /\ \A k \in 1..(i - 1) : a[k] = s[k]
  BY <1>1, SubSeqProperties
<1>3. /\ b \in Seq(S) /\ Len(b) = Len(s) - i
      /\ \A k \in 1..(Len(s) - i) : b[k] = s[i + k]
  <2>1. \A k \in (i + 1)..Len(s) : s[k] \in S
    BY <1>1
  <2>2. /\ b \in Seq(S)
        /\ Len(b) = IF i + 1 <= Len(s) THEN Len(s) - (i + 1) + 1 ELSE 0
        /\ \A k \in 1..(Len(s) - (i + 1) + 1) : b[k] = s[(i + 1) + k - 1]
    BY <1>1, <2>1, SubSeqProperties
  <2> HIDE DEF b
  <2>3. QED
    BY <1>1, <2>2
<1>4. RemoveAt(s, i) = a \o b
  BY DEF RemoveAt
<1> HIDE DEF a, b
<1>5. /\ a \o b \in Seq(S)
      /\ Len(a \o b) = Len(a) + Len(b)
      /\ \A k \in 1..(Len(a) + Len(b)) : (a \o b)[k] = IF k <= Len(a) THEN a[k] ELSE b[k - Len(a)]
  BY <1>2, <1>3, ConcatProperties
<1>6. ASSUME NEW k \in 1..(Len(s) - 1)
      PROVE  (a \o b)[k] = IF k < i THEN s[k] ELSE s[k + 1]
  <2>1. CASE k < i
    BY <2>1, <1>1, <1>2, <1>3, <1>5
  <2>2. CASE ~(k < i)
    <3>1. k - (i - 1) \in 1..(Len(s) - i) /\ i + (k - (i - 1)) = k + 1 /\ ~(k <= i - 1)
      BY <2>2, <1>1
    <3>2. (a \o b)[k] = b[k - (i - 1)]
      BY <3>1, <1>1, <1>2, <1>3, <1>5
    <3>3. QED
      BY <3>1, <3>2, <1>3, <2>2
  <2>3. QED
    BY <2>1, <2>2
<1>7. QED
  BY <1>1, <1>2, <1>3, <1>4, <1>5, <1>6

\* What InsertAt returns, index by index.
LEMMA InsertAtFacts ==
    ASSUME NEW S, NEW s \in Seq(S), NEW e \in S, NEW i \in 1..(Len(s) + 1)
    PROVE  /\ InsertAt(s, i, e) \in Seq(S)
           /\ Len(InsertAt(s, i, e)) = Len(s) + 1
           /\ \A k \in 1..(Len(s) + 1) :
                 InsertAt(s, i, e)[k] = IF k < i THEN s[k] ELSE IF k = i THEN e ELSE s[k - 1]
<1> DEFINE a == SubSeq(s, 1, i - 1)
           b == SubSeq(s, i, Len(s))
           c == a \o <<e>>
<1>1. Len(s) \in Nat /\ i \in Int
  OBVIOUS
<1>2. /\ a \in Seq(S) /\ Len(a) = i - 1
      /\ \A k \in 1..(i - 1) : a[k] = s[k]
  BY <1>1, SubSeqProperties
<1>3. /\ b \in Seq(S) /\ Len(b) = Len(s) - i + 1
      /\ \A k \in 1..(Len(s) - i + 1) : b[k] = s[i + k - 1]
  BY <1>1, SubSeqProperties
<1>4. InsertAt(s, i, e) = c \o b
  BY DEF InsertAt
<1> HIDE DEF a, b
<1>5. <<e>> \in Seq(S) /\ Len(<<e>>) = 1 /\ <<e>>[1] = e
  OBVIOUS
<1>6. /\ c \in Seq(S) /\ Len(c) = i
      /\ \A k \in 1..i : c[k] = IF k <= i - 1 THEN a[k] ELSE <<e>>[k - (i - 1)]
  BY <1>1, <1>2, <1>5, ConcatProperties
<1> HIDE DEF c
<1>7. /\ c \o b \in Seq(S) /\ Len(c \o b) = Len(s) + 1
      /\ \A k \in 1..(Len(s) + 1) : (c \o b)[k] = IF k <= i THEN c[k] ELSE b[k - i]
  <2>1. /\ c \o b \in Seq(S) /\ Len(c \o b) = Len(c) + Len(b)
        /\ \A k \in 1..(Len(c) + Len(b)) : (c \o b)[k] = IF k <= Len(c) THEN c[k] ELSE b[k - Len(c)]
    BY <1>3, <1>6, ConcatProperties
  <2>2. Len(c) + Len(b) = Len(s) + 1
    BY <1>1, <1>3, <1>6
  <2>3. QED
    BY <2>1, <2>2, <1>6
<1>8. ASSUME NEW k \in 1..(Len(s) + 1)
      PROVE  (c \o b)[k] = IF k < i THEN s[k] ELSE IF k = i THEN e ELSE s[k - 1]
  <2>1. CASE k <= i
    <3>1. k \in 1..i /\ (k <= i - 1 => k \in 1..(i - 1)) /\ (~(k <= i - 1) => k - (i - 1) = 1)
      BY <2>1, <1>1
    <3>2. QED
      BY <2>1, <3>1, <1>1, <1>2, <1>5, <1>6, <1>7
  <2>2. CASE ~(k <= i)
    <3>1. k - i \in 1..(Len(s) - i + 1) /\ i + (k - i) - 1 = k - 1
      BY <2>2, <1>1
    <3>2. QED
      BY <2>2, <3>1, <1>1, <1>3, <1>7
  <2>3. QED
    BY <2>1, <2>2
<1>9. QED
  BY <1>4, <1>7, <1>8

\* The greatest number of a set of numbers up to n.
LEMMA GreatestUpTo ==
    ASSUME NEW n \in Nat, NEW S \in SUBSET (1..n), S # {}
    PROVE  Max(S) \in S /\ \A y \in S : y <= Max(S)
<1> DEFINE D == {n - y : y \in S}
<1>1. D \in SUBSET Nat /\ D # {}
  OBVIOUS
<1>2. PICK d \in D : \A e \in D : d <= e
  <2> HIDE DEF D
  <2>1. QED
    BY <1>1, LeastNat
<1>3. PICK m \in S : d = n - m
  OBVIOUS
<1>4. \A y \in S : m >= y
  <2> TAKE y \in S
  <2>1. n - y \in D
    OBVIOUS
  <2>2. n - m <= n - y
    BY <1>2, <1>3, <2>1
  <2>3. QED
    BY <2>2
<1> HIDE DEF D
<1>5. Max(S) \in S /\ \A y \in S : Max(S) >= y
  BY <1>4 DEF Max
<1>6. QED
  BY <1>5

\* The least number of a set of numbers.
LEMMA LeastIsMin ==
    ASSUME NEW S \in SUBSET Nat, S # {}
    PROVE  Min(S) \in S /\ \A y \in S : Min(S) <= y
<1>1. PICK m \in S : \A y \in S : m <= y
  BY LeastNat
<1>2. QED
  BY <1>1 DEF Min

\* FoldLeft computes its value from those of the subsets of a sequence's domain, each
\* from that of the set without its greatest number.
Folds(g, n, base, step) ==
    \A S \in SUBSET (1..n) : g[S] = IF S = {} THEN base ELSE step[Max(S)][g[S \ {Max(S)}]]

\* The recursive function inside MapThenFoldSet, which the folds take by CHOOSE, exists.
LEMMA FoldExists ==
    ASSUME NEW n \in Nat, NEW V, NEW base \in V, NEW step \in [1..n -> [V -> V]]
    PROVE  \E g \in [SUBSET (1..n) -> V] : Folds(g, n, base, step)
<1> DEFINE Good(m, g) == \A S \in SUBSET (1..m) :
              g[S] = IF S = {} THEN base ELSE step[Max(S)][g[S \ {Max(S)}]]
           T == {m \in 0..n : \E g \in [SUBSET (1..m) -> V] : Good(m, g)}
<1>1. 0 \in T
  <2> DEFINE g == [S \in SUBSET (1..0) |-> base]
  <2>1. g \in [SUBSET (1..0) -> V] /\ \A S \in SUBSET (1..0) : S = {}
    OBVIOUS
  <2>2. Good(0, g)
    BY <2>1
  <2>3. 0 \in 0..n
    OBVIOUS
  <2> HIDE DEF g
  <2>4. QED
    BY <2>1, <2>2, <2>3
<1>2. ASSUME NEW k \in 0..(n - 1), k \in T PROVE k + 1 \in T
  <2> DEFINE m == k + 1
  <2>1. PICK h \in [SUBSET (1..k) -> V] : Good(k, h)
    BY <1>2
  <2> DEFINE g == [S \in SUBSET (1..m) |-> IF m \in S THEN step[m][h[S \ {m}]] ELSE h[S]]
  <2>2. m \in 1..n /\ m \in 0..n /\ 1..k \subseteq 1..m /\ m \notin 1..k /\ m \in 1..m /\ m \in Nat
    OBVIOUS
  <2>3. \A S \in SUBSET (1..m) : S \ {m} \in SUBSET (1..k) /\ (m \notin S => S \in SUBSET (1..k))
    BY <2>2
  <2>4. step[m] \in [V -> V]
    BY <2>2
  <2>5. g \in [SUBSET (1..m) -> V]
    BY <2>3, <2>4
  <2>6. \A S \in SUBSET (1..m) : g[S] = IF m \in S THEN step[m][h[S \ {m}]] ELSE h[S]
    OBVIOUS
  <2> HIDE DEF g
  <2>7. ASSUME NEW S \in SUBSET (1..m)
        PROVE  g[S] = IF S = {} THEN base ELSE step[Max(S)][g[S \ {Max(S)}]]
    <3>1. CASE m \in S
      <4>1. Max(S) = m
        <5>1. m \in Nat /\ S # {}
          BY <2>2, <3>1
        <5> HIDE DEF m
        <5>2. Max(S) \in S /\ \A y \in S : y <= Max(S)
          BY <5>1, GreatestUpTo
        <5>3. Max(S) \in 1..m /\ m <= Max(S)
          BY <5>2, <3>1
        <5>4. QED
          BY <5>1, <5>3
      <4>2. S \ {m} \in SUBSET (1..m) /\ m \notin S \ {m}
        OBVIOUS
      <4>3. g[S \ {m}] = h[S \ {m}]
        BY <4>2, <2>6
      <4>4. QED
        BY <3>1, <4>1, <4>3, <2>6
    <3>2. CASE m \notin S
      <4>1. S \in SUBSET (1..k) /\ g[S] = h[S]
        BY <3>2, <2>3, <2>6
      <4>2. ASSUME S # {} PROVE g[S \ {Max(S)}] = h[S \ {Max(S)}]
        <5>1. S \ {Max(S)} \in SUBSET (1..m) /\ m \notin S \ {Max(S)}
          BY <3>2
        <5>2. QED
          BY <5>1, <2>6
      <4>3. h[S] = IF S = {} THEN base ELSE step[Max(S)][h[S \ {Max(S)}]]
        BY <4>1, <2>1
      <4>4. QED
        BY <4>1, <4>2, <4>3
    <3>3. QED
      BY <3>1, <3>2
  <2>8. QED
    BY <2>2, <2>5, <2>7
<1>3. 0..n \subseteq T
  <2> HIDE DEF T
  <2>1. QED
    BY <1>1, <1>2, UpTo
<1>4. n \in 0..n
  OBVIOUS
<1>5. QED
  BY <1>3, <1>4 DEF Folds

\* What such a function takes from 1..k first is k, and 1..(k - 1) is left.
LEMMA UpToFacts ==
    ASSUME NEW n \in Nat, NEW k \in 1..n
    PROVE  /\ 1..k \in SUBSET (1..n) /\ 1..k # {}
           /\ Max(1..k) = k /\ (1..k) \ {k} = 1..(k - 1)
<1>1. k \in 1..k /\ 1..k \subseteq 1..n
  OBVIOUS
<1>2. Max(1..k) \in 1..k /\ k <= Max(1..k)
  BY <1>1, GreatestUpTo
<1>3. Max(1..k) = k /\ (1..k) \ {k} = 1..(k - 1)
  BY <1>2
<1>4. QED
  BY <1>1, <1>3

\* What holds at first and is kept by each step holds in the end.
LEMMA FoldFollows ==
    ASSUME NEW n \in Nat, NEW V, NEW T, NEW f, f[{}] \in V, f[{}] \in T[0],
           \A k \in 1..n : f[1..(k - 1)] \in V /\ f[1..(k - 1)] \in T[k - 1]
                              => f[1..k] \in V /\ f[1..k] \in T[k]
    PROVE  f[1..n] \in V /\ f[1..n] \in T[n]
<1> DEFINE G == {k \in 0..n : f[1..k] \in V /\ f[1..k] \in T[k]}
<1>1. 0 \in G
  <2>1. 1..0 = {}
    OBVIOUS
  <2>2. QED
    BY <2>1
<1>2. ASSUME NEW k \in 0..(n - 1), k \in G PROVE k + 1 \in G
  <2> DEFINE m == k + 1
  <2>1. m \in 1..n /\ m \in 0..n /\ m - 1 = k
    OBVIOUS
  <2>2. f[1..k] \in V /\ f[1..k] \in T[k]
    BY <1>2
  <2> HIDE DEF m
  <2>3. f[1..m] \in V /\ f[1..m] \in T[m]
    BY <2>1, <2>2
  <2>4. QED
    BY <2>1, <2>3 DEF m
<1>3. 0..n \subseteq G
  <2> HIDE DEF G
  <2>1. QED
    BY <1>1, <1>2, UpTo
<1>4. QED
  BY <1>3

\* A function of the subsets of 1..n that takes the steps of a fold, all within V.
Within(h, n, base, V, step) ==
    /\ h[{}] = base
    /\ \A D \in SUBSET (1..n) : D # {} =>
          /\ Max(D) \in 1..n /\ D \ {Max(D)} \in SUBSET (1..n)
          /\ h[D \ {Max(D)}] \in V /\ h[D] = step[Max(D)][h[D \ {Max(D)}]]

\* There is one.
LEMMA FoldRuns ==
    ASSUME NEW n \in Nat, NEW V, NEW base \in V, NEW step \in [1..n -> [V -> V]]
    PROVE  \E h \in [SUBSET (1..n) -> V] : Within(h, n, base, V, step)
<1>1. PICK h \in [SUBSET (1..n) -> V] : Folds(h, n, base, step)
  BY FoldExists
<1>2. \A D \in SUBSET (1..n) : D # {} => Max(D) \in 1..n /\ D \ {Max(D)} \in SUBSET (1..n)
  BY GreatestUpTo
<1>3. Within(h, n, base, V, step)
  BY <1>1, <1>2 DEF Folds, Within
<1>4. QED
  BY <1>3

\* The function f of the subsets of 1..n takes the steps of a fold as far as it stays in V.
Runs(f, n, base, V, step) ==
    /\ f[{}] = base
    /\ \A D \in SUBSET (1..n) : D # {} /\ f[D \ {Max(D)}] \in V
                                  => f[D] = step[Max(D)][f[D \ {Max(D)}]]

\* A loop whose passes keep to V, the k-th leading from T[k - 1] to T[k].
LEMMA LoopFollows ==
    ASSUME NEW n \in Nat, NEW V, NEW base \in V, NEW step \in [1..n -> [V -> V]],
           NEW T, base \in T[0],
           \A k \in 1..n : \A v \in V : v \in T[k - 1] => step[k][v] \in T[k],
           NEW f, Runs(f, n, base, V, step)
    PROVE  f[1..n] \in V \intersect T[n]
<1>1. f[{}] = base
  BY DEF Runs
<1>2. ASSUME NEW k \in 1..n, f[1..(k - 1)] \in V, f[1..(k - 1)] \in T[k - 1]
      PROVE  f[1..k] \in V /\ f[1..k] \in T[k]
  <2>1. 1..k \in SUBSET (1..n) /\ 1..k # {} /\ Max(1..k) = k /\ (1..k) \ {k} = 1..(k - 1)
    BY UpToFacts
  <2>2. f[1..k] = step[k][f[1..(k - 1)]]
    BY <1>2, <2>1 DEF Runs
  <2>3. QED
    BY <1>2, <2>2
<1>3. QED
  BY <1>1, <1>2, FoldFollows

-----------------------------------------------------------------------------
(* The elements of sequences, and sequences that hold each element once.    *)

\* A sequence, its length, its elements and its ends.
LEMMA ElementsFacts ==
    ASSUME NEW S, NEW q \in Seq(S)
    PROVE  /\ Len(q) \in Nat /\ DOMAIN q = 1..Len(q)
           /\ ToSet(q) \subseteq S
           /\ q = <<>> <=> Len(q) = 0
           /\ q = <<>> <=> ToSet(q) = {}
           /\ \A i \in 1..Len(q) : q[i] \in S /\ q[i] \in ToSet(q)
           /\ \A x \in ToSet(q) : \E i \in 1..Len(q) : q[i] = x
           /\ \A x : Contains(q, x) <=> x \in ToSet(q)
           /\ q # <<>> => Head(q) = q[1] /\ Last(q) = q[Len(q)] /\ Head(q) \in ToSet(q)
                          /\ Last(q) \in ToSet(q)
<1>1. Len(q) \in Nat /\ DOMAIN q = 1..Len(q) /\ q \in [1..Len(q) -> S]
  OBVIOUS
<1>2. q = <<>> <=> Len(q) = 0
  BY EmptySeq
<1>3. q # <<>> => Head(q) = q[1] /\ 1 \in 1..Len(q) /\ Len(q) \in 1..Len(q)
  BY <1>1, <1>2
<1>4. /\ \A i \in 1..Len(q) : q[i] \in S /\ q[i] \in ToSet(q)
      /\ \A x \in ToSet(q) : \E i \in 1..Len(q) : q[i] = x
  BY <1>1 DEF ToSet
<1>5. ToSet(q) \subseteq S
  BY <1>4
<1>6. \A x : Contains(q, x) <=> x \in ToSet(q)
  BY <1>4 DEF Contains
<1>7. q = <<>> <=> ToSet(q) = {}
  <2>1. CASE q = <<>>
    BY <2>1, <1>1, <1>2, <1>4
  <2>2. CASE q # <<>>
    BY <2>2, <1>3, <1>4
  <2>3. QED
    BY <2>1, <2>2
<1>8. q # <<>> => Head(q) = q[1] /\ Last(q) = q[Len(q)] /\ Head(q) \in ToSet(q) /\ Last(q) \in ToSet(q)
  BY <1>3, <1>4 DEF Last
<1>9. QED
  BY <1>1, <1>2, <1>4, <1>5, <1>6, <1>7, <1>8

\* An element added at the end.
LEMMA AppendFacts ==
    ASSUME NEW S, NEW q \in Seq(S), NEW x \in S
    PROVE  /\ Append(q, x) \in Seq(S) /\ Append(q, x) # <<>>
           /\ ToSet(Append(q, x)) = ToSet(q) \union {x}
           /\ Last(Append(q, x)) = x
           /\ IsInjective(q) /\ x \notin ToSet(q) => IsInjective(Append(q, x))
<1> DEFINE n == Len(q)
           a == Append(q, x)
<1>1. n \in Nat /\ DOMAIN q = 1..n
  OBVIOUS
<1>2. /\ a \in Seq(S) /\ Len(a) = n + 1 /\ DOMAIN a = 1..(n + 1)
      /\ a[n + 1] = x /\ \A i \in 1..n : a[i] = q[i]
  BY AppendProperties
<1> HIDE DEF a
<1>3. n + 1 \in 1..(n + 1) /\ \A i \in 1..(n + 1) : (i = n + 1 \/ i \in 1..n)
  BY <1>1
<1>4. \A i \in 1..n : i \in 1..(n + 1) /\ i # n + 1
  BY <1>1
<1> HIDE DEF n
<1>5. ToSet(a) = ToSet(q) \union {x}
  BY <1>1, <1>2, <1>3, <1>4 DEF ToSet
<1>6. ASSUME IsInjective(q), x \notin ToSet(q) PROVE IsInjective(a)
  <2>1. \A i \in 1..n : q[i] # x
    BY <1>1, <1>6 DEF ToSet
  <2>2. QED
    BY <2>1, <1>1, <1>2, <1>3, <1>6 DEF IsInjective
<1>7. a # <<>> /\ Last(a) = x
  BY <1>2, <1>1 DEF n, Last
<1>8. QED
  BY <1>2, <1>5, <1>6, <1>7 DEF a

\* A part of a sequence.
LEMMA PartFacts ==
    ASSUME NEW S, NEW q \in Seq(S), NEW i \in 1..(Len(q) + 1), NEW j \in 0..Len(q)
    PROVE  /\ SubSeq(q, i, j) \in Seq(S)
           /\ ToSet(SubSeq(q, i, j)) = {q[k] : k \in i..j}
           /\ ToSet(SubSeq(q, i, j)) \subseteq ToSet(q)
           /\ SubSeq(q, i, j) = <<>> <=> j < i
           /\ IsInjective(q) => IsInjective(SubSeq(q, i, j))
<1> DEFINE a == SubSeq(q, i, j)
           m == IF i <= j THEN j - i + 1 ELSE 0
<1>1. Len(q) \in Nat /\ DOMAIN q = 1..Len(q) /\ i \in Int /\ j \in Int /\ i..j \subseteq 1..Len(q)
  OBVIOUS
<1>2. \A k \in i..j : q[k] \in S
  BY <1>1
<1>3. /\ a \in Seq(S) /\ Len(a) = m
      /\ \A k \in 1..(j - i + 1) : a[k] = q[i + k - 1]
  BY <1>1, <1>2, SubSeqProperties
<1> HIDE DEF a
<1>4. m \in Nat /\ DOMAIN a = 1..m /\ 1..m = 1..(j - i + 1)
  BY <1>1, <1>3
<1>5. /\ \A k \in 1..m : i + k - 1 \in i..j /\ a[k] = q[i + k - 1]
      /\ \A k \in i..j : k - i + 1 \in 1..m /\ i + (k - i + 1) - 1 = k
  BY <1>1, <1>3, <1>4
<1>6. ToSet(a) = {q[k] : k \in i..j}
  <2> HIDE DEF m
  <2>1. ASSUME NEW y \in ToSet(a) PROVE y \in {q[k] : k \in i..j}
    <3>1. PICK k \in 1..m : a[k] = y
      BY <1>4 DEF ToSet
    <3>2. QED
      BY <3>1, <1>5
  <2>2. ASSUME NEW k \in i..j PROVE q[k] \in ToSet(a)
    <3>1. k - i + 1 \in 1..m /\ a[k - i + 1] = q[k]
      BY <1>5
    <3>2. QED
      BY <3>1, <1>4 DEF ToSet
  <2>3. QED
    BY <2>1, <2>2
<1>7. ToSet(a) \subseteq ToSet(q)
  BY <1>1, <1>6 DEF ToSet
<1>8. a = <<>> <=> j < i
  BY <1>1, <1>3, EmptySeq
<1>9. ASSUME IsInjective(q) PROVE IsInjective(a)
  <2> SUFFICES ASSUME NEW k \in 1..m, NEW l \in 1..m, a[k] = a[l] PROVE k = l
    BY <1>4 DEF IsInjective
  <2>1. i + k - 1 \in 1..Len(q) /\ i + l - 1 \in 1..Len(q)
    BY <1>1, <1>5
  <2>2. i + k - 1 = i + l - 1
    BY <2>1, <1>1, <1>5, <1>9 DEF IsInjective
  <2>3. QED
    BY <2>2, <1>1
<1>10. QED
  BY <1>3, <1>6, <1>7, <1>8, <1>9 DEF a

\* The first element taken away.
LEMMA TailFacts ==
    ASSUME NEW S, NEW q \in Seq(S), q # <<>>
    PROVE  /\ Head(q) \in S /\ Tail(q) \in Seq(S)
           /\ ToSet(q) = ToSet(Tail(q)) \union {Head(q)}
           /\ IsInjective(q) => IsInjective(Tail(q)) /\ Head(q) \notin ToSet(Tail(q))
<1>1. /\ Len(q) \in Nat /\ Len(q) >= 1 /\ DOMAIN q = 1..Len(q) /\ Head(q) = q[1]
      /\ 2 \in 1..(Len(q) + 1) /\ Len(q) \in 0..Len(q)
  BY ElementsFacts
<1>2. Tail(q) = SubSeq(q, 2, Len(q))
  BY TailIsSubSeq
<1>3. /\ Tail(q) \in Seq(S) /\ ToSet(Tail(q)) = {q[k] : k \in 2..Len(q)}
      /\ IsInjective(q) => IsInjective(Tail(q))
  <2> DEFINE i == 2
             j == Len(q)
  <2>1. i \in 1..(Len(q) + 1) /\ j \in 0..Len(q) /\ Tail(q) = SubSeq(q, i, j)
    BY <1>1, <1>2
  <2> HIDE DEF i, j
  <2> DEFINE a == SubSeq(q, i, j)
  <2>2. /\ a \in Seq(S) /\ ToSet(a) = {q[k] : k \in i..j}
        /\ IsInjective(q) => IsInjective(a)
    <3>1. i \in 1..(Len(q) + 1) /\ j \in 0..Len(q)
      BY <2>1
    <3>2. QED
      BY <3>1, PartFacts
  <2>3. Tail(q) = a
    BY <2>1
  <2> HIDE DEF a
  <2>4. QED
    BY <2>2, <2>3 DEF i, j
<1>4. 1..Len(q) = {1} \union 2..Len(q) /\ 1 \notin 2..Len(q) /\ 1 \in 1..Len(q)
  BY <1>1
<1>5. ToSet(q) = ToSet(Tail(q)) \union {Head(q)}
  BY <1>1, <1>3, <1>4 DEF ToSet
<1>6. ASSUME IsInjective(q) PROVE Head(q) \notin ToSet(Tail(q))
  BY <1>1, <1>3, <1>4, <1>6 DEF IsInjective
<1>7. QED
  BY <1>1, <1>3, <1>5, <1>6, ElementsFacts

\* The last element taken away.
LEMMA FrontFacts ==
    ASSUME NEW S, NEW q \in Seq(S), q # <<>>
    PROVE  /\ Front(q) \in Seq(S) /\ Last(q) \in S
           /\ ToSet(q) = ToSet(Front(q)) \union {Last(q)}
           /\ IsInjective(q) => IsInjective(Front(q)) /\ Last(q) \notin ToSet(Front(q))
<1> DEFINE n == Len(q)
<1>1. /\ n \in Nat /\ n >= 1 /\ DOMAIN q = 1..n /\ Last(q) = q[n]
      /\ 1 \in 1..(n + 1) /\ n - 1 \in 0..n
  BY ElementsFacts
<1>2. Front(q) = SubSeq(q, 1, n - 1)
  BY DEF Front
<1>3. /\ Front(q) \in Seq(S) /\ ToSet(Front(q)) = {q[k] : k \in 1..(n - 1)}
      /\ IsInjective(q) => IsInjective(Front(q))
  BY <1>1, <1>2, PartFacts
<1>4. 1..n = 1..(n - 1) \union {n} /\ n \notin 1..(n - 1) /\ n \in 1..n
  BY <1>1
<1> HIDE DEF n
<1>5. ToSet(q) = ToSet(Front(q)) \union {Last(q)}
  BY <1>1, <1>3, <1>4 DEF ToSet
<1>6. ASSUME IsInjective(q) PROVE Last(q) \notin ToSet(Front(q))
  BY <1>1, <1>3, <1>4, <1>6 DEF IsInjective
<1>7. QED
  BY <1>1, <1>3, <1>5, <1>6, ElementsFacts

\* The elements of two sequences put together.
LEMMA ConcatFacts ==
    ASSUME NEW S, NEW p \in Seq(S), NEW q \in Seq(S)
    PROVE  p \o q \in Seq(S) /\ ToSet(p \o q) = ToSet(p) \union ToSet(q)
<1> DEFINE m == Len(p)
           n == Len(q)
           a == p \o q
<1>1. m \in Nat /\ n \in Nat /\ DOMAIN p = 1..m /\ DOMAIN q = 1..n
  OBVIOUS
<1>2. /\ a \in Seq(S) /\ Len(a) = m + n
      /\ \A i \in 1..(m + n) : a[i] = IF i <= m THEN p[i] ELSE q[i - m]
  BY ConcatProperties
<1> HIDE DEF a, m, n
<1>3. DOMAIN a = 1..(m + n)
  BY <1>1, <1>2, ElementsFacts
<1>4. /\ \A i \in 1..(m + n) : IF i <= m THEN i \in 1..m /\ a[i] = p[i]
                                ELSE i - m \in 1..n /\ a[i] = q[i - m]
      /\ \A i \in 1..m : i \in 1..(m + n) /\ a[i] = p[i]
      /\ \A i \in 1..n : i + m \in 1..(m + n) /\ a[i + m] = q[i]
  <2>1. \A i \in 1..n : i + m \in 1..(m + n) /\ ~(i + m <= m) /\ (i + m) - m = i
    BY <1>1
  <2>2. \A i \in 1..(m + n) : IF i <= m THEN i \in 1..m ELSE i - m \in 1..n
    BY <1>1
  <2>3. \A i \in 1..m : i \in 1..(m + n) /\ i <= m
    BY <1>1
  <2>4. QED
    BY <1>2, <2>1, <2>2, <2>3
<1>5. /\ ToSet(a) = {a[i] : i \in 1..(m + n)} /\ ToSet(p) = {p[i] : i \in 1..m}
      /\ ToSet(q) = {q[i] : i \in 1..n}
  BY <1>1, <1>3 DEF ToSet
<1>6. ASSUME NEW y \in ToSet(a) PROVE y \in ToSet(p) \union ToSet(q)
  BY <1>4, <1>5
<1>7. ASSUME NEW y \in ToSet(p) PROVE y \in ToSet(a)
  BY <1>4, <1>5
<1>8. ASSUME NEW y \in ToSet(q) PROVE y \in ToSet(a)
  BY <1>4, <1>5
<1>9. QED
  BY <1>2, <1>6, <1>7, <1>8 DEF a

\* An element added at the front.
LEMMA ConsFacts ==
    ASSUME NEW S, NEW q \in Seq(S), NEW x \in S
    PROVE  /\ <<x>> \o q \in Seq(S) /\ <<x>> \o q # <<>> /\ Head(<<x>> \o q) = x
           /\ ToSet(<<x>> \o q) = ToSet(q) \union {x}
           /\ IsInjective(q) /\ x \notin ToSet(q) => IsInjective(<<x>> \o q)
<1> DEFINE n == Len(q)
           a == <<x>> \o q
<1>1. n \in Nat /\ DOMAIN q = 1..n
  OBVIOUS
<1>2. <<x>> \in Seq(S) /\ Len(<<x>>) = 1 /\ <<x>>[1] = x
  OBVIOUS
<1>3. /\ a \in Seq(S) /\ Len(a) = 1 + n
      /\ \A i \in 1..(1 + n) : a[i] = IF i <= 1 THEN <<x>>[i] ELSE q[i - 1]
  BY <1>2, ConcatProperties
<1> HIDE DEF a, n
<1>4. DOMAIN a = 1..(1 + n) /\ a # <<>> /\ Head(a) = a[1]
  BY <1>1, <1>3, ElementsFacts
<1>5. /\ 1 \in 1..(1 + n) /\ a[1] = x
      /\ \A i \in 1..(1 + n) : i # 1 => i - 1 \in 1..n /\ a[i] = q[i - 1]
      /\ \A i \in 1..n : i + 1 \in 1..(1 + n) /\ i + 1 # 1 /\ a[i + 1] = q[i]
  BY <1>1, <1>2, <1>3
<1>6. ToSet(a) = ToSet(q) \union {x}
  <2>1. ASSUME NEW y \in ToSet(a) PROVE y \in ToSet(q) \union {x}
    <3>1. PICK i \in 1..(1 + n) : a[i] = y
      BY <1>4 DEF ToSet
    <3>2. CASE i # 1
      <4>1. i - 1 \in 1..n /\ q[i - 1] = y
        BY <3>1, <3>2, <1>5
      <4>2. QED
        BY <4>1, <1>1 DEF ToSet
    <3>3. QED
      BY <3>1, <3>2, <1>5
  <2>2. \A y \in ToSet(q) \union {x} : y \in ToSet(a)
    BY <1>1, <1>4, <1>5, SMTT(20) DEF ToSet
  <2>3. QED
    BY <2>1, <2>2
<1>7. ASSUME IsInjective(q), x \notin ToSet(q) PROVE IsInjective(a)
  <2> SUFFICES ASSUME NEW i \in 1..(1 + n), NEW j \in 1..(1 + n), a[i] = a[j] PROVE i = j
    BY <1>4 DEF IsInjective
  <2>1. \A k \in 1..n : q[k] # x
    BY <1>1, <1>7 DEF ToSet
  <2>2. i = 1 <=> j = 1
    BY <1>5, <2>1
  <2>3. CASE i # 1
    <3>1. /\ i - 1 \in 1..n /\ a[i] = q[i - 1]
          /\ j - 1 \in 1..n /\ a[j] = q[j - 1]
      BY <2>2, <2>3, <1>5
    <3>2. i - 1 = j - 1
      BY <3>1, <1>1, <1>7 DEF IsInjective
    <3>3. QED
      BY <3>2, <1>1
  <2>4. QED
    BY <2>2, <2>3
<1>8. QED
  BY <1>3, <1>4, <1>5, <1>6, <1>7 DEF a

\* The reverse of a sequence has its elements.
LEMMA ReverseFacts ==
    ASSUME NEW S, NEW q \in Seq(S)
    PROVE  Reverse(q) \in Seq(S) /\ ToSet(Reverse(q)) = ToSet(q)
<1> DEFINE n == Len(q)
           r == Reverse(q)
<1>1. n \in Nat /\ DOMAIN q = 1..n /\ \A i \in 1..n : q[i] \in S
  OBVIOUS
<1>2. r = [i \in 1..n |-> q[(n - i) + 1]]
  BY DEF Reverse
<1> HIDE DEF r, n
<1>3. \A i \in 1..n : (n - i) + 1 \in 1..n /\ (n - ((n - i) + 1)) + 1 = i
  BY <1>1
<1>4. r \in [1..n -> S] /\ DOMAIN r = 1..n /\ \A i \in 1..n : r[i] = q[(n - i) + 1]
  BY <1>1, <1>2, <1>3
<1>5. r \in Seq(S)
  BY <1>1, <1>4
<1>6. ToSet(r) = ToSet(q)
  <2>1. \A y \in ToSet(r) : y \in ToSet(q)
    BY <1>1, <1>3, <1>4 DEF ToSet
  <2>2. \A y \in ToSet(q) : y \in ToSet(r)
    <3> SUFFICES ASSUME NEW i \in 1..n PROVE q[i] \in ToSet(r)
      BY <1>1 DEF ToSet
    <3>1. r[(n - i) + 1] = q[i] /\ (n - i) + 1 \in 1..n
      BY <1>3, <1>4
    <3>2. QED
      BY <3>1, <1>4 DEF ToSet
  <2>3. QED
    BY <2>1, <2>2
<1>7. QED
  BY <1>5, <1>6 DEF r

\* The elements left when one is removed.
LEMMA RemovedFacts ==
    ASSUME NEW S, NEW q \in Seq(S), NEW i \in 1..Len(q)
    PROVE  /\ RemoveAt(q, i) \in Seq(S)
           /\ ToSet(RemoveAt(q, i)) \subseteq ToSet(q)
           /\ ToSet(q) = ToSet(RemoveAt(q, i)) \union {q[i]}
<1> DEFINE n == Len(q)
           r == RemoveAt(q, i)
<1>1. n \in Nat /\ DOMAIN q = 1..n /\ i \in 1..n
  OBVIOUS
<1>2. r \in Seq(S) /\ Len(r) = n - 1 /\ \A k \in 1..(n - 1) : r[k] = IF k < i THEN q[k] ELSE q[k + 1]
  BY RemoveAtFacts
<1> HIDE DEF r, n
<1>3. DOMAIN r = 1..(n - 1)
  BY <1>1, <1>2, ElementsFacts
<1>4. /\ \A k \in 1..(n - 1) : k \in 1..n /\ k + 1 \in 1..n
      /\ \A k \in 1..n : k < i => k \in 1..(n - 1)
      /\ \A k \in 1..n : k > i => k - 1 \in 1..(n - 1) /\ ~(k - 1 < i) /\ (k - 1) + 1 = k
  BY <1>1
<1>5. ASSUME NEW y \in ToSet(r) PROVE y \in ToSet(q)
  <2>1. PICK k \in 1..(n - 1) : r[k] = y
    BY <1>3 DEF ToSet
  <2>2. y = IF k < i THEN q[k] ELSE q[k + 1]
    BY <2>1, <1>2
  <2>3. QED
    BY <2>2, <1>1, <1>4 DEF ToSet
<1>6. \A k \in 1..n : k # i => q[k] \in ToSet(r)
  <2> TAKE k \in 1..n
  <2> HAVE k # i
  <2>1. CASE k < i
    BY <2>1, <1>2, <1>3, <1>4 DEF ToSet
  <2>2. CASE k > i
    <3>1. r[k - 1] = q[k] /\ k - 1 \in 1..(n - 1)
      BY <2>2, <1>2, <1>4
    <3>2. QED
      BY <3>1, <1>3 DEF ToSet
  <2>3. QED
    BY <2>1, <2>2, <1>1
<1>7. q[i] \in ToSet(q)
  BY <1>1 DEF ToSet
<1>8. ToSet(q) = ToSet(r) \union {q[i]}
  BY <1>1, <1>5, <1>6, <1>7 DEF ToSet
<1>9. QED
  BY <1>2, <1>5, <1>8 DEF r

\* The elements once one is inserted.
LEMMA InsertedFacts ==
    ASSUME NEW S, NEW q \in Seq(S), NEW e \in S, NEW i \in 1..(Len(q) + 1)
    PROVE  /\ InsertAt(q, i, e) \in Seq(S)
           /\ ToSet(InsertAt(q, i, e)) = ToSet(q) \union {e}
           /\ IsInjective(q) /\ e \notin ToSet(q) => IsInjective(InsertAt(q, i, e))
<1> DEFINE n == Len(q)
           r == InsertAt(q, i, e)
<1>1. n \in Nat /\ DOMAIN q = 1..n /\ i \in 1..(n + 1)
  OBVIOUS
<1>2. /\ r \in Seq(S) /\ Len(r) = n + 1
      /\ \A k \in 1..(n + 1) : r[k] = IF k < i THEN q[k] ELSE IF k = i THEN e ELSE q[k - 1]
  BY InsertAtFacts
<1> HIDE DEF r, n
<1>3. DOMAIN r = 1..(n + 1)
  BY <1>1, <1>2, ElementsFacts
<1> DEFINE from(k) == IF k < i THEN k ELSE k - 1
           to(k) == IF k < i THEN k ELSE k + 1
<1>4. /\ \A k \in 1..(n + 1) : k # i => from(k) \in 1..n /\ r[k] = q[from(k)]
      /\ \A k \in 1..n : to(k) \in 1..(n + 1) /\ to(k) # i /\ from(to(k)) = k
      /\ \A k, l \in 1..(n + 1) : k # i /\ l # i /\ from(k) = from(l) => k = l
      /\ r[i] = e
  BY <1>1, <1>2
<1> HIDE DEF from, to
<1>5. \A y \in ToSet(r) : y \in ToSet(q) \union {e}
  BY <1>1, <1>3, <1>4 DEF ToSet
<1>6. \A y \in ToSet(q) \union {e} : y \in ToSet(r)
  <2>1. \A k \in 1..n : r[to(k)] = q[k]
    BY <1>4
  <2>2. QED
    BY <2>1, <1>1, <1>3, <1>4 DEF ToSet
<1>7. ASSUME IsInjective(q), e \notin ToSet(q) PROVE IsInjective(r)
  <2>1. \A k \in 1..(n + 1) : k # i => r[k] # e
    BY <1>1, <1>4, <1>7 DEF ToSet
  <2>2. \A k, l \in 1..(n + 1) : k # i /\ l # i /\ r[k] = r[l] => from(k) = from(l)
    BY <1>1, <1>4, <1>7 DEF IsInjective
  <2>3. QED
    BY <2>1, <2>2, <1>1, <1>3, <1>4 DEF IsInjective
<1>8. QED
  BY <1>2, <1>5, <1>6, <1>7 DEF r

\* std::list::remove()
Remaining(base, s, y) == FoldLeft(LAMBDA kept, x : IF x = y THEN kept ELSE Append(kept, x), base, s)

\* Its loop: if every pass keeps to V, and the k-th leads from T[k - 1] to T[k].
LEMMA RemainingLoop ==
    ASSUME NEW V, NEW base \in V, NEW S, NEW s \in Seq(S), NEW y,
           \A v \in V, x \in ToSet(s) : (IF x = y THEN v ELSE Append(v, x)) \in V,
           NEW T, base \in T[0],
           \A k \in 1..Len(s) : \A v \in V : v \in T[k - 1] => (IF s[k] = y THEN v
                         ELSE Append(v, s[k])) \in T[k]
    PROVE  Remaining(base, s, y) \in V \intersect T[Len(s)]
<1> DEFINE n == Len(s)
           Is(g) == g = [D \in SUBSET DOMAIN s |-> IF D = {} THEN base
                           ELSE (IF s[Max(D)] = y THEN g[D \ {Max(D)}]
                                         ELSE Append(g[D \ {Max(D)}], s[Max(D)]))]
           step == [k \in 1..n |-> [v \in V |-> (IF s[k] = y THEN v ELSE Append(v, s[k]))]]
           f == CHOOSE g : Is(g)
<1>1. n \in Nat /\ DOMAIN s = 1..n /\ \A k \in 1..n : s[k] \in ToSet(s)
  BY ElementsFacts
<1>2. Remaining(base, s, y) = f[1..n]
  BY <1>1 DEF FoldLeft, MapThenFoldSet, Remaining
<1>3. step \in [1..n -> [V -> V]] /\ \A k \in 1..n, v \in V : step[k][v] = (IF s[k] = y
              THEN v ELSE Append(v, s[k]))
  BY <1>1
<1> HIDE DEF step, f
<1>4. PICK h \in [SUBSET (1..n) -> V] : Within(h, n, base, V, step)
  BY <1>1, <1>3, FoldRuns
<1>5. Is(h)
  <2>1. \A D \in SUBSET (1..n) : D # {}
              => h[D] = (IF s[Max(D)] = y
               THEN h[D \ {Max(D)}] ELSE Append(h[D \ {Max(D)}], s[Max(D)]))
    BY <1>3, <1>4 DEF Within
  <2>2. QED
    BY <2>1, <1>1, <1>4 DEF Within
<1>6. Is(f)
  BY <1>5 DEF f
<1>7. Runs(f, n, base, V, step)
  <2>1. f[{}] = base /\ \A D \in SUBSET (1..n) : D # {}
              => f[D] = (IF s[Max(D)] = y
               THEN f[D \ {Max(D)}] ELSE Append(f[D \ {Max(D)}], s[Max(D)]))
    BY <1>1, <1>6
  <2>2. \A D \in SUBSET (1..n) : D # {} => Max(D) \in 1..n
    BY <1>4 DEF Within
  <2>3. QED
    BY <2>1, <2>2, <1>3 DEF Runs
<1>8. \A k \in 1..n : \A v \in V : v \in T[k - 1] => step[k][v] \in T[k]
  BY <1>1, <1>3
<1> HIDE DEF Is, n
<1>9. f[1..n] \in V \intersect T[n]
  BY <1>1, <1>3, <1>7, <1>8, LoopFollows
<1>10. QED
  BY <1>2, <1>9 DEF n

\* What the loop leaves.
LEMMA RemainingFacts ==
    ASSUME NEW S, NEW s \in Seq(S), NEW y
    PROVE  LET r == Remaining(<<>>, s, y)
           IN /\ r \in Seq(S) /\ ToSet(r) = ToSet(s) \ {y}
              /\ IsInjective(s) => IsInjective(r)
<1> DEFINE n == Len(s)
           V == Seq(S)
           to(k) == {s[j] : j \in 1..k}
           T == [k \in 0..n |-> {r \in V : /\ ToSet(r) = to(k) \ {y}
                                           /\ IsInjective(s) => IsInjective(r)}]
<1>1. n \in Nat /\ DOMAIN s = 1..n /\ \A k \in 1..n : s[k] \in S
  OBVIOUS
<1>2. to(0) = {} /\ to(n) = ToSet(s) /\ \A k \in 1..n : to(k) = to(k - 1) \union {s[k]}
  <2>1. \A k \in 1..n : 1..k = 1..(k - 1) \union {k}
    BY <1>1
  <2>2. QED
    BY <1>1, <2>1 DEF ToSet
<1>3. ASSUME NEW k \in 1..n PROVE IsInjective(s) => s[k] \notin to(k - 1)
  BY <1>1, <1>3 DEF IsInjective
<1> HIDE DEF to
<1>4. <<>> \in V /\ <<>> \in T[0]
  <2>1. <<>> \in V /\ ToSet(<<>>) = {} /\ IsInjective(<<>>)
    BY DEF ToSet, IsInjective
  <2>2. 0 \in 0..n
    BY <1>1
  <2> HIDE DEF V
  <2>3. QED
    BY <2>1, <2>2, <1>2
<1>5. ASSUME NEW k \in 1..n, NEW r \in V, r \in T[k - 1]
      PROVE  (IF s[k] = y THEN r ELSE Append(r, s[k])) \in T[k]
  <2>1. k \in 0..n /\ k - 1 \in 0..n
    BY <1>1
  <2>2. ToSet(r) = to(k - 1) \ {y} /\ (IsInjective(s) => IsInjective(r))
    BY <2>1, <1>5
  <2>3. CASE s[k] = y
    BY <2>1, <2>2, <2>3, <1>2
  <2>4. CASE s[k] # y
    <3>1. /\ Append(r, s[k]) \in V /\ ToSet(Append(r, s[k])) = ToSet(r) \union {s[k]}
          /\ IsInjective(r) /\ s[k] \notin ToSet(r) => IsInjective(Append(r, s[k]))
      BY <1>1, AppendFacts
    <3> HIDE DEF V
    <3>2. ToSet(Append(r, s[k])) = to(k) \ {y}
      BY <3>1, <2>2, <2>4, <1>2
    <3>3. IsInjective(s) => IsInjective(Append(r, s[k]))
      BY <3>1, <2>2, <1>3
    <3>4. QED
      BY <3>1, <3>2, <3>3, <2>1, <2>4
  <2>5. QED
    BY <2>3, <2>4
<1>6. ASSUME NEW r \in V, NEW x \in ToSet(s) PROVE (IF x = y THEN r ELSE Append(r, x)) \in V
  BY <1>1 DEF ToSet
<1>7. T[n] = {r \in V : ToSet(r) = ToSet(s) \ {y} /\ (IsInjective(s) => IsInjective(r))}
  BY <1>1, <1>2
<1> HIDE DEF T
<1>8. Remaining(<<>>, s, y) \in T[n]
  <2>1. Remaining(<<>>, s, y) \in V \intersect T[Len(s)]
    <3> HIDE DEF V
    <3>1. QED
      BY <1>4, <1>5, <1>6, RemainingLoop
  <2>2. QED
    BY <2>1
<1>9. QED
  BY <1>7, <1>8

\* It leaves the first, if another is removed.
LEMMA RemainingHead ==
    ASSUME NEW S, NEW s \in Seq(S), NEW y, s # <<>>, Head(s) # y
    PROVE  Remaining(<<>>, s, y) # <<>> /\ Head(Remaining(<<>>, s, y)) = Head(s)
<1> DEFINE n == Len(s)
           V == Seq(S)
           H == {r \in V : r # <<>> /\ r[1] = s[1]}
           T == [k \in 0..n |-> IF k = 0 THEN {<<>>} ELSE H]
<1>1. n \in Nat /\ n >= 1 /\ Head(s) = s[1] /\ \A k \in 1..n : s[k] \in S
  BY ElementsFacts
<1>2. <<>> \in V /\ 0 \in 0..n /\ n \in 0..n /\ n # 0
  BY <1>1
<1>3. <<>> \in T[0] /\ T[n] = H
  BY <1>2
<1>4. ASSUME NEW k \in 1..n, NEW r \in V, r \in T[k - 1]
      PROVE  (IF s[k] = y THEN r ELSE Append(r, s[k])) \in T[k]
  <2>1. k \in 0..n /\ k - 1 \in 0..n /\ k # 0 /\ s[k] \in S
    BY <1>1
  <2>2. T[k] = H
    BY <2>1
  <2>3. Append(r, s[k]) \in V /\ Append(r, s[k]) # <<>>
    BY <2>1, AppendFacts
  <2>4. CASE k = 1
    <3>1. r = <<>> /\ s[k] # y
      BY <2>1, <2>4, <1>1, <1>4
    <3>2. Append(r, s[k])[1] = s[1]
      BY <3>1, <2>4
    <3>3. QED
      BY <3>1, <3>2, <2>2, <2>3
  <2>5. CASE k # 1
    <3>1. r \in H
      BY <2>1, <2>5, <1>4
    <3>2. Append(r, s[k])[1] = r[1]
      <4>1. Len(r) \in Nat /\ Len(r) >= 1
        BY <3>1, ElementsFacts
      <4>2. QED
        BY <4>1
    <3>3. QED
      BY <3>1, <3>2, <2>2, <2>3
  <2>6. QED
    BY <2>4, <2>5
<1>5. ASSUME NEW r \in V, NEW x \in ToSet(s) PROVE (IF x = y THEN r ELSE Append(r, x)) \in V
  BY ElementsFacts
<1> HIDE DEF T
<1>6. Remaining(<<>>, s, y) \in H
  <2>1. Remaining(<<>>, s, y) \in V \intersect T[Len(s)]
    <3> HIDE DEF V
    <3>1. QED
      BY <1>2, <1>3, <1>4, <1>5, RemainingLoop
  <2>2. QED
    BY <2>1, <1>3
<1>7. QED
  BY <1>1, <1>6, ElementsFacts

\* A list of tasks that wait for activities, without those that wait for one.
RestOf(base, s, y) == FoldLeft(LAMBDA kept, e : IF e.kind = "WAIT_RESUME" /\ e.of = y
              THEN kept ELSE Append(kept, e), base, s)

\* Its loop.
LEMMA RestLoop ==
    ASSUME NEW V, NEW base \in V, NEW S, NEW s \in Seq(S), NEW y,
           \A v \in V, x \in ToSet(s) : (IF x.kind = "WAIT_RESUME" /\ x.of = y THEN v
                         ELSE Append(v, x)) \in V,
           NEW T, base \in T[0],
           \A k \in 1..Len(s) : \A v \in V : v \in T[k - 1] => (IF s[k].kind = "WAIT_RESUME"
                         /\ s[k].of = y THEN v ELSE Append(v, s[k])) \in T[k]
    PROVE  RestOf(base, s, y) \in V \intersect T[Len(s)]
<1> DEFINE n == Len(s)
           Is(g) == g = [D \in SUBSET DOMAIN s |-> IF D = {} THEN base
                           ELSE (IF s[Max(D)].kind = "WAIT_RESUME" /\ s[Max(D)].of = y
                                         THEN g[D \ {Max(D)}]
                                         ELSE Append(g[D \ {Max(D)}], s[Max(D)]))]
           step == [k \in 1..n |-> [v \in V |-> (IF s[k].kind = "WAIT_RESUME" /\ s[k].of = y
                         THEN v ELSE Append(v, s[k]))]]
           f == CHOOSE g : Is(g)
<1>1. n \in Nat /\ DOMAIN s = 1..n /\ \A k \in 1..n : s[k] \in ToSet(s)
  BY ElementsFacts
<1>2. RestOf(base, s, y) = f[1..n]
  BY <1>1 DEF FoldLeft, MapThenFoldSet, RestOf
<1>3. step \in [1..n -> [V -> V]] /\ \A k \in 1..n, v \in V : step[k][v] =
              (IF s[k].kind = "WAIT_RESUME" /\ s[k].of = y THEN v ELSE Append(v, s[k]))
  BY <1>1
<1> HIDE DEF step, f
<1>4. PICK h \in [SUBSET (1..n) -> V] : Within(h, n, base, V, step)
  BY <1>1, <1>3, FoldRuns
<1>5. Is(h)
  <2>1. \A D \in SUBSET (1..n) : D # {}
              => h[D] = (IF s[Max(D)].kind = "WAIT_RESUME" /\ s[Max(D)].of = y
               THEN h[D \ {Max(D)}] ELSE Append(h[D \ {Max(D)}], s[Max(D)]))
    BY <1>3, <1>4 DEF Within
  <2>2. QED
    BY <2>1, <1>1, <1>4 DEF Within
<1>6. Is(f)
  BY <1>5 DEF f
<1>7. Runs(f, n, base, V, step)
  <2>1. f[{}] = base /\ \A D \in SUBSET (1..n) : D # {}
              => f[D] = (IF s[Max(D)].kind = "WAIT_RESUME" /\ s[Max(D)].of = y
               THEN f[D \ {Max(D)}] ELSE Append(f[D \ {Max(D)}], s[Max(D)]))
    BY <1>1, <1>6
  <2>2. \A D \in SUBSET (1..n) : D # {} => Max(D) \in 1..n
    BY <1>4 DEF Within
  <2>3. QED
    BY <2>1, <2>2, <1>3 DEF Runs
<1>8. \A k \in 1..n : \A v \in V : v \in T[k - 1] => step[k][v] \in T[k]
  BY <1>1, <1>3
<1> HIDE DEF Is, n
<1>9. f[1..n] \in V \intersect T[n]
  BY <1>1, <1>3, <1>7, <1>8, LoopFollows
<1>10. QED
  BY <1>2, <1>9 DEF n
=============================================================================

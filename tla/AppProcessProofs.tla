--------------------------- MODULE AppProcessProofs ---------------------------
(***************************************************************************)
(* Proofs about AppProcess, for any processes, names and process ids: the  *)
(* two lists of AppInfoList know every process once, a name has at most    *)
(* one process that may be given components, the tasks that wait for a     *)
(* process wait for one of their own name, and who is registered for both  *)
(* broadcasts from the start knows the processes from them.                *)
(***************************************************************************)
EXTENDS AppProcess, SequenceLemmas, TLAPS

Waiting == [name : Name, pid : Pid]
Status == {"NONE", "SPAWNED", "ATTACHING", "RUNNING", "ENDED"}

Typed(list, wait, kids) ==
    list \in Seq(App) /\ wait \in Seq(Waiting) /\ kids \in [Pid -> Status]

(* The values of the lists and of child after a change, by name.           *)
Replaced(list, i, app) == [list EXCEPT ![i] = app]
Added(list, app) == Append(list, app)
Joined(wait, n, p) == Append(wait, [name |-> n, pid |-> p])
Left(list, wait, p) == IF Has(list, p) THEN wait ELSE Without(wait, p)
Marked(kids, p, status) == [kids EXCEPT ![p] = status]

-----------------------------------------------------------------------------
(* Removing, appending and updating an entry.                              *)

\* What Without() leaves of a list is the list without the entry of p.
LEMMA WithoutEntry ==
    ASSUME NEW S, NEW list \in Seq(S), NEW p,
           \A i, j \in DOMAIN list : list[i].pid = list[j].pid => i = j
    PROVE  /\ Without(list, p) \in Seq(S)
           /\ \A k \in DOMAIN Without(list, p) :
                 \E i \in DOMAIN list : Without(list, p)[k] = list[i] /\ list[i].pid # p
           /\ \A i \in DOMAIN list : list[i].pid # p =>
                 \E k \in DOMAIN Without(list, p) : Without(list, p)[k] = list[i]
           /\ \A j, k \in DOMAIN Without(list, p) :
                 Without(list, p)[j].pid = Without(list, p)[k].pid => j = k
<1>1. CASE ~Has(list, p)
  <2>1. Without(list, p) = list
    BY <1>1 DEF Without
  <2>2. \A i \in DOMAIN list : list[i].pid # p
    BY <1>1 DEF Has
  <2>3. QED
    BY <2>1, <2>2
<1>2. CASE Has(list, p)
  <2> DEFINE i == CHOOSE i \in DOMAIN list : list[i].pid = p
             n == Len(list)
             new == Without(list, p)
  <2>1. i \in 1..n /\ list[i].pid = p /\ n \in Nat /\ DOMAIN list = 1..n
    BY <1>2 DEF Has
  <2>2. new = [k \in 1..(n - 1) |-> IF k = i THEN list[n] ELSE list[k]]
    BY <1>2 DEF Without
  <2>3. \A k \in 1..n : list[k] \in S
    BY <2>1
  <2> HIDE DEF i, n, new
  <2>4. n - 1 \in Nat
    BY <2>1
  <2>5. new \in [1..(n - 1) -> S] /\ DOMAIN new = 1..(n - 1)
    BY <2>1, <2>2, <2>3
  <2>6. new \in Seq(S)
    BY <2>4, <2>5, SeqDef
  <2>7. \A k \in 1..n : k # i => list[k].pid # p
    BY <2>1
  <2>8. ASSUME NEW k \in DOMAIN new
        PROVE  \E m \in DOMAIN list : new[k] = list[m] /\ list[m].pid # p
    <3>1. k = i => new[k] = list[n] /\ n \in DOMAIN list /\ n # i
      BY <2>1, <2>2, <2>5, <2>8
    <3>2. k # i => new[k] = list[k] /\ k \in DOMAIN list
      BY <2>1, <2>2, <2>5, <2>8
    <3>3. QED
      BY <2>1, <2>7, <3>1, <3>2
  <2>9. ASSUME NEW m \in DOMAIN list, list[m].pid # p
        PROVE  \E k \in DOMAIN new : new[k] = list[m]
    <3>1. CASE m = n
      <4>1. i \in DOMAIN new /\ new[i] = list[n]
        BY <2>1, <2>2, <2>5, <2>9, <3>1
      <4>2. QED
        BY <3>1, <4>1
    <3>2. CASE m # n
      <4>1. m \in DOMAIN new /\ new[m] = list[m]
        BY <2>1, <2>2, <2>5, <2>9, <3>2
      <4>2. QED
        BY <4>1
    <3>3. QED
      BY <3>1, <3>2
  <2>10. ASSUME NEW j \in DOMAIN new, NEW k \in DOMAIN new, new[j].pid = new[k].pid
         PROVE  j = k
    <3> DEFINE At(m) == IF m = i THEN n ELSE m
    <3>1. new[j] = list[At(j)] /\ new[k] = list[At(k)] /\ At(j) \in 1..n /\ At(k) \in 1..n
      BY <2>1, <2>2, <2>5
    <3>2. At(j) = At(k)
      BY <2>1, <2>10, <3>1
    <3>3. QED
      BY <2>1, <2>5, <3>2
  <2>11. QED
    BY <2>6, <2>8, <2>9, <2>10 DEF new
<1>3. QED
  BY <1>1, <1>2

LEMMA DistinctPids ==
    ASSUME NEW list, NEW wait, NEW kids, Sound(list, wait, kids)
    PROVE  /\ \A i, j \in DOMAIN list : list[i].pid = list[j].pid => i = j
           /\ \A i, j \in DOMAIN wait : wait[i].pid = wait[j].pid => i = j
           /\ \A p : ~(Has(list, p) /\ Has(wait, p))
           /\ \A p \in Pid : kids[p] # "NONE" <=> Has(list, p) \/ Has(wait, p)
BY DEF Sound, Has, Pids

\* One that has been waited for is in neither list, and all else stays.
LEMMA Forgotten ==
    ASSUME NEW list, NEW wait, NEW kids, Typed(list, wait, kids), Sound(list, wait, kids),
           NEW p \in Pid
    PROVE  /\ Typed(Without(list, p), Left(list, wait, p), Marked(kids, p, "NONE"))
           /\ Sound(Without(list, p), Left(list, wait, p), Marked(kids, p, "NONE"))
           /\ \A i \in DOMAIN wait : wait[i].pid # p =>
                 \E k \in DOMAIN Left(list, wait, p) : Left(list, wait, p)[k] = wait[i]
           /\ PhaseIn(Without(list, p), Left(list, wait, p), p) = "free"
           /\ \A q \in Pid \ {p} :
                 PhaseIn(Without(list, p), Left(list, wait, p), q) = PhaseIn(list, wait, q)
<1> DEFINE rest == Without(list, p)
           left == Without(wait, p)
           kin == Marked(kids, p, "NONE")
<1>1. /\ rest \in Seq(App)
      /\ \A k \in DOMAIN rest : \E i \in DOMAIN list : rest[k] = list[i] /\ list[i].pid # p
      /\ \A i \in DOMAIN list : list[i].pid # p => \E k \in DOMAIN rest : rest[k] = list[i]
      /\ \A j, k \in DOMAIN rest : rest[j].pid = rest[k].pid => j = k
  BY WithoutEntry, DistinctPids DEF Typed
<1>2. /\ left \in Seq(Waiting)
      /\ \A k \in DOMAIN left : \E i \in DOMAIN wait : left[k] = wait[i] /\ wait[i].pid # p
      /\ \A i \in DOMAIN wait : wait[i].pid # p => \E k \in DOMAIN left : left[k] = wait[i]
      /\ \A j, k \in DOMAIN left : left[j].pid = left[k].pid => j = k
  <2>1. \A i, j \in DOMAIN wait : wait[i].pid = wait[j].pid => i = j
    BY DistinctPids
  <2>2. wait \in Seq(Waiting)
    BY DEF Typed
  <2>3. QED
    BY <2>1, <2>2, WithoutEntry
<1>3. Left(list, wait, p) = left
  BY DistinctPids DEF Left, Without
<1>4. kin \in [Pid -> Status] /\ kin[p] = "NONE" /\ \A q \in Pid \ {p} : kin[q] = kids[q]
  BY DEF Typed, Status, Marked
<1> HIDE DEF rest, left, kin
<1>5. Pids(rest) = Pids(list) \ {p} /\ Pids(left) = Pids(wait) \ {p}
  BY <1>1, <1>2 DEF Pids
<1>6. /\ Pids(rest) \cap Pids(left) = {}
      /\ Pids(rest) \cup Pids(left) = {q \in Pid : kin[q] # "NONE"}
  <2>1. /\ Pids(list) \cap Pids(wait) = {}
        /\ Pids(list) \cup Pids(wait) = {q \in Pid : kids[q] # "NONE"}
    BY DEF Sound
  <2>2. {q \in Pid : kin[q] # "NONE"} = {q \in Pid : kids[q] # "NONE"} \ {p}
    BY <1>4
  <2>3. QED
    BY <1>5, <2>1, <2>2
<1>7. ASSUME NEW n \in Name
      PROVE  /\ Alive(rest, n) = {} \/ Attaching(left, n) = {}
             /\ \A i, j \in Alive(rest, n) : i = j
             /\ \A i, j \in Attaching(left, n) : i = j
  <2>1. ASSUME NEW k \in Alive(rest, n)
        PROVE  \E i \in Alive(list, n) : rest[k] = list[i]
    BY <1>1, <2>1 DEF Alive
  <2>2. ASSUME NEW k \in Attaching(left, n)
        PROVE  \E i \in Attaching(wait, n) : left[k] = wait[i]
    BY <1>2, <2>2 DEF Attaching
  <2>3. Alive(rest, n) = {} \/ Attaching(left, n) = {}
    BY <2>1, <2>2 DEF Sound
  <2>4. ASSUME NEW j \in Alive(rest, n), NEW k \in Alive(rest, n) PROVE j = k
    <3>1. rest[j] = rest[k]
      BY <2>1 DEF Sound
    <3>2. j \in DOMAIN rest /\ k \in DOMAIN rest
      BY DEF Alive
    <3>3. QED
      BY <1>1, <3>1, <3>2
  <2>5. ASSUME NEW j \in Attaching(left, n), NEW k \in Attaching(left, n) PROVE j = k
    <3>1. left[j] = left[k]
      BY <2>2 DEF Sound
    <3>2. j \in DOMAIN left /\ k \in DOMAIN left
      BY DEF Attaching
    <3>3. QED
      BY <1>2, <3>1, <3>2
  <2>6. QED
    BY <2>3, <2>4, <2>5
<1>8. Typed(rest, left, kin) /\ Sound(rest, left, kin)
  BY <1>1, <1>2, <1>4, <1>6, <1>7 DEF Typed, Sound
<1>9. PhaseIn(rest, left, p) = "free"
  BY <1>1, <1>2 DEF PhaseIn, Has, HasIn
<1>10. ASSUME NEW q \in Pid \ {p} PROVE PhaseIn(rest, left, q) = PhaseIn(list, wait, q)
  <2>1. Has(left, q) <=> Has(wait, q)
    BY <1>2, <1>10 DEF Has
  <2>2. ASSUME NEW s PROVE HasIn(rest, q, s) <=> HasIn(list, q, s)
    BY <1>1, <1>10 DEF HasIn
  <2>3. QED
    BY <2>1, <2>2 DEF PhaseIn
<1>11. QED
  BY <1>2, <1>3, <1>8, <1>9, <1>10 DEF rest, left, kin

\* A record whose process keeps its status, or is stopped, stays the record
\* of its process.
LEMMA Updated ==
    ASSUME NEW list, NEW wait, NEW kids, Typed(list, wait, kids), Sound(list, wait, kids),
           NEW i \in DOMAIN list, NEW app \in App,
           app.name = list[i].name, app.pid = list[i].pid,
           app.mStatus = list[i].mStatus \/ app.mStatus = "STOPPING"
    PROVE  /\ Typed(Replaced(list, i, app), wait, kids) /\ Sound(Replaced(list, i, app), wait, kids)
           /\ \A q \in Pid \ {app.pid} :
                 PhaseIn(Replaced(list, i, app), wait, q) = PhaseIn(list, wait, q)
           /\ PhaseIn(list, wait, app.pid) =
                 IF list[i].mStatus = "RUNNING" THEN "live" ELSE "stopping"
           /\ PhaseIn(Replaced(list, i, app), wait, app.pid) =
                 IF app.mStatus = "RUNNING" THEN "live" ELSE "stopping"
<1> DEFINE new == Replaced(list, i, app)
<1>1. list \in Seq(App) /\ DOMAIN list = 1..Len(list) /\ \A k \in DOMAIN list : list[k] \in App
  BY DEF Typed
<1>2. /\ new \in Seq(App) /\ DOMAIN new = DOMAIN list
      /\ new[i] = app /\ \A k \in DOMAIN list : k # i => new[k] = list[k]
  BY <1>1 DEF Replaced
<1> HIDE DEF new
<1>3. \A k \in DOMAIN list : new[k].pid = list[k].pid /\ new[k].name = list[k].name
  BY <1>2
<1>4. /\ \A j, k \in DOMAIN list : list[j].pid = list[k].pid => j = k
      /\ \A p : ~(Has(list, p) /\ Has(wait, p))
  BY DistinctPids
<1>5. Pids(new) = Pids(list)
  BY <1>2, <1>3 DEF Pids
<1>6. ASSUME NEW n PROVE Alive(new, n) \subseteq Alive(list, n)
  BY <1>1, <1>2 DEF Alive, App
<1>7. Sound(new, wait, kids)
  BY <1>2, <1>3, <1>4, <1>5, <1>6 DEF Sound
<1>8. Typed(new, wait, kids)
  BY <1>2 DEF Typed
<1>9. \A q : Has(new, q) <=> Has(list, q)
  BY <1>2, <1>3 DEF Has
<1>10. ASSUME NEW q \in Pid \ {app.pid} PROVE PhaseIn(new, wait, q) = PhaseIn(list, wait, q)
  <2>1. ASSUME NEW s PROVE HasIn(new, q, s) <=> HasIn(list, q, s)
    BY <1>2, <1>10 DEF HasIn
  <2>2. QED
    BY <2>1 DEF PhaseIn
<1>11. ~Has(wait, app.pid)
  BY <1>4 DEF Has
<1>12. \A s : HasIn(list, app.pid, s) <=> list[i].mStatus = s
  BY <1>4 DEF HasIn
<1>13. \A s : HasIn(new, app.pid, s) <=> app.mStatus = s
  BY <1>2, <1>3, <1>4 DEF HasIn
<1>14. list[i].mStatus \in {"RUNNING", "STOPPING"} /\ app.mStatus \in {"RUNNING", "STOPPING"}
  BY <1>1 DEF App
<1>15. /\ PhaseIn(list, wait, app.pid) = IF list[i].mStatus = "RUNNING" THEN "live" ELSE "stopping"
       /\ PhaseIn(new, wait, app.pid) = IF app.mStatus = "RUNNING" THEN "live" ELSE "stopping"
  <2>1. list[i].mStatus # "RUNNING" => list[i].mStatus = "STOPPING"
    BY <1>14
  <2>2. app.mStatus # "RUNNING" => app.mStatus = "STOPPING"
    BY <1>14
  <2>3. PhaseIn(list, wait, app.pid) = IF list[i].mStatus = "RUNNING" THEN "live" ELSE "stopping"
    BY <1>11, <1>12, <2>1 DEF PhaseIn
  <2>4. PhaseIn(new, wait, app.pid) = IF app.mStatus = "RUNNING" THEN "live" ELSE "stopping"
    BY <1>11, <1>13, <2>2 DEF PhaseIn
  <2>5. QED
    BY <2>3, <2>4
<1>16. QED
  BY <1>7, <1>8, <1>10, <1>15 DEF new

\* A process that is launched joins those that have not attached.
LEMMA Launches ==
    ASSUME NEW list, NEW wait, NEW kids, Typed(list, wait, kids), Sound(list, wait, kids),
           NEW n \in Name, NEW p \in Pid, kids[p] = "NONE",
           Alive(list, n) = {}, Attaching(wait, n) = {}
    PROVE  /\ Typed(list, Joined(wait, n, p), Marked(kids, p, "SPAWNED"))
           /\ Sound(list, Joined(wait, n, p), Marked(kids, p, "SPAWNED"))
           /\ PhaseIn(list, wait, p) = "free"
           /\ PhaseIn(list, Joined(wait, n, p), p) = "launching"
           /\ \A q \in Pid \ {p} : PhaseIn(list, Joined(wait, n, p), q) = PhaseIn(list, wait, q)
           /\ \A i \in DOMAIN wait : i \in DOMAIN Joined(wait, n, p) /\ Joined(wait, n, p)[i] = wait[i]
           /\ \E i \in DOMAIN Joined(wait, n, p) : Joined(wait, n, p)[i] = [name |-> n, pid |-> p]
<1> DEFINE new == [name |-> n, pid |-> p]
           more == Joined(wait, n, p)
           kin == Marked(kids, p, "SPAWNED")
           last == Len(wait) + 1
<1>1. /\ wait \in Seq(Waiting) /\ new \in Waiting /\ DOMAIN wait = 1..Len(wait)
      /\ Len(wait) \in Nat
  BY DEF Typed, Waiting
<1>2. /\ more \in Seq(Waiting) /\ DOMAIN more = 1..last
      /\ more[last] = new /\ \A i \in DOMAIN wait : more[i] = wait[i]
  BY <1>1 DEF Joined
<1>3. kin \in [Pid -> Status] /\ kin[p] = "SPAWNED" /\ \A q \in Pid \ {p} : kin[q] = kids[q]
  BY DEF Typed, Status, Marked
<1>4. new.pid = p /\ new.name = n
  OBVIOUS
<1> HIDE DEF new, more, kin
<1>5. DOMAIN more = DOMAIN wait \cup {last} /\ last \notin DOMAIN wait
  BY <1>1, <1>2
<1>6. ~Has(list, p) /\ ~Has(wait, p)
  BY DistinctPids
<1>7. Pids(more) = Pids(wait) \cup {p} /\ p \notin Pids(list)
  <2>1. p \notin Pids(list)
    BY <1>6 DEF Pids, Has
  <2>2. Pids(more) = {more[i].pid : i \in DOMAIN wait} \cup {more[last].pid}
    BY <1>5 DEF Pids
  <2>3. {more[i].pid : i \in DOMAIN wait} = Pids(wait)
    BY <1>2 DEF Pids
  <2>4. QED
    BY <1>2, <1>4, <2>1, <2>2, <2>3
<1>8. /\ Pids(list) \cap Pids(more) = {}
      /\ Pids(list) \cup Pids(more) = {q \in Pid : kin[q] # "NONE"}
  <2>1. /\ Pids(list) \cap Pids(wait) = {}
        /\ Pids(list) \cup Pids(wait) = {q \in Pid : kids[q] # "NONE"}
    BY DEF Sound
  <2>2. {q \in Pid : kin[q] # "NONE"} = {q \in Pid : kids[q] # "NONE"} \cup {p}
    BY <1>3
  <2>3. QED
    BY <1>7, <2>1, <2>2
<1>9. \A i, j \in DOMAIN more : more[i].pid = more[j].pid => i = j
  <2>1. \A i, j \in DOMAIN wait : wait[i].pid = wait[j].pid => i = j
    BY DistinctPids
  <2>2. QED
    BY <1>2, <1>4, <1>5, <1>6, <2>1 DEF Has
<1>10. ASSUME NEW m \in Name
       PROVE  /\ Alive(list, m) = {} \/ Attaching(more, m) = {}
              /\ \A i, j \in Attaching(more, m) : i = j
  <2>1. CASE m = n
    <3>1. Attaching(more, n) = {last}
      BY ZenonT(30), <1>2, <1>4, <1>5 DEF Attaching
    <3>2. QED
      BY <2>1, <3>1
  <2>2. CASE m # n
    <3>1. Attaching(more, m) = Attaching(wait, m)
      BY <1>2, <1>4, <1>5, <2>2 DEF Attaching
    <3>2. QED
      BY <3>1 DEF Sound
  <2>3. QED
    BY <2>1, <2>2
<1>11. Typed(list, more, kin) /\ Sound(list, more, kin)
  BY <1>2, <1>3, <1>8, <1>9, <1>10 DEF Typed, Sound
<1>12. \A q : Has(more, q) <=> Has(wait, q) \/ q = p
  BY <1>2, <1>4, <1>5 DEF Has
<1>13. PhaseIn(list, wait, p) = "free"
  BY <1>6 DEF PhaseIn, Has, HasIn
<1>14. /\ PhaseIn(list, more, p) = "launching"
       /\ \A q \in Pid \ {p} : PhaseIn(list, more, q) = PhaseIn(list, wait, q)
  BY <1>12 DEF PhaseIn
<1>15. QED
  BY <1>2, <1>5, <1>11, <1>13, <1>14 DEF new, more, kin

-----------------------------------------------------------------------------
(* Starting a component.                                                   *)

LEMMA HoldingKeeps ==
    ASSUME NEW app \in App, NEW kind \in Kind
    PROVE  /\ Holding(app, kind) \in App
           /\ Holding(app, kind).name = app.name /\ Holding(app, kind).pid = app.pid
           /\ Holding(app, kind).mStatus = app.mStatus
<1>1. CASE kind = "ACTIVITY"
  <2>1. Holding(app, kind) =
           [app EXCEPT !.parts = [app.parts EXCEPT !.front = app.parts.front + 1]]
    BY <1>1 DEF Holding, App, Parts
  <2>2. app.parts \in Parts
    BY DEF App
  <2>3. [app.parts EXCEPT !.front = app.parts.front + 1] \in Parts
    BY <2>2 DEF Parts
  <2>4. QED
    BY <2>1, <2>3 DEF App
<1>2. CASE kind # "ACTIVITY"
  <2>1. Holding(app, kind) =
           [app EXCEPT !.parts = [app.parts EXCEPT !.services = app.parts.services + 1]]
    BY <1>2 DEF Holding, App, Parts
  <2>2. app.parts \in Parts
    BY DEF App
  <2>3. [app.parts EXCEPT !.services = app.parts.services + 1] \in Parts
    BY <2>2 DEF Parts
  <2>4. QED
    BY <2>1, <2>3 DEF App
<1>3. QED
  BY <1>1, <1>2

\* Where there is one at most, the first one is it.
LEMMA OnlyOne ==
    ASSUME NEW S \in SUBSET Nat, S # {}, \A i, j \in S : i = j
    PROVE  First(S) \in S
<1>1. PICK i \in S : TRUE
  OBVIOUS
<1>2. i <= i
  OBVIOUS
<1>3. \A j \in S : i <= j
  BY <1>2
<1>4. QED
  BY <1>3 DEF First

\* A task that is committed to a process of its name waits for it.
LEMMA Committed ==
    ASSUME NEW wait, NEW ended \in [Pid -> Nat], pend \in [Pid -> Seq(Target)],
           Awaited(wait, pend, ended),
           NEW p \in Pid, NEW n \in Name, NEW kind \in Kind, Commit(p, n, kind),
           \E i \in DOMAIN wait : wait[i] = [name |-> n, pid |-> p]
    PROVE  pend' \in [Pid -> Seq(Target)] /\ Awaited(wait, pend', ended)
<1> DEFINE t == [name |-> n, kind |-> kind]
<1>1. t \in Target /\ t.name = n
  BY DEF Target
<1>2. pend' = [pend EXCEPT ![p] = Append(pend[p], t)] /\ pend[p] \in Seq(Target)
  BY DEF Commit
<1> HIDE DEF t
<1>3. /\ pend'[p] \in Seq(Target) /\ Len(pend'[p]) = Len(pend[p]) + 1
      /\ pend'[p][Len(pend[p]) + 1] = t
      /\ \A k \in 1..Len(pend[p]) : pend'[p][k] = pend[p][k]
  BY <1>1, <1>2
<1>4. pend' \in [Pid -> Seq(Target)] /\ \A q \in Pid \ {p} : pend'[q] = pend[q]
  BY <1>2, <1>3
<1>5. ASSUME NEW k \in (ended[p] + 1)..Len(pend'[p])
      PROVE  \E i \in DOMAIN wait : wait[i] = [name |-> pend'[p][k].name, pid |-> p]
  <2>1. CASE k = Len(pend[p]) + 1
    BY <1>1, <1>3, <2>1
  <2>2. CASE k # Len(pend[p]) + 1
    <3>1. k \in (ended[p] + 1)..Len(pend[p]) /\ pend'[p][k] = pend[p][k]
      BY <1>2, <1>3, <1>5, <2>2
    <3>2. QED
      BY <3>1 DEF Awaited
  <2>3. QED
    BY <2>1, <2>2
<1>6. ASSUME NEW q \in Pid \ {p}, NEW k \in (ended[q] + 1)..Len(pend'[q])
      PROVE  \E i \in DOMAIN wait : wait[i] = [name |-> pend'[q][k].name, pid |-> q]
  BY ZenonT(30), <1>4, <1>6 DEF Awaited
<1>7. QED
  BY <1>4, <1>5, <1>6 DEF Awaited

\* Start() launches at most one process, and the lists stay sound.
LEMMA Started ==
    ASSUME NEW list, NEW wait, NEW kids, Typed(list, wait, kids), Sound(list, wait, kids),
           pend \in [Pid -> Seq(Target)], NEW ended \in [Pid -> Nat],
           Awaited(wait, pend, ended),
           NEW n \in Name, NEW kind \in Kind, Start(list, wait, kids, n, kind)
    PROVE  /\ Typed(mAppList', mAppWaitingAttach', child')
           /\ Sound(mAppList', mAppWaitingAttach', child')
           /\ pend' \in [Pid -> Seq(Target)] /\ Awaited(mAppWaitingAttach', pend', ended)
           /\ \/ \A q \in Pid : PhaseIn(mAppList', mAppWaitingAttach', q) = PhaseIn(list, wait, q)
              \/ \E p \in Pid :
                    /\ PhaseIn(list, wait, p) = "free"
                    /\ PhaseIn(mAppList', mAppWaitingAttach', p) = "launching"
                    /\ \A q \in Pid \ {p} :
                          PhaseIn(mAppList', mAppWaitingAttach', q) = PhaseIn(list, wait, q)
<1>1. /\ list \in Seq(App) /\ wait \in Seq(Waiting)
      /\ DOMAIN list = 1..Len(list) /\ DOMAIN wait = 1..Len(wait)
      /\ \A i \in DOMAIN list : list[i] \in App
  BY DEF Typed
<1>2. CASE Host(list, wait, kids, n, kind)
  <2> DEFINE i == First(Alive(list, n))
  <2>1. Alive(list, n) \in SUBSET Nat /\ Alive(list, n) # {}
    BY <1>1, <1>2 DEF Host, Alive
  <2>2. i \in Alive(list, n)
    BY <2>1, OnlyOne DEF Sound
  <2>3. i \in DOMAIN list
    BY <2>2 DEF Alive
  <2>4. /\ mAppList' = Replaced(list, i, Holding(list[i], kind))
        /\ mAppWaitingAttach' = wait /\ child' = kids /\ pend' = pend
    BY <1>2 DEF Host, Unchanged, Replaced
  <2> HIDE DEF i
  <2>5. /\ Holding(list[i], kind) \in App
        /\ Holding(list[i], kind).name = list[i].name
        /\ Holding(list[i], kind).pid = list[i].pid
        /\ Holding(list[i], kind).mStatus = list[i].mStatus
    BY <1>1, <2>3, HoldingKeeps
  <2>6. /\ Typed(mAppList', wait, kids) /\ Sound(mAppList', wait, kids)
        /\ \A q \in Pid : PhaseIn(mAppList', wait, q) = PhaseIn(list, wait, q)
    <3> DEFINE app == Holding(list[i], kind)
    <3> HIDE DEF app
    <3>1. /\ app \in App /\ app.name = list[i].name /\ app.pid = list[i].pid
          /\ app.mStatus = list[i].mStatus /\ mAppList' = Replaced(list, i, app)
      BY <2>4, <2>5 DEF app
    <3>2. /\ Typed(mAppList', wait, kids) /\ Sound(mAppList', wait, kids)
          /\ \A q \in Pid \ {app.pid} : PhaseIn(mAppList', wait, q) = PhaseIn(list, wait, q)
          /\ PhaseIn(mAppList', wait, app.pid) = PhaseIn(list, wait, app.pid)
      BY <2>3, <3>1, Updated
    <3>3. QED
      BY <3>2
  <2>7. QED
    BY <2>4, <2>6
<1>3. CASE Join(list, wait, kids, n, kind)
  <2>1. mAppList' = list /\ mAppWaitingAttach' = wait /\ child' = kids
    BY <1>3 DEF Join, Unchanged
  <2>2. pend' \in [Pid -> Seq(Target)] /\ Awaited(wait, pend', ended)
    <3>1. CASE kind = "SERVICE"
      <4> DEFINE i == First(Attaching(wait, n))
      <4>1. Attaching(wait, n) \in SUBSET Nat /\ Attaching(wait, n) # {}
        BY <1>1, <1>3 DEF Join, Attaching
      <4>2. i \in Attaching(wait, n)
        BY <4>1, OnlyOne DEF Sound
      <4>3. i \in DOMAIN wait /\ wait[i].name = n /\ wait[i] \in Waiting
        BY <1>1, <4>2 DEF Attaching
      <4>4. wait[i].pid \in Pid /\ wait[i] = [name |-> n, pid |-> wait[i].pid]
        BY <4>3 DEF Waiting
      <4>5. Commit(wait[i].pid, n, kind)
        BY <1>3, <3>1 DEF Join
      <4>6. QED
        BY <4>3, <4>4, <4>5, Committed
    <3>2. CASE kind # "SERVICE"
      BY <1>3, <3>2 DEF Join
    <3>3. QED
      BY <3>1, <3>2
  <2>3. QED
    BY <2>1, <2>2
<1>4. CASE Spawn(list, wait, kids, n, kind)
  <2>1. PICK p \in Pid :
           /\ kids[p] = "NONE"
           /\ Unchanged(list, Append(wait, [name |-> n, pid |-> p]), [kids EXCEPT ![p] = "SPAWNED"])
           /\ Commit(p, n, kind)
    BY <1>4 DEF Spawn
  <2>2. Alive(list, n) = {} /\ Attaching(wait, n) = {}
    BY <1>4 DEF Spawn
  <2> DEFINE more == Joined(wait, n, p)
             kin == Marked(kids, p, "SPAWNED")
  <2>3. mAppList' = list /\ mAppWaitingAttach' = more /\ child' = kin
    BY <2>1 DEF Unchanged, Joined, Marked
  <2>4. /\ Typed(list, more, kin) /\ Sound(list, more, kin)
        /\ PhaseIn(list, wait, p) = "free" /\ PhaseIn(list, more, p) = "launching"
        /\ \A q \in Pid \ {p} : PhaseIn(list, more, q) = PhaseIn(list, wait, q)
        /\ \A i \in DOMAIN wait : i \in DOMAIN more /\ more[i] = wait[i]
        /\ \E i \in DOMAIN more : more[i] = [name |-> n, pid |-> p]
    BY SMTT(30), <2>1, <2>2, Launches
  <2> HIDE DEF more, kin
  <2>5. Awaited(more, pend, ended)
    <3>1. SUFFICES ASSUME NEW q \in Pid, NEW k \in (ended[q] + 1)..Len(pend[q])
                   PROVE  \E i \in DOMAIN more : more[i] = [name |-> pend[q][k].name, pid |-> q]
      BY DEF Awaited
    <3>2. PICK i \in DOMAIN wait : wait[i] = [name |-> pend[q][k].name, pid |-> q]
      BY DEF Awaited
    <3>3. QED
      BY <2>4, <3>2
  <2>6. pend' \in [Pid -> Seq(Target)] /\ Awaited(more, pend', ended)
    BY <2>1, <2>4, <2>5, Committed
  <2>7. QED
    BY <2>3, <2>4, <2>6
<1>5. CASE SpawnFails(list, wait, kids, n)
  BY <1>5 DEF SpawnFails, Unchanged
<1>6. QED
  BY <1>2, <1>3, <1>4, <1>5 DEF Start

-----------------------------------------------------------------------------
(* The steps that start nothing.                                           *)

\* A record is replaced; its process keeps its status or is stopped.
LEMMA UpdateAppSound ==
    ASSUME Typed(mAppList, mAppWaitingAttach, child), ListsAreSound,
           NEW i \in DOMAIN mAppList, NEW app \in App, UpdateApp(i, app),
           UNCHANGED <<mAppWaitingAttach, child>>,
           app.name = mAppList[i].name, app.pid = mAppList[i].pid,
           app.mStatus = mAppList[i].mStatus \/ app.mStatus = "STOPPING"
    PROVE  /\ Typed(mAppList, mAppWaitingAttach, child)' /\ ListsAreSound'
           /\ \A q \in Pid \ {app.pid} : Phase(q)' = Phase(q)
           /\ \/ Phase(app.pid)' = Phase(app.pid)
              \/ Phase(app.pid) = "live" /\ Phase(app.pid)' = "stopping"
<1>1. mAppList' = Replaced(mAppList, i, app)
  BY DEF UpdateApp, Replaced
<1>2. mAppWaitingAttach' = mAppWaitingAttach /\ child' = child
  OBVIOUS
<1>3. Sound(mAppList, mAppWaitingAttach, child)
  BY DEF ListsAreSound
<1>4. /\ Typed(Replaced(mAppList, i, app), mAppWaitingAttach, child)
      /\ Sound(Replaced(mAppList, i, app), mAppWaitingAttach, child)
      /\ \A q \in Pid \ {app.pid} :
            PhaseIn(Replaced(mAppList, i, app), mAppWaitingAttach, q)
               = PhaseIn(mAppList, mAppWaitingAttach, q)
      /\ PhaseIn(mAppList, mAppWaitingAttach, app.pid) =
            IF mAppList[i].mStatus = "RUNNING" THEN "live" ELSE "stopping"
      /\ PhaseIn(Replaced(mAppList, i, app), mAppWaitingAttach, app.pid) =
            IF app.mStatus = "RUNNING" THEN "live" ELSE "stopping"
  BY <1>3, Updated
<1>5. /\ Typed(mAppList, mAppWaitingAttach, child)' /\ ListsAreSound'
  BY <1>1, <1>2, <1>4 DEF ListsAreSound
<1>6. \A q : Phase(q)' = PhaseIn(Replaced(mAppList, i, app), mAppWaitingAttach, q)
  BY <1>1, <1>2 DEF Phase
<1>7. \A q : Phase(q) = PhaseIn(mAppList, mAppWaitingAttach, q)
  BY DEF Phase
<1>8. mAppList[i].mStatus # "RUNNING" => app.mStatus # "RUNNING"
  OBVIOUS
<1>9. QED
  BY <1>4, <1>5, <1>6, <1>7, <1>8

\* A process that attaches moves from the one list to the other.
LEMMA Moved ==
    ASSUME NEW list, NEW wait, NEW kids, Typed(list, wait, kids), Sound(list, wait, kids),
           NEW i \in DOMAIN wait, NEW app \in App,
           app.name = wait[i].name, app.pid = wait[i].pid, app.mStatus = "RUNNING",
           kids[app.pid] = "ATTACHING"
    PROVE  /\ Typed(Added(list, app), Without(wait, app.pid), Marked(kids, app.pid, "RUNNING"))
           /\ Sound(Added(list, app), Without(wait, app.pid), Marked(kids, app.pid, "RUNNING"))
           /\ \A k \in DOMAIN wait : wait[k].pid # app.pid =>
                 \E m \in DOMAIN Without(wait, app.pid) : Without(wait, app.pid)[m] = wait[k]
           /\ PhaseIn(list, wait, app.pid) = "launching"
           /\ PhaseIn(Added(list, app), Without(wait, app.pid), app.pid) = "live"
           /\ \A q \in Pid \ {app.pid} :
                 PhaseIn(Added(list, app), Without(wait, app.pid), q) = PhaseIn(list, wait, q)
<1> DEFINE p == app.pid
           new == Added(list, app)
           left == Without(wait, p)
           kin == Marked(kids, p, "RUNNING")
           last == Len(list) + 1
<1>1. /\ list \in Seq(App) /\ DOMAIN list = 1..Len(list) /\ Len(list) \in Nat
      /\ wait \in Seq(Waiting)
      /\ \A k \in DOMAIN wait : wait[k] \in Waiting
  BY DEF Typed
<1>2. /\ new \in Seq(App) /\ DOMAIN new = 1..last
      /\ new[last] = app /\ \A k \in DOMAIN list : new[k] = list[k]
  BY <1>1 DEF Added
<1>3. /\ left \in Seq(Waiting)
      /\ \A k \in DOMAIN left : \E m \in DOMAIN wait : left[k] = wait[m] /\ wait[m].pid # p
      /\ \A m \in DOMAIN wait : wait[m].pid # p => \E k \in DOMAIN left : left[k] = wait[m]
      /\ \A j, k \in DOMAIN left : left[j].pid = left[k].pid => j = k
  <2>1. \A j, k \in DOMAIN wait : wait[j].pid = wait[k].pid => j = k
    BY DistinctPids
  <2>2. QED
    BY <1>1, <2>1, WithoutEntry
<1>4. /\ kin \in [Pid -> Status] /\ p \in Pid /\ kin[p] = "RUNNING"
      /\ \A q \in Pid \ {p} : kin[q] = kids[q]
  BY DEF Typed, Status, Marked, App
<1>5. Has(wait, p) /\ ~Has(list, p)
  <2>1. Has(wait, p)
    BY DEF Has
  <2>2. QED
    BY <2>1, DistinctPids
<1> HIDE DEF new, left, kin, p
<1>6. p = app.pid
  BY DEF p
<1>7. DOMAIN new = DOMAIN list \cup {last} /\ last \notin DOMAIN list
  BY <1>1, <1>2
<1>8. Pids(left) = Pids(wait) \ {p} /\ p \in Pids(wait)
  BY <1>3, <1>5 DEF Pids, Has
<1>9. Pids(new) = Pids(list) \cup {p}
  <2>1. Pids(new) = {new[k].pid : k \in DOMAIN list} \cup {new[last].pid}
    BY <1>7 DEF Pids
  <2>2. {new[k].pid : k \in DOMAIN list} = Pids(list)
    BY <1>2 DEF Pids
  <2>3. QED
    BY <1>2, <1>6, <2>1, <2>2
<1>10. /\ Pids(new) \cap Pids(left) = {}
       /\ Pids(new) \cup Pids(left) = {q \in Pid : kin[q] # "NONE"}
  <2>1. /\ Pids(list) \cap Pids(wait) = {}
        /\ Pids(list) \cup Pids(wait) = {q \in Pid : kids[q] # "NONE"}
    BY DEF Sound
  <2>2. {q \in Pid : kin[q] # "NONE"} = {q \in Pid : kids[q] # "NONE"}
    BY <1>4, <1>6
  <2>3. QED
    BY <1>8, <1>9, <2>1, <2>2
<1>11. \A j, k \in DOMAIN new : new[j].pid = new[k].pid => j = k
  <2>1. \A j, k \in DOMAIN list : list[j].pid = list[k].pid => j = k
    BY DistinctPids
  <2>2. QED
    BY ZenonT(30), <1>2, <1>5, <1>6, <1>7, <2>1 DEF Has
<1>12. ASSUME NEW n \in Name
       PROVE  /\ Alive(new, n) = {} \/ Attaching(left, n) = {}
              /\ \A j, k \in Alive(new, n) : j = k
              /\ \A j, k \in Attaching(left, n) : j = k
  <2>1. ASSUME NEW k \in Attaching(left, n)
        PROVE  \E m \in Attaching(wait, n) : left[k] = wait[m] /\ wait[m].pid # p
    BY <1>3, <2>1 DEF Attaching
  <2>2. ASSUME NEW j \in Attaching(left, n), NEW k \in Attaching(left, n) PROVE j = k
    <3>1. left[j] = left[k]
      BY <2>1 DEF Sound
    <3>2. j \in DOMAIN left /\ k \in DOMAIN left
      BY DEF Attaching
    <3>3. QED
      BY <1>3, <3>1, <3>2
  <2>3. CASE n = app.name
    <3>1. i \in Attaching(wait, n)
      BY <2>3 DEF Attaching
    <3>2. Attaching(left, n) = {}
      <4>1. \A m \in Attaching(wait, n) : m = i
        BY <3>1 DEF Sound
      <4>2. QED
        BY <1>6, <2>1, <4>1
    <3>3. Alive(list, n) = {}
      BY <3>1 DEF Sound
    <3>4. Alive(new, n) = {last}
      <4>1. \A k \in DOMAIN list : k \notin Alive(new, n)
        BY <1>2, <3>3 DEF Alive
      <4>2. last \in Alive(new, n)
        BY <1>2, <1>7, <2>3 DEF Alive
      <4>3. QED
        BY <1>7, <4>1, <4>2 DEF Alive
    <3>5. QED
      BY <3>2, <3>4
  <2>4. CASE n # app.name
    <3>1. Alive(new, n) = Alive(list, n)
      BY <1>2, <1>7, <2>4 DEF Alive
    <3>2. QED
      BY <2>1, <2>2, <3>1 DEF Sound
  <2>5. QED
    BY <2>3, <2>4
<1>13. Typed(new, left, kin) /\ Sound(new, left, kin)
  BY <1>2, <1>3, <1>4, <1>10, <1>11, <1>12 DEF Typed, Sound
<1>14. PhaseIn(list, wait, p) = "launching"
  BY <1>5 DEF PhaseIn
<1>15. PhaseIn(new, left, p) = "live"
  <2>1. ~Has(left, p)
    BY <1>3 DEF Has
  <2>2. HasIn(new, p, "RUNNING")
    BY <1>2, <1>6, <1>7 DEF HasIn
  <2>3. QED
    BY <2>1, <2>2 DEF PhaseIn
<1>16. ASSUME NEW q \in Pid \ {p} PROVE PhaseIn(new, left, q) = PhaseIn(list, wait, q)
  <2>1. Has(left, q) <=> Has(wait, q)
    BY <1>3, <1>16 DEF Has
  <2>2. ASSUME NEW s PROVE HasIn(new, q, s) <=> HasIn(list, q, s)
    BY ZenonT(30), <1>2, <1>6, <1>7, <1>16 DEF HasIn
  <2>3. QED
    BY <2>1, <2>2 DEF PhaseIn
<1>17. QED
  BY <1>3, <1>13, <1>14, <1>15, <1>16 DEF new, left, kin, p

LEMMA HoldsKeeps ==
    ASSUME NEW n \in Name, NEW p \in Pid, NEW tasks \in Seq(Target)
    PROVE  /\ Holds(Record(n, p), tasks) \in App
           /\ Holds(Record(n, p), tasks).name = n /\ Holds(Record(n, p), tasks).pid = p
           /\ Holds(Record(n, p), tasks).mStatus = "RUNNING"
<1>1. ASSUME NEW kind PROVE Of(kind, tasks) \in Nat
  <2>1. IsFiniteSet(1..Len(tasks)) /\ DOMAIN tasks = 1..Len(tasks)
    BY FS_Interval
  <2>2. IsFiniteSet({k \in DOMAIN tasks : tasks[k].kind = kind})
    BY <2>1, FS_Subset
  <2>3. QED
    BY <2>2, FS_CardinalityType DEF Of
<1>2. QED
  BY <1>1 DEF Holds, Record, App, Parts

-----------------------------------------------------------------------------
(* The invariant and the steps of ProcessLife.                             *)

\* What else the lists stay sound by: tasks wait for processes of the lists.
Inv ==
    /\ Typed(mAppList, mAppWaitingAttach, child)
    /\ pend \in [Pid -> Seq(Target)] /\ stale \in [Pid -> Nat] /\ boot \in Seq(Target)
    /\ ListsAreSound
    /\ TasksAwaitTheirProcess

phases == [p \in Pid |-> Phase(p)]

Good == Inv' /\ [Life!Next]_phases

LEMMA InitInv == Init => Inv /\ Life!Init
<1> SUFFICES ASSUME Init PROVE Inv /\ Life!Init
  OBVIOUS
<1>1. <<>> \in Seq(App) /\ <<>> \in Seq(Waiting) /\ <<>> \in Seq(Target) /\ Boot \in Seq(Target)
  BY BootAssumption
<1>2. /\ mAppList = <<>> /\ mAppWaitingAttach = <<>> /\ boot = Boot
      /\ child = [p \in Pid |-> "NONE"] /\ pend = [p \in Pid |-> <<>>]
      /\ stale = [p \in Pid |-> 0]
  BY DEF Init
<1>3. DOMAIN mAppList = {} /\ DOMAIN mAppWaitingAttach = {}
  BY <1>2
<1>4. Typed(mAppList, mAppWaitingAttach, child)
  BY <1>1, <1>2 DEF Typed, Status
<1>5. ListsAreSound
  BY <1>2, <1>3 DEF ListsAreSound, Sound, Pids, Alive, Attaching
<1>6. TasksAwaitTheirProcess
  BY <1>2 DEF TasksAwaitTheirProcess, Awaited
<1>7. ASSUME NEW p \in Pid PROVE Phase(p) = "free"
  BY <1>3 DEF Phase, PhaseIn, Has, HasIn
<1>8. QED
  BY <1>1, <1>2, <1>4, <1>5, <1>6, <1>7 DEF Inv, Life!Init

LEMMA OneBecomes ==
    ASSUME NEW p \in Pid, \A q \in Pid \ {p} : Phase(q)' = Phase(q)
    PROVE  Life!Becomes(p, Phase(p)')
BY DEF Life!Becomes

LEMMA NoneBecomes ==
    ASSUME \A q \in Pid : Phase(q)' = Phase(q)
    PROVE  UNCHANGED phases
BY DEF phases

\* The lists are what they were, and child tells the same of them.
LEMMA ListsStay ==
    ASSUME Inv, UNCHANGED <<mAppWaitingAttach, mAppList, pend, stale>>,
           boot' \in Seq(Target), child' \in [Pid -> Status],
           \A p \in Pid : child'[p] = "NONE" <=> child[p] = "NONE"
    PROVE  Good
<1>1. Typed(mAppList, mAppWaitingAttach, child)'
  BY DEF Inv, Typed
<1>2. {p \in Pid : child'[p] # "NONE"} = {p \in Pid : child[p] # "NONE"}
  OBVIOUS
<1>3. ListsAreSound'
  BY <1>2 DEF Inv, ListsAreSound, Sound
<1>4. TasksAwaitTheirProcess'
  BY DEF Inv, TasksAwaitTheirProcess
<1>5. \A q \in Pid : Phase(q)' = Phase(q)
  BY DEF Phase
<1>6. QED
  BY <1>1, <1>3, <1>4, <1>5, NoneBecomes DEF Good, Inv

LEMMA StartGood ==
    ASSUME Inv, NEW n \in Name, NEW kind \in Kind,
           Start(mAppList, mAppWaitingAttach, child, n, kind),
           boot' \in Seq(Target), UNCHANGED stale
    PROVE  Good
<1>1. /\ Typed(mAppList, mAppWaitingAttach, child)
      /\ Sound(mAppList, mAppWaitingAttach, child)
      /\ pend \in [Pid -> Seq(Target)] /\ stale \in [Pid -> Nat]
      /\ Awaited(mAppWaitingAttach, pend, stale)
  BY DEF Inv, ListsAreSound, TasksAwaitTheirProcess
<1>2. /\ Typed(mAppList', mAppWaitingAttach', child')
      /\ Sound(mAppList', mAppWaitingAttach', child')
      /\ pend' \in [Pid -> Seq(Target)] /\ Awaited(mAppWaitingAttach', pend', stale)
      /\ \/ \A q \in Pid : PhaseIn(mAppList', mAppWaitingAttach', q)
                              = PhaseIn(mAppList, mAppWaitingAttach, q)
         \/ \E p \in Pid :
               /\ PhaseIn(mAppList, mAppWaitingAttach, p) = "free"
               /\ PhaseIn(mAppList', mAppWaitingAttach', p) = "launching"
               /\ \A q \in Pid \ {p} : PhaseIn(mAppList', mAppWaitingAttach', q)
                                          = PhaseIn(mAppList, mAppWaitingAttach, q)
  BY <1>1, Started
<1>3. Inv'
  BY <1>1, <1>2 DEF Inv, ListsAreSound, TasksAwaitTheirProcess
<1>4. CASE \A q \in Pid : Phase(q)' = Phase(q)
  BY <1>3, <1>4, NoneBecomes DEF Good
<1>5. CASE \E p \in Pid : /\ Phase(p) = "free" /\ Phase(p)' = "launching"
                          /\ \A q \in Pid \ {p} : Phase(q)' = Phase(q)
  <2>1. PICK p \in Pid : /\ Phase(p) = "free" /\ Phase(p)' = "launching"
                         /\ \A q \in Pid \ {p} : Phase(q)' = Phase(q)
    BY <1>5
  <2>2. Life!Becomes(p, "launching")
    BY <2>1, OneBecomes
  <2>3. Life!Launch(p)
    BY <2>1, <2>2 DEF Life!Launch
  <2>4. QED
    BY <1>3, <2>3 DEF Good, Life!Next
<1>6. QED
  BY <1>2, <1>4, <1>5 DEF Phase

LEMMA UpdateGood ==
    ASSUME Inv, NEW i \in DOMAIN mAppList, NEW app \in App, UpdateApp(i, app),
           UNCHANGED <<mAppWaitingAttach, pend, child, boot, stale>>,
           app.name = mAppList[i].name, app.pid = mAppList[i].pid,
           app.mStatus = mAppList[i].mStatus \/ app.mStatus = "STOPPING"
    PROVE  Good
<1>1. /\ Typed(mAppList, mAppWaitingAttach, child)' /\ ListsAreSound'
      /\ \A q \in Pid \ {app.pid} : Phase(q)' = Phase(q)
      /\ \/ Phase(app.pid)' = Phase(app.pid)
         \/ Phase(app.pid) = "live" /\ Phase(app.pid)' = "stopping"
  BY UpdateAppSound DEF Inv
<1>2. TasksAwaitTheirProcess'
  BY DEF Inv, TasksAwaitTheirProcess
<1>3. Inv'
  BY <1>1, <1>2 DEF Inv
<1>4. app.pid \in Pid
  BY DEF App
<1>5. CASE Phase(app.pid)' = Phase(app.pid)
  <2>1. \A q \in Pid : Phase(q)' = Phase(q)
    BY <1>1, <1>5
  <2>2. QED
    BY <1>3, <2>1, NoneBecomes DEF Good
<1>6. CASE Phase(app.pid) = "live" /\ Phase(app.pid)' = "stopping"
  <2>1. Life!Becomes(app.pid, "stopping")
    BY <1>1, <1>4, <1>6, OneBecomes
  <2>2. Life!Stop(app.pid)
    BY <1>4, <1>6, <2>1 DEF Life!Stop
  <2>3. QED
    BY <1>3, <1>4, <2>2 DEF Good, Life!Next
<1>7. QED
  BY <1>1, <1>5, <1>6

LEMMA StoppedKeeps ==
    ASSUME NEW app \in App
    PROVE  /\ Stopped(app) \in App
           /\ Stopped(app).name = app.name /\ Stopped(app).pid = app.pid
           /\ Stopped(app).mStatus = "STOPPING"
<1>1. CASE app.mStatus = "RUNNING"
  BY <1>1 DEF Stopped, App
<1>2. CASE app.mStatus # "RUNNING"
  BY <1>2 DEF Stopped, App
<1>3. QED
  BY <1>1, <1>2

LEMMA FinishGood == ASSUME Inv, FinishActivity PROVE Good
<1>1. PICK i \in DOMAIN mAppList :
         /\ mAppList[i].parts.front > 0
         /\ UpdateApp(i, [mAppList[i] EXCEPT !.parts.front = @ - 1, !.parts.leaving = @ + 1])
  BY DEF FinishActivity
<1> DEFINE app == [mAppList[i] EXCEPT !.parts.front = @ - 1, !.parts.leaving = @ + 1]
<1>2. mAppList[i] \in App
  BY DEF Inv, Typed
<1>3. /\ app \in App /\ app.name = mAppList[i].name /\ app.pid = mAppList[i].pid
      /\ app.mStatus = mAppList[i].mStatus
  <2> DEFINE old == mAppList[i].parts
             parts == [old EXCEPT !.front = old.front - 1, !.leaving = old.leaving + 1]
  <2>1. old \in Parts /\ old.front > 0
    BY <1>1, <1>2 DEF App
  <2>2. parts \in Parts
    <3> HIDE DEF old
    <3>1. old.front - 1 \in Nat /\ old.leaving + 1 \in Nat
      BY <2>1 DEF Parts
    <3>2. QED
      BY <2>1, <3>1 DEF Parts
  <2>3. app = [mAppList[i] EXCEPT !.parts = parts]
    BY <1>2, <2>1 DEF App, Parts
  <2> HIDE DEF parts, old
  <2>4. QED
    BY <1>2, <2>2, <2>3 DEF App
<1> HIDE DEF app
<1>4. UpdateApp(i, app)
  BY <1>1 DEF app
<1>5. QED
  BY <1>3, <1>4, UpdateGood DEF FinishActivity, handlerVars

LEMMA DestroyedGood == ASSUME Inv, ReportDestroyed PROVE Good
<1>1. PICK i \in DOMAIN mAppList, part \in DOMAIN NoParts :
         LET app == mAppList[i]
             rest == [app EXCEPT !.parts[part] = @ - 1]
         IN /\ app.parts[part] > 0
            /\ UpdateApp(i, IF rest.parts = NoParts THEN Stopped(rest) ELSE rest)
  BY DEF ReportDestroyed
<1> DEFINE app == mAppList[i]
           rest == [app EXCEPT !.parts[part] = @ - 1]
           new == IF rest.parts = NoParts THEN Stopped(rest) ELSE rest
<1>2. app \in App
  BY DEF Inv, Typed
<1>3. app.parts[part] > 0 /\ UpdateApp(i, new)
  BY <1>1
<1>4. part \in {"front", "leaving", "services"}
  BY DEF NoParts
<1>5. /\ rest \in App /\ rest.name = app.name /\ rest.pid = app.pid
      /\ rest.mStatus = app.mStatus
  <2>1. CASE part = "front"
    BY <1>2, <1>3, <2>1 DEF App, Parts
  <2>2. CASE part = "leaving"
    BY <1>2, <1>3, <2>2 DEF App, Parts
  <2>3. CASE part = "services"
    BY <1>2, <1>3, <2>3 DEF App, Parts
  <2>4. QED
    BY <1>4, <2>1, <2>2, <2>3
<1> HIDE DEF rest
<1>6. /\ new \in App /\ new.name = app.name /\ new.pid = app.pid
      /\ new.mStatus = app.mStatus \/ new.mStatus = "STOPPING"
  <2>1. CASE rest.parts = NoParts
    BY <1>5, <2>1, StoppedKeeps
  <2>2. CASE rest.parts # NoParts
    BY <1>5, <2>2
  <2>3. QED
    BY <2>1, <2>2
<1> HIDE DEF new
<1>7. QED
  BY <1>3, <1>6, UpdateGood DEF ReportDestroyed, handlerVars

LEMMA StopGood == ASSUME Inv, StopApplication PROVE Good
<1>1. PICK i \in DOMAIN mAppList : UpdateApp(i, Stopped(mAppList[i]))
  BY DEF StopApplication
<1>2. mAppList[i] \in App
  BY DEF Inv, Typed
<1>3. QED
  BY <1>1, <1>2, StoppedKeeps, UpdateGood DEF StopApplication, handlerVars

LEMMA AttachGood == ASSUME Inv, NEW p \in Pid, AttachApplication(p) PROVE Good
<1>1. /\ child[p] = "ATTACHING" /\ child' = [child EXCEPT ![p] = "RUNNING"]
      /\ boot' = boot /\ boot' \in Seq(Target)
  BY DEF AttachApplication, handlerVars, Inv
<1>2. CASE Has(mAppList, p) \/ ~Has(mAppWaitingAttach, p)
  <2>1. UNCHANGED <<mAppWaitingAttach, mAppList, pend, stale>>
    BY <1>2 DEF AttachApplication
  <2>2. child' \in [Pid -> Status] /\ \A q \in Pid : child'[q] = "NONE" <=> child[q] = "NONE"
    BY <1>1 DEF Inv, Typed, Status
  <2>3. QED
    BY <1>1, <2>1, <2>2, ListsStay
<1>3. CASE ~(Has(mAppList, p) \/ ~Has(mAppWaitingAttach, p))
  <2> DEFINE i == CHOOSE i \in DOMAIN mAppWaitingAttach : mAppWaitingAttach[i].pid = p
             n == mAppWaitingAttach[i].name
             app == Holds(Record(n, p), pend[p])
  <2>1. i \in DOMAIN mAppWaitingAttach /\ mAppWaitingAttach[i].pid = p
    BY <1>3 DEF Has
  <2>2. /\ mAppWaitingAttach' = Without(mAppWaitingAttach, p)
        /\ mAppList' = Added(mAppList, app)
        /\ pend' = [pend EXCEPT ![p] = <<>>] /\ stale' = [stale EXCEPT ![p] = 0]
    BY <1>3 DEF AttachApplication, Added
  <2> HIDE DEF i
  <2>3. n \in Name
    <3>1. mAppWaitingAttach \in Seq(Waiting)
      BY DEF Inv, Typed
    <3>2. mAppWaitingAttach[i] \in Waiting
      BY <2>1, <3>1
    <3>3. QED
      BY <3>2 DEF Waiting
  <2>4. /\ app \in App /\ app.name = n /\ app.pid = p /\ app.mStatus = "RUNNING"
    BY <2>3, HoldsKeeps DEF Inv
  <2> HIDE DEF app
  <2>5. /\ Typed(mAppList, mAppWaitingAttach, child)
        /\ Sound(mAppList, mAppWaitingAttach, child)
        /\ Awaited(mAppWaitingAttach, pend, stale)
    BY DEF Inv, ListsAreSound, TasksAwaitTheirProcess
  <2>6. child' = Marked(child, app.pid, "RUNNING")
        /\ mAppWaitingAttach' = Without(mAppWaitingAttach, app.pid)
    BY <1>1, <2>2, <2>4 DEF Marked
  <2>7. /\ Typed(mAppList', mAppWaitingAttach', child')
        /\ Sound(mAppList', mAppWaitingAttach', child')
        /\ \A k \in DOMAIN mAppWaitingAttach : mAppWaitingAttach[k].pid # p =>
              \E m \in DOMAIN mAppWaitingAttach' : mAppWaitingAttach'[m] = mAppWaitingAttach[k]
        /\ PhaseIn(mAppList, mAppWaitingAttach, p) = "launching"
        /\ PhaseIn(mAppList', mAppWaitingAttach', p) = "live"
        /\ \A q \in Pid \ {p} : PhaseIn(mAppList', mAppWaitingAttach', q)
                                   = PhaseIn(mAppList, mAppWaitingAttach, q)
    <3>1. /\ i \in DOMAIN mAppWaitingAttach /\ app.name = mAppWaitingAttach[i].name
          /\ app.pid = mAppWaitingAttach[i].pid /\ child[app.pid] = "ATTACHING"
      BY <1>1, <2>1, <2>4
    <3> HIDE DEF n
    <3>2. /\ Typed(mAppList', mAppWaitingAttach', child')
          /\ Sound(mAppList', mAppWaitingAttach', child')
          /\ \A k \in DOMAIN mAppWaitingAttach : mAppWaitingAttach[k].pid # app.pid =>
                \E m \in DOMAIN mAppWaitingAttach' : mAppWaitingAttach'[m] = mAppWaitingAttach[k]
          /\ PhaseIn(mAppList, mAppWaitingAttach, app.pid) = "launching"
          /\ PhaseIn(mAppList', mAppWaitingAttach', app.pid) = "live"
          /\ \A q \in Pid \ {app.pid} : PhaseIn(mAppList', mAppWaitingAttach', q)
                                           = PhaseIn(mAppList, mAppWaitingAttach, q)
      BY <2>2, <2>4, <2>5, <2>6, <3>1, Moved
    <3>3. QED
      BY <2>4, <3>2
  <2>8. pend' \in [Pid -> Seq(Target)] /\ stale' \in [Pid -> Nat]
        /\ pend'[p] = <<>> /\ stale'[p] = 0
        /\ \A q \in Pid \ {p} : pend'[q] = pend[q] /\ stale'[q] = stale[q]
    BY <2>2 DEF Inv
  <2>9. TasksAwaitTheirProcess'
    <3>1. SUFFICES ASSUME NEW q \in Pid, NEW k \in (stale'[q] + 1)..Len(pend'[q])
                   PROVE  \E m \in DOMAIN mAppWaitingAttach' :
                             mAppWaitingAttach'[m] = [name |-> pend'[q][k].name, pid |-> q]
      BY DEF TasksAwaitTheirProcess, Awaited
    <3>2. q # p
      BY <2>8, <3>1
    <3>3. PICK m \in DOMAIN mAppWaitingAttach :
             mAppWaitingAttach[m] = [name |-> pend[q][k].name, pid |-> q]
      BY SMTT(30), <2>5, <2>8, <3>2 DEF Awaited
    <3>4. QED
      BY SMTT(30), <2>7, <2>8, <3>2, <3>3
  <2>10. Inv'
    BY <1>1, <2>7, <2>8, <2>9 DEF Inv, ListsAreSound
  <2>11. /\ Phase(p) = "launching" /\ Phase(p)' = "live"
         /\ \A q \in Pid \ {p} : Phase(q)' = Phase(q)
    BY <2>7 DEF Phase
  <2>12. Life!Attach(p)
    BY <2>11, OneBecomes DEF Life!Attach
  <2>13. QED
    BY <2>10, <2>12 DEF Good, Life!Next
<1>4. QED
  BY <1>2, <1>3

\* A process that the system still keeps is in one of the lists.
LEMMA KeptIsKnown ==
    ASSUME Inv, NEW p \in Pid, child[p] # "NONE"
    PROVE  Phase(p) # "free"
<1>1. Has(mAppList, p) \/ Has(mAppWaitingAttach, p)
  BY DistinctPids DEF Inv, ListsAreSound
<1>2. CASE Has(mAppWaitingAttach, p)
  BY <1>2 DEF Phase, PhaseIn
<1>3. CASE Has(mAppList, p)
  <2>1. PICK i \in DOMAIN mAppList : mAppList[i].pid = p
    BY <1>3 DEF Has
  <2>2. mAppList[i] \in App
    BY DEF Inv, Typed
  <2>3. HasIn(mAppList, p, "RUNNING") \/ HasIn(mAppList, p, "STOPPING")
    BY <2>1, <2>2 DEF HasIn, App
  <2>4. QED
    BY <2>3 DEF Phase, PhaseIn
<1>4. QED
  BY <1>1, <1>2, <1>3

LEMMA ReapGood == ASSUME Inv, NEW p \in Pid, Reap(p) PROVE Good
<1> DEFINE list == Without(mAppList, p)
           wait == Left(mAppList, mAppWaitingAttach, p)
           kids == Marked(child, p, "NONE")
           ended == [stale EXCEPT ![p] = Len(pend[p])]
<1>1. /\ child[p] = "ENDED" /\ stale' = ended /\ boot' = boot
      /\ \/ Unchanged(list, wait, kids) /\ pend' = pend
         \/ Start(list, wait, kids, Home, "ACTIVITY")
  BY DEF Reap, handlerVars, Left, Marked
<1>2. /\ Typed(mAppList, mAppWaitingAttach, child)
      /\ Sound(mAppList, mAppWaitingAttach, child)
      /\ pend \in [Pid -> Seq(Target)] /\ stale \in [Pid -> Nat]
      /\ Awaited(mAppWaitingAttach, pend, stale)
  BY DEF Inv, ListsAreSound, TasksAwaitTheirProcess
<1>3. /\ Typed(list, wait, kids) /\ Sound(list, wait, kids)
      /\ \A i \in DOMAIN mAppWaitingAttach : mAppWaitingAttach[i].pid # p =>
            \E k \in DOMAIN wait : wait[k] = mAppWaitingAttach[i]
      /\ PhaseIn(list, wait, p) = "free"
      /\ \A q \in Pid \ {p} :
            PhaseIn(list, wait, q) = PhaseIn(mAppList, mAppWaitingAttach, q)
  BY <1>2, Forgotten
<1>4. /\ ended \in [Pid -> Nat] /\ ended[p] = Len(pend[p])
      /\ \A q \in Pid \ {p} : ended[q] = stale[q]
  BY <1>2
<1> HIDE DEF list, wait, kids, ended
<1>5. Awaited(wait, pend, ended)
  <2>1. SUFFICES ASSUME NEW q \in Pid, NEW k \in (ended[q] + 1)..Len(pend[q])
                 PROVE  \E i \in DOMAIN wait : wait[i] = [name |-> pend[q][k].name, pid |-> q]
    BY DEF Awaited
  <2>2. q # p
    <3>1. Len(pend[p]) \in Nat
      BY <1>2
    <3>2. QED
      BY <1>4, <2>1, <3>1
  <2>3. PICK m \in DOMAIN mAppWaitingAttach :
           mAppWaitingAttach[m] = [name |-> pend[q][k].name, pid |-> q]
    BY <1>2, <1>4, <2>2 DEF Awaited
  <2>4. mAppWaitingAttach[m].pid # p
    BY <2>2, <2>3
  <2>5. QED
    BY <1>3, <2>3, <2>4
<1>6. /\ Typed(mAppList', mAppWaitingAttach', child')
      /\ Sound(mAppList', mAppWaitingAttach', child')
      /\ pend' \in [Pid -> Seq(Target)] /\ Awaited(mAppWaitingAttach', pend', ended)
      /\ \/ \A q \in Pid : PhaseIn(mAppList', mAppWaitingAttach', q) = PhaseIn(list, wait, q)
         \/ \E q \in Pid :
               /\ PhaseIn(list, wait, q) = "free"
               /\ PhaseIn(mAppList', mAppWaitingAttach', q) = "launching"
               /\ \A r \in Pid \ {q} :
                     PhaseIn(mAppList', mAppWaitingAttach', r) = PhaseIn(list, wait, r)
  <2>1. CASE Unchanged(list, wait, kids) /\ pend' = pend
    BY <1>2, <1>3, <1>5, <2>1 DEF Unchanged
  <2>2. CASE Start(list, wait, kids, Home, "ACTIVITY")
    <3>1. PICK n \in Name, kind \in Kind : n = Home /\ kind = "ACTIVITY"
      BY NameAssumption DEF Kind
    <3>2. Start(list, wait, kids, n, kind)
      BY <2>2, <3>1
    <3>3. Typed(list, wait, kids) /\ Sound(list, wait, kids) /\ pend \in [Pid -> Seq(Target)]
      BY <1>2, <1>3
    <3>4. QED
      BY <1>4, <1>5, <3>2, <3>3, Started
  <2>3. QED
    BY <1>1, <2>1, <2>2
<1>7. Inv'
  BY <1>1, <1>4, <1>6 DEF Inv, ListsAreSound, TasksAwaitTheirProcess
<1>8. Phase(p) # "free"
  BY <1>1, KeptIsKnown
<1>9. \A q \in Pid : /\ Phase(q)' = PhaseIn(mAppList', mAppWaitingAttach', q)
                     /\ q # p => PhaseIn(list, wait, q) = Phase(q)
  BY <1>3 DEF Phase
<1>10. CASE \A q \in Pid : PhaseIn(mAppList', mAppWaitingAttach', q) = PhaseIn(list, wait, q)
  <2>1. Phase(p)' = "free" /\ \A q \in Pid \ {p} : Phase(q)' = Phase(q)
    BY <1>3, <1>9, <1>10
  <2>2. Life!Notice(p)
    BY <1>8, <2>1, OneBecomes DEF Life!Notice
  <2>3. QED
    BY <1>7, <2>2 DEF Good, Life!Next
<1>11. CASE \E q \in Pid :
               /\ PhaseIn(list, wait, q) = "free"
               /\ PhaseIn(mAppList', mAppWaitingAttach', q) = "launching"
               /\ \A r \in Pid \ {q} :
                     PhaseIn(mAppList', mAppWaitingAttach', r) = PhaseIn(list, wait, r)
  <2>1. PICK q \in Pid :
               /\ PhaseIn(list, wait, q) = "free"
               /\ PhaseIn(mAppList', mAppWaitingAttach', q) = "launching"
               /\ \A r \in Pid \ {q} :
                     PhaseIn(mAppList', mAppWaitingAttach', r) = PhaseIn(list, wait, r)
    BY <1>11
  <2>2. q = p \/ Phase(q) = "free"
    BY <1>9, <2>1
  <2>3. /\ Phase(q)' = "launching" /\ (q # p => Phase(p)' = "free")
        /\ \A r \in Pid \ {p, q} : Phase(r)' = Phase(r)
    BY <1>3, <1>9, <2>1
  <2>4. phases' = [phases EXCEPT ![p] = "free", ![q] = "launching"]
    BY <2>3 DEF phases
  <2>5. Life!Notice(p)
    BY <1>8, <2>2, <2>4 DEF Life!Notice, phases
  <2>6. QED
    BY <1>7, <2>5 DEF Good, Life!Next
<1>12. QED
  BY <1>6, <1>10, <1>11

LEMMA NextGood == Inv /\ [Next]_vars => Good
<1> SUFFICES ASSUME Inv, [Next]_vars PROVE Good
  OBVIOUS
<1> USE DEF handlerVars
<1>0. boot \in Seq(Target) /\ child \in [Pid -> Status]
  BY DEF Inv, Typed
<1>1. CASE BootNext
  <2>1. /\ Head(boot) \in Target /\ boot' \in Seq(Target) /\ UNCHANGED stale
        /\ Start(mAppList, mAppWaitingAttach, child, Head(boot).name, Head(boot).kind)
    BY <1>0, <1>1 DEF BootNext
  <2>2. Head(boot).name \in Name /\ Head(boot).kind \in Kind
    BY <2>1 DEF Target
  <2>3. QED
    BY <2>1, <2>2, StartGood
<1>2. ASSUME NEW n \in WithActivity, StartActivity(n) PROVE Good
  <2>1. n \in Name /\ "ACTIVITY" \in Kind
    BY NameAssumption DEF Kind
  <2>2. QED
    BY <1>0, <1>2, <2>1, StartGood DEF StartActivity
<1>3. ASSUME NEW n \in WithService, StartService(n) PROVE Good
  <2>1. n \in Name /\ "SERVICE" \in Kind
    BY NameAssumption DEF Kind
  <2>2. QED
    BY <1>0, <1>3, <2>1, StartGood DEF StartService
<1>4. ASSUME NEW p \in Pid, CallAttach(p) PROVE Good
  <2>1. child' \in [Pid -> Status] /\ \A q \in Pid : child'[q] = "NONE" <=> child[q] = "NONE"
    BY <1>0, <1>4 DEF CallAttach, Status
  <2>2. QED
    BY <1>0, <1>4, <2>1, ListsStay DEF CallAttach
<1>5. ASSUME NEW p \in Pid, End(p) PROVE Good
  <2>1. child' \in [Pid -> Status] /\ \A q \in Pid : child'[q] = "NONE" <=> child[q] = "NONE"
    BY <1>0, <1>5 DEF End, Status
  <2>2. QED
    BY <1>0, <1>5, <2>1, ListsStay DEF End
<1>6. CASE UNCHANGED <<listVars, boot, stale>>
  BY <1>0, <1>6, ListsStay DEF listVars
<1>7. CASE \/ SigChld \/ SigChldReturns \/ UNCHANGED vars
           \/ \E r \in Guest : UnregisterReceiver(r) \/ \E a \in Action : RegisterReceiver(r, a)
  BY <1>6, <1>7 DEF SigChld, SigChldReturns, UnregisterReceiver, RegisterReceiver, vars
<1>8. QED
  BY <1>1, <1>2, <1>3, <1>4, <1>5, <1>7, AttachGood, ReapGood, StopGood, FinishGood,
     DestroyedGood DEF Next

-----------------------------------------------------------------------------
LEMMA Invariant == Spec => []Inv
BY InitInv, NextGood, PTL DEF Spec, Good

(* However processes are launched, end, are waited for and give their ids  *)
(* to others, AppInfoList knows each of them once and never has two of one *)
(* name that may be given components.                                      *)
THEOREM ListsAreSoundAlways == Spec => []ListsAreSound
BY Invariant, PTL DEF Inv

(* AppAttachTask is executed for a process that was launched for it, where *)
(* the one it was committed for has not ended before it attached.          *)
THEOREM TasksAwaitAlways == Spec => []TasksAwaitTheirProcess
BY Invariant, PTL DEF Inv

(* The two lists and the status of the records implement ProcessLife.      *)
THEOREM LivesItsLifeAlways == Spec => LivesItsLife
<1>1. Inv /\ [Next]_vars => [Life!Next]_phases
  BY NextGood DEF Good
<1>2. QED
  BY <1>1, InitInv, Invariant, PTL DEF Spec, LivesItsLife, Life!Spec, phases

-----------------------------------------------------------------------------
(* What the watchers are told.                                             *)

Named(list, n) == {i \in DOMAIN list : list[i].name = n}
Holders(list, n) == {list[i].pid : i \in Named(list, n)}

\* Where no two records have one pid, the records of a name are as many as
\* their pids.
LEMMA HoldersCount ==
    ASSUME NEW list \in Seq(App), NEW n,
           \A i, j \in DOMAIN list : list[i].pid = list[j].pid => i = j
    PROVE  /\ IsFiniteSet(Named(list, n)) /\ IsFiniteSet(Holders(list, n))
           /\ Cardinality(Named(list, n)) \in Nat
           /\ Cardinality(Holders(list, n)) = Cardinality(Named(list, n))
<1>1. DOMAIN list = 1..Len(list) /\ Len(list) \in Nat
  OBVIOUS
<1>2. IsFiniteSet(1..Len(list))
  BY <1>1, FS_Interval
<1>3. Named(list, n) \subseteq 1..Len(list)
  BY <1>1 DEF Named
<1>4. IsFiniteSet(Named(list, n))
  BY <1>2, <1>3, FS_Subset
<1> DEFINE f == [i \in Named(list, n) |-> list[i].pid]
<1>5. f \in Bijection(Named(list, n), Holders(list, n))
  <2>1. f \in [Named(list, n) -> Holders(list, n)]
    BY DEF Holders
  <2>2. \A i, j \in Named(list, n) : f[i] = f[j] => i = j
    BY DEF Named
  <2>3. \A q \in Holders(list, n) : \E i \in Named(list, n) : f[i] = q
    BY DEF Holders
  <2> HIDE DEF f
  <2>4. QED
    BY <2>1, <2>2, <2>3 DEF Bijection, Injection, Surjection, IsInjective
<1>6. ExistsBijection(Named(list, n), Holders(list, n))
  BY <1>5 DEF ExistsBijection
<1>7. QED
  BY <1>4, <1>6, FS_Bijection, FS_CardinalityType

NamesAre(list) ==
    /\ DOMAIN mAppList' = DOMAIN list
    /\ \A i \in DOMAIN list : mAppList'[i].name = list[i].name

\* Starting a component leaves the names of the records.
LEMMA StartNames ==
    ASSUME NEW list \in Seq(App), NEW wait, NEW kids, NEW n \in Name, NEW kind \in Kind,
           Start(list, wait, kids, n, kind)
    PROVE  NamesAre(list)
<1>1. CASE mAppList' = list
  BY <1>1 DEF NamesAre
<1>2. CASE Host(list, wait, kids, n, kind)
  <2> DEFINE k == First(Alive(list, n))
  <2> HIDE DEF k
  <2>1. mAppList' = [list EXCEPT ![k] = Holding(list[k], kind)]
    BY <1>2 DEF Host, Unchanged, k
  <2>2. \A i \in DOMAIN list : list[i] \in App
    OBVIOUS
  <2>3. k \in DOMAIN list => Holding(list[k], kind).name = list[k].name
    BY <2>2, HoldingKeeps
  <2>4. QED
    BY <2>1, <2>3 DEF NamesAre
<1>3. QED
  BY <1>1, <1>2 DEF Start, Join, Spawn, SpawnFails, Unchanged

LEMMA UpdateNames ==
    ASSUME NEW i \in DOMAIN mAppList, NEW app, UpdateApp(i, app), app.name = mAppList[i].name
    PROVE  NamesAre(mAppList)
BY DEF UpdateApp, NamesAre

\* A watcher is registered for each of the two broadcasts, once.
Once(list) ==
    \A w \in Watcher : \E i \in DOMAIN list : \A j \in DOMAIN list : list[j] = w <=> j = i

Watched ==
    /\ receivers \in [Action -> Seq(Watcher \cup Guest)]
    /\ told \in [Watcher -> [Name -> Int]]
    /\ \A a \in Action : Once(receivers[a])
    /\ WatchersAgree

LEMMA OnceIsOne ==
    ASSUME Watched, NEW a \in Action, NEW w \in Watcher
    PROVE  Times(a, w) = 1
<1>1. PICK i \in DOMAIN receivers[a] :
         \A j \in DOMAIN receivers[a] : receivers[a][j] = w <=> j = i
  BY DEF Watched, Once
<1>2. {j \in DOMAIN receivers[a] : receivers[a][j] = w} = {i}
  BY <1>1
<1>3. QED
  BY <1>2, FS_Singleton DEF Times

LEMMA InitOnce ==
    ASSUME NEW s \in [1..Cardinality(Watcher) -> Watcher],
           \A w \in Watcher : \E i \in DOMAIN s : s[i] = w
    PROVE  Once(s)
<1> DEFINE N == Cardinality(Watcher)
<1>1. IsFiniteSet(Watcher) /\ N \in Nat
  BY ReceiverAssumption, FS_CardinalityType
<1>2. IsFiniteSet(1..N) /\ Cardinality(1..N) = N
  BY <1>1, FS_Interval
<1> HIDE DEF N
<1>3. s \in [1..N -> Watcher]
  BY DEF N
<1>4. s \in Surjection(1..N, Watcher)
  BY <1>3 DEF Surjection
<1>5. s \in Injection(1..N, Watcher)
  BY <1>2, <1>4, FS_SurjSameCardinalityImpliesInj DEF N
<1>6. \A i, j \in DOMAIN s : s[i] = s[j] => i = j
  BY <1>3, <1>5 DEF Injection, IsInjective
<1>7. QED
  BY <1>6 DEF Once

\* A guest that comes or goes leaves the watchers registered once.
LEMMA OnceAppended ==
    ASSUME NEW list \in Seq(Watcher \cup Guest), Once(list), NEW r \in Guest
    PROVE  Append(list, r) \in Seq(Watcher \cup Guest) /\ Once(Append(list, r))
<1> DEFINE new == Append(list, r)
           last == Len(list) + 1
<1>1. /\ Len(list) \in Nat /\ DOMAIN list = 1..Len(list) /\ DOMAIN new = 1..last
      /\ new[last] = r /\ \A j \in DOMAIN list : new[j] = list[j]
      /\ new \in Seq(Watcher \cup Guest)
  OBVIOUS
<1> HIDE DEF new
<1>2. DOMAIN new = DOMAIN list \cup {last} /\ last \notin DOMAIN list
  BY <1>1
<1>3. ASSUME NEW w \in Watcher PROVE \E i \in DOMAIN new : \A j \in DOMAIN new : new[j] = w <=> j = i
  <2>1. PICK i \in DOMAIN list : \A j \in DOMAIN list : list[j] = w <=> j = i
    BY DEF Once
  <2>2. r # w
    BY ReceiverAssumption
  <2>3. \A j \in DOMAIN new : new[j] = w <=> j = i
    BY <1>1, <1>2, <2>1, <2>2
  <2>4. QED
    BY <1>2, <2>1, <2>3
<1>4. QED
  BY <1>1, <1>3 DEF Once, new

LEMMA OnceErased ==
    ASSUME NEW list \in Seq(Watcher \cup Guest), Once(list), NEW r \in Guest
    PROVE  EraseOne(list, r) \in Seq(Watcher \cup Guest) /\ Once(EraseOne(list, r))
<1> DEFINE at == {i \in DOMAIN list : list[i] = r}
           f == First(at)
           n == Len(list)
           new == EraseOne(list, r)
<1>1. CASE at = {}
  BY <1>1 DEF EraseOne
<1>2. CASE at # {}
  <2>1. n \in Nat /\ DOMAIN list = 1..n
    OBVIOUS
  <2>2. f \in at
    <3>1. at \in SUBSET Nat
      BY <2>1
    <3>2. \E m \in at : \A k \in at : m <= k
      <4> HIDE DEF at
      <4>1. QED
        BY <1>2, <3>1, LeastNat
    <3>3. QED
      BY <3>2 DEF First
  <2>3. f \in 1..n /\ list[f] = r
    BY <2>1, <2>2
  <2>4. new = [k \in 1..(n - 1) |-> IF k < f THEN list[k] ELSE list[k + 1]]
    BY <1>2 DEF EraseOne
  <2> HIDE DEF f, at, n, new
  <2>5. n - 1 \in Nat /\ f \in Int /\ \A k \in 1..(n - 1) : k \in 1..n /\ k + 1 \in 1..n
    BY <2>1, <2>3
  <2>6. \A k \in 1..n : list[k] \in Watcher \cup Guest
    BY <2>1
  <2>7. new \in [1..(n - 1) -> Watcher \cup Guest] /\ DOMAIN new = 1..(n - 1)
    BY <2>4, <2>5, <2>6
  <2>8. new \in Seq(Watcher \cup Guest)
    BY <2>5, <2>7, SeqDef
  <2>9. ASSUME NEW w \in Watcher
        PROVE  \E i \in DOMAIN new : \A j \in DOMAIN new : new[j] = w <=> j = i
    <3> DEFINE Here(i, D) == \A j \in D : list[j] = w <=> j = i
    <3>0. \E i \in DOMAIN list : Here(i, DOMAIN list)
      BY DEF Once
    <3> HIDE DEF Here
    <3>1. PICK i \in 1..n : Here(i, 1..n)
      BY Zenon, <2>1, <3>0
    <3> USE DEF Here
    <3>2. i # f
      BY <2>3, <3>1, ReceiverAssumption
    <3> DEFINE k == IF i < f THEN i ELSE i - 1
    <3>3. k \in 1..(n - 1)
      BY <2>1, <2>3, <3>2
    <3>4. ASSUME NEW j \in 1..(n - 1) PROVE new[j] = w <=> j = k
      <4>1. CASE j < f
        BY <2>3, <2>4, <2>5, <3>1, <3>2, <4>1
      <4>2. CASE ~(j < f)
        BY <2>3, <2>4, <2>5, <3>1, <3>2, <4>2
      <4>3. QED
        BY <4>1, <4>2
    <3> HIDE DEF k
    <3>5. QED
      BY <2>7, <3>3, <3>4
  <2>10. QED
    BY <2>8, <2>9 DEF Once, new
<1>3. QED
  BY <1>1, <1>2

LEMMA InitWatched == Init => Watched
<1> SUFFICES ASSUME Init PROVE Watched
  OBVIOUS
<1>1. /\ mAppList = <<>> /\ told = [w \in Watcher |-> [n \in Name |-> 0]]
      /\ receivers \in [Action -> {s \in [1..Cardinality(Watcher) -> Watcher] :
                                      \A w \in Watcher : \E i \in DOMAIN s : s[i] = w}]
  BY DEF Init
<1>2. ASSUME NEW a \in Action
      PROVE  Once(receivers[a]) /\ receivers[a] \in Seq(Watcher \cup Guest)
  <2>1. /\ receivers[a] \in [1..Cardinality(Watcher) -> Watcher]
        /\ \A w \in Watcher : \E i \in DOMAIN receivers[a] : receivers[a][i] = w
    BY <1>1
  <2>2. Cardinality(Watcher) \in Nat
    BY ReceiverAssumption, FS_CardinalityType
  <2>3. receivers[a] \in [1..Cardinality(Watcher) -> Watcher \cup Guest]
    BY <2>1
  <2>4. receivers[a] \in Seq(Watcher \cup Guest)
    BY <2>2, <2>3, SeqDef
  <2>5. QED
    BY <2>1, <2>4, InitOnce
<1>3. receivers \in [Action -> Seq(Watcher \cup Guest)]
  <2>1. DOMAIN receivers = Action /\ receivers = [a \in Action |-> receivers[a]]
    BY <1>1
  <2>2. QED
    BY <1>2, <2>1
<1>4. told \in [Watcher -> [Name -> Int]]
  BY <1>1
<1>5. WatchersAgree
  <2>1. \A n : {i \in DOMAIN mAppList : mAppList[i].name = n} = {}
    BY <1>1
  <2>2. QED
    BY <1>1, <2>1, FS_EmptySet DEF WatchersAgree
<1>6. QED
  BY <1>2, <1>3, <1>4, <1>5 DEF Watched

\* Where no record comes or goes the watchers still know them.
LEMMA NamesStay ==
    ASSUME Watched, NamesAre(mAppList), UNCHANGED castVars
    PROVE  Watched'
<1>1. \A n : {i \in DOMAIN mAppList' : mAppList'[i].name = n}
                 = {i \in DOMAIN mAppList : mAppList[i].name = n}
  BY DEF NamesAre
<1>2. WatchersAgree'
  BY <1>1 DEF Watched, WatchersAgree, castVars
<1>3. QED
  BY <1>2 DEF Watched, castVars

LEMMA AttachWatched == ASSUME Inv, Watched, NEW p \in Pid, AttachApplication(p) PROVE Watched'
<1>1. CASE Has(mAppList, p) \/ ~Has(mAppWaitingAttach, p)
  BY <1>1, NamesStay DEF AttachApplication, NamesAre, castVars
<1>2. CASE ~(Has(mAppList, p) \/ ~Has(mAppWaitingAttach, p))
  <2> DEFINE i == CHOOSE i \in DOMAIN mAppWaitingAttach : mAppWaitingAttach[i].pid = p
             n == mAppWaitingAttach[i].name
             app == Holds(Record(n, p), pend[p])
             last == Len(mAppList) + 1
  <2>1. i \in DOMAIN mAppWaitingAttach
    BY <1>2 DEF Has
  <2>2. /\ mAppList' = Append(mAppList, app) /\ told' = Told("START", n)
        /\ receivers' = receivers
    BY <1>2 DEF AttachApplication
  <2> HIDE DEF i
  <2>3. n \in Name
    <3>1. mAppWaitingAttach \in Seq(Waiting)
      BY DEF Inv, Typed
    <3>2. mAppWaitingAttach[i] \in Waiting
      BY <2>1, <3>1
    <3>3. QED
      BY <3>2 DEF Waiting
  <2>4. app \in App /\ app.name = n
    BY <2>3, HoldsKeeps DEF Inv
  <2> HIDE DEF app, n
  <2>5. /\ mAppList \in Seq(App)
        /\ \A j, k \in DOMAIN mAppList : mAppList[j].pid = mAppList[k].pid => j = k
    BY DistinctPids DEF Inv, Typed, ListsAreSound
  <2>6. /\ DOMAIN mAppList' = DOMAIN mAppList \cup {last} /\ last \notin DOMAIN mAppList
        /\ mAppList'[last] = app /\ \A j \in DOMAIN mAppList : mAppList'[j] = mAppList[j]
    BY <2>2, <2>4, <2>5
  <2>7. ASSUME NEW w \in Watcher, NEW m \in Name
        PROVE  told'[w][m] = Cardinality(Named(mAppList', m))
    <3>1. told[w] \in [Name -> Int] /\ Times("START", w) = 1
      BY OnceIsOne DEF Watched, Action
    <3>2. told'[w] = [told[w] EXCEPT ![n] = told[w][n] + Times("START", w)]
      BY <2>2 DEF Told
    <3>3. /\ told[w][m] = Cardinality(Named(mAppList, m))
          /\ IsFiniteSet(Named(mAppList, m)) /\ Cardinality(Named(mAppList, m)) \in Nat
      <4>1. told[w][m] = Cardinality(Named(mAppList, m))
        BY DEF Watched, WatchersAgree, Named
      <4>2. QED
        BY <2>5, <4>1, HoldersCount
    <3>4. CASE m = n
      <4>1. Named(mAppList', m) = Named(mAppList, m) \cup {last} /\ last \notin Named(mAppList, m)
        BY <2>4, <2>6, <3>4 DEF Named
      <4>2. Cardinality(Named(mAppList', m)) = Cardinality(Named(mAppList, m)) + 1
        BY <3>3, <4>1, FS_AddElement
      <4>3. told'[w][m] = told[w][m] + 1
        BY <3>1, <3>2, <3>4
      <4>4. QED
        BY <3>3, <4>2, <4>3
    <3>5. CASE m # n
      <4>1. Named(mAppList', m) = Named(mAppList, m)
        BY <2>4, <2>6, <3>5 DEF Named
      <4>2. told'[w][m] = told[w][m]
        BY <3>1, <3>2, <3>5
      <4>3. QED
        BY <3>3, <4>1, <4>2
    <3>6. QED
      BY <3>4, <3>5
  <2>8. told' \in [Watcher -> [Name -> Int]]
    <3>1. ASSUME NEW w \in Watcher
          PROVE  [told[w] EXCEPT ![n] = told[w][n] + Times("START", w)] \in [Name -> Int]
      BY OnceIsOne, <2>3, <2>4 DEF Watched, Action
    <3>2. told' = [w \in Watcher |-> [told[w] EXCEPT ![n] = told[w][n] + Times("START", w)]]
      BY <2>2 DEF Told
    <3>3. QED
      BY <3>1, <3>2
  <2>9. QED
    BY <2>2, <2>7, <2>8 DEF Watched, WatchersAgree, Named
<1>3. QED
  BY <1>1, <1>2

LEMMA ReapWatched == ASSUME Inv, Watched, NEW p \in Pid, Reap(p) PROVE Watched'
<1> DEFINE list == Without(mAppList, p)
           gone == (CHOOSE app \in {mAppList[i] : i \in DOMAIN mAppList} : app.pid = p)
<1>1. /\ mAppList' = list \/ \E wait, kids : Start(list, wait, kids, Home, "ACTIVITY")
      /\ told' = IF Has(mAppList, p) THEN Told("EXIT", gone.name) ELSE told
      /\ receivers' = receivers
  BY DEF Reap, Unchanged
<1>2. /\ mAppList \in Seq(App)
      /\ \A j, k \in DOMAIN mAppList : mAppList[j].pid = mAppList[k].pid => j = k
  BY DistinctPids DEF Inv, Typed, ListsAreSound
<1>3. /\ list \in Seq(App)
      /\ \A k \in DOMAIN list : \E i \in DOMAIN mAppList : list[k] = mAppList[i] /\ mAppList[i].pid # p
      /\ \A i \in DOMAIN mAppList : mAppList[i].pid # p => \E k \in DOMAIN list : list[k] = mAppList[i]
      /\ \A j, k \in DOMAIN list : list[j].pid = list[k].pid => j = k
  BY <1>2, WithoutEntry
<1>4. Has(mAppList, p) => \E i \in DOMAIN mAppList : gone = mAppList[i] /\ gone.pid = p
  BY DEF Has
<1> HIDE DEF list, gone
<1>5. NamesAre(list)
  <2>1. CASE mAppList' = list
    BY <2>1 DEF NamesAre
  <2>2. CASE \E wait, kids : Start(list, wait, kids, Home, "ACTIVITY")
    <3>1. PICK n \in Name, kind \in Kind : n = Home /\ kind = "ACTIVITY"
      BY NameAssumption DEF Kind
    <3>2. QED
      BY <1>3, <2>2, <3>1, StartNames
  <2>3. QED
    BY <1>1, <2>1, <2>2
<1>6. ASSUME NEW m PROVE Named(mAppList', m) = Named(list, m)
  BY <1>5 DEF NamesAre, Named
<1>7. ASSUME NEW m PROVE Holders(list, m) = Holders(mAppList, m) \ {p}
  <2>1. ASSUME NEW q \in Holders(list, m) PROVE q \in Holders(mAppList, m) /\ q # p
    BY <1>3, <2>1 DEF Holders, Named
  <2>2. ASSUME NEW q \in Holders(mAppList, m), q # p PROVE q \in Holders(list, m)
    BY <1>3, <2>2 DEF Holders, Named
  <2>3. QED
    BY <2>1, <2>2
<1>8. ASSUME NEW m
      PROVE  Cardinality(Named(list, m)) = IF p \in Holders(mAppList, m)
                                           THEN Cardinality(Named(mAppList, m)) - 1
                                           ELSE Cardinality(Named(mAppList, m))
  <2>1. /\ Cardinality(Holders(mAppList, m)) = Cardinality(Named(mAppList, m))
        /\ IsFiniteSet(Holders(mAppList, m))
    BY <1>2, HoldersCount
  <2>2. Cardinality(Holders(list, m)) = Cardinality(Named(list, m))
    BY <1>3, HoldersCount
  <2>3. QED
    BY <1>7, <2>1, <2>2, FS_RemoveElement
<1>9. ASSUME NEW m
      PROVE  p \in Holders(mAppList, m) <=> Has(mAppList, p) /\ gone.name = m
  BY <1>2, <1>4 DEF Holders, Named, Has
<1>10. ASSUME NEW w \in Watcher, NEW m \in Name
       PROVE  told[w] \in [Name -> Int] /\ told[w][m] = Cardinality(Named(mAppList, m))
  BY DEF Watched, WatchersAgree, Named
<1>11. CASE Has(mAppList, p)
  <2>1. gone.name \in Name
    <3>1. PICK i \in DOMAIN mAppList : gone = mAppList[i]
      BY <1>4, <1>11
    <3>2. mAppList[i] \in App
      BY <1>2
    <3>3. QED
      BY <3>1, <3>2 DEF App
  <2>2. told' = [w \in Watcher |-> [told[w] EXCEPT ![gone.name] = told[w][gone.name] - Times("EXIT", w)]]
    BY <1>1, <1>11 DEF Told
  <2>3. \A w \in Watcher : Times("EXIT", w) = 1
    BY OnceIsOne DEF Action
  <2>4. ASSUME NEW w \in Watcher, NEW m \in Name
        PROVE  told'[w][m] = Cardinality(Named(mAppList', m))
    <3>1. told'[w][m] = IF m = gone.name THEN told[w][m] - 1 ELSE told[w][m]
      BY <1>10, <2>2, <2>3
    <3>2. Cardinality(Named(mAppList', m)) = IF m = gone.name THEN Cardinality(Named(mAppList, m)) - 1
                                             ELSE Cardinality(Named(mAppList, m))
      BY <1>6, <1>8, <1>9, <1>11
    <3>3. QED
      BY <1>10, <3>1, <3>2
  <2>5. told' \in [Watcher -> [Name -> Int]]
    <3>1. ASSUME NEW w \in Watcher
          PROVE  [told[w] EXCEPT ![gone.name] = told[w][gone.name] - Times("EXIT", w)] \in [Name -> Int]
      BY <2>1, <2>3 DEF Watched
    <3>2. QED
      BY <2>2, <3>1
  <2>6. QED
    BY <1>1, <2>4, <2>5 DEF Watched, WatchersAgree, Named
<1>12. CASE ~Has(mAppList, p)
  <2>1. ASSUME NEW w \in Watcher, NEW m \in Name
        PROVE  told'[w][m] = Cardinality(Named(mAppList', m))
    BY <1>1, <1>6, <1>8, <1>9, <1>10, <1>12
  <2>2. QED
    BY <1>1, <1>12, <2>1 DEF Watched, WatchersAgree, Named
<1>13. QED
  BY <1>11, <1>12

LEMMA StartWatched ==
    ASSUME Inv, Watched, NEW n \in Name, NEW kind \in Kind,
           Start(mAppList, mAppWaitingAttach, child, n, kind), UNCHANGED castVars
    PROVE  Watched'
BY StartNames, NamesStay DEF Inv, Typed

LEMMA UpdateWatched ==
    ASSUME Watched, UNCHANGED castVars, NEW i \in DOMAIN mAppList, NEW app,
           UpdateApp(i, app), app.name = mAppList[i].name
    PROVE  Watched'
BY UpdateNames, NamesStay

LEMMA DestroyedWatched == ASSUME Inv, Watched, ReportDestroyed PROVE Watched'
<1>1. PICK i \in DOMAIN mAppList, part \in DOMAIN NoParts :
         LET app == mAppList[i]
             rest == [app EXCEPT !.parts[part] = @ - 1]
         IN UpdateApp(i, IF rest.parts = NoParts THEN Stopped(rest) ELSE rest)
  BY DEF ReportDestroyed
<1> DEFINE app == mAppList[i]
           rest == [app EXCEPT !.parts[part] = @ - 1]
           new == IF rest.parts = NoParts THEN Stopped(rest) ELSE rest
<1>2. app \in App
  BY DEF Inv, Typed
<1>3. UpdateApp(i, new)
  BY <1>1
<1>4. DOMAIN rest = DOMAIN app /\ rest.name = app.name
  BY <1>2 DEF App
<1> HIDE DEF rest
<1>5. Stopped(rest).name = rest.name
  BY <1>2, <1>4 DEF App, Stopped
<1>6. new.name = app.name
  BY <1>4, <1>5
<1> HIDE DEF new
<1>7. QED
  BY <1>3, <1>6, UpdateWatched DEF ReportDestroyed

LEMMA NextWatched == Inv /\ Watched /\ [Next]_vars => Watched'
<1> SUFFICES ASSUME Inv, Watched, [Next]_vars PROVE Watched'
  OBVIOUS
<1>1. CASE BootNext
  <2>1. Head(boot) \in Target
    BY <1>1 DEF BootNext, Inv
  <2>2. Head(boot).name \in Name /\ Head(boot).kind \in Kind
    BY <2>1 DEF Target
  <2>3. QED
    BY <1>1, <2>2, StartWatched DEF BootNext
<1>2. ASSUME NEW n \in WithActivity, StartActivity(n) PROVE Watched'
  <2>1. n \in Name /\ "ACTIVITY" \in Kind
    BY NameAssumption DEF Kind
  <2>2. QED
    BY <1>2, <2>1, StartWatched DEF StartActivity
<1>3. ASSUME NEW n \in WithService, StartService(n) PROVE Watched'
  <2>1. n \in Name /\ "SERVICE" \in Kind
    BY NameAssumption DEF Kind
  <2>2. QED
    BY <1>3, <2>1, StartWatched DEF StartService
<1>4. CASE StopApplication
  <2>1. PICK i \in DOMAIN mAppList : UpdateApp(i, Stopped(mAppList[i]))
    BY <1>4 DEF StopApplication
  <2>2. mAppList[i] \in App
    BY DEF Inv, Typed
  <2>3. QED
    BY <1>4, <2>1, <2>2, StoppedKeeps, UpdateWatched DEF StopApplication
<1>5. CASE FinishActivity
  <2>1. PICK i \in DOMAIN mAppList :
           UpdateApp(i, [mAppList[i] EXCEPT !.parts.front = @ - 1, !.parts.leaving = @ + 1])
    BY <1>5 DEF FinishActivity
  <2> DEFINE app == [mAppList[i] EXCEPT !.parts.front = @ - 1, !.parts.leaving = @ + 1]
  <2>2. mAppList[i] \in App
    BY DEF Inv, Typed
  <2>3. app.name = mAppList[i].name
    BY <2>2 DEF App
  <2>4. QED
    BY <1>5, <2>1, <2>3, UpdateWatched DEF FinishActivity
<1>6. ASSUME NEW r \in Guest, UnregisterReceiver(r) PROVE Watched'
  <2>1. /\ receivers' = [a \in Action |-> EraseOne(receivers[a], r)] /\ told' = told
        /\ mAppList' = mAppList
    BY <1>6 DEF UnregisterReceiver, listVars
  <2>2. ASSUME NEW a \in Action
        PROVE  /\ EraseOne(receivers[a], r) \in Seq(Watcher \cup Guest)
               /\ Once(EraseOne(receivers[a], r))
    <3>1. receivers[a] \in Seq(Watcher \cup Guest) /\ Once(receivers[a])
      BY DEF Watched
    <3>2. QED
      BY <3>1, OnceErased
  <2>3. QED
    BY <2>1, <2>2 DEF Watched, WatchersAgree
<1>7. ASSUME NEW r \in Guest, NEW a \in Action, RegisterReceiver(r, a) PROVE Watched'
  <2>1. /\ receivers' = [receivers EXCEPT ![a] = Append(receivers[a], r)] /\ told' = told
        /\ mAppList' = mAppList
    BY <1>7 DEF RegisterReceiver, listVars
  <2>2. receivers[a] \in Seq(Watcher \cup Guest) /\ Once(receivers[a])
    BY DEF Watched
  <2>3. /\ Append(receivers[a], r) \in Seq(Watcher \cup Guest)
        /\ Once(Append(receivers[a], r))
    BY <2>2, OnceAppended
  <2>4. QED
    BY <2>1, <2>3 DEF Watched, WatchersAgree
<1>8. CASE UNCHANGED <<mAppList, castVars>>
  BY <1>8, NamesStay DEF NamesAre
<1>9. CASE \/ SigChld \/ SigChldReturns \/ UNCHANGED vars
           \/ \E p \in Pid : CallAttach(p) \/ End(p)
  BY <1>8, <1>9 DEF SigChld, SigChldReturns, CallAttach, End, vars, listVars
<1>10. QED
  BY <1>1, <1>2, <1>3, <1>4, <1>5, <1>6, <1>7, <1>9, AttachWatched, ReapWatched,
     DestroyedWatched DEF Next

(* Whoever is registered for APP_START and APP_EXIT from the start knows    *)
(* how many processes of each name are attached, whatever other receivers  *)
(* register or unregister and however processes begin and end.              *)
THEOREM WatchersAgreeAlways == Spec => []WatchersAgree
<1>1. Init => Watched
  BY InitWatched
<1>2. Inv /\ Inv' /\ Watched /\ [Next]_vars => Watched'
  BY NextWatched
<1>3. Watched => WatchersAgree
  BY DEF Watched
<1>4. QED
  BY <1>1, <1>2, <1>3, Invariant, PTL DEF Spec
=============================================================================

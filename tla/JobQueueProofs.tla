---------------------------- MODULE JobQueueProofs ----------------------------
(* Proofs about JobQueue: memory and table agree on what waits, a job that must  *)
(* not be recovered never runs twice, onIdle() has no lost wake-up and a finished *)
(* row stays finished, for any number of processes, jobs and failures.           *)
EXTENDS JobQueue, FilteringProofs

(* The invariant speaks of the parts of the state that pump() changes as          *)
(* parameters, so that it can be said of the moment before the pump as well:      *)
(* the rows r in the order ids, the queues f, the running handlers a, the         *)
(* leftovers s, who took a job h, how often it was started n, the promises o.     *)

JobTypes(r, ids, f, a, s, h, n, o) ==
  /\ r \in [Job -> {"absent", "queued", "running", "done", "failed"}]
  /\ ids \in Seq(Job)
  /\ f \in [Proc -> Seq(Job)] /\ s \in [Proc -> Seq(Job)]
  /\ a \in [Proc -> SUBSET Job]
  /\ o \in [Job -> {"none", "waiting", "resolved", "rejected", "gone"}]
  /\ h \in [Job -> Proc \cup {None}]
  /\ n \in [Job -> Nat]

\* A row exists once, from the moment on that a process took the job.
Table(r, ids, h) ==
  /\ Once(ids)
  /\ \A j \in Job : /\ r[j] = "absent" <=> j \notin ToSet(ids)
                    /\ r[j] = "absent" <=> h[j] = None

\* A process has one entry for a job at most, and none before it opens.
Entries(f, a, s, h) ==
  \A p \in Proc :
    /\ Once(f[p]) /\ Once(s[p]) /\ ToSet(f[p]) \cap ToSet(s[p]) = {}
    /\ \A j \in ToSet(f[p]) \cup ToSet(s[p]) \cup a[p] : h[j] # None
    /\ IsFiniteSet(a[p]) /\ Cardinality(a[p]) <= Width
    /\ server[p] \in {"new", "dead"} => f[p] = <<>> /\ s[p] = <<>> /\ a[p] = {}

\* A job that is not recovered waits only where it was taken, and only to start.
Attempts(f, h, n) ==
  /\ \A j \in Job : h[j] = None => n[j] = 0
  /\ \A j \in NonRecoverable : n[j] <= 1
  /\ \A p \in Proc, j \in NonRecoverable : j \in ToSet(f[p]) => h[j] = p /\ n[j] = 0

\* Only an open process can still answer.
Promises(h, o) ==
  \A j \in Job : o[j] = "waiting" => \E p \in Proc : h[j] = p /\ server[p] = "open"

\* As long as no owner outlived its lease, the open process knows the table.
Agreement(r, f, a, s, o) ==
  stalls = 0 =>
    /\ \A p \in Proc : server[p] = "open" =>
         /\ \A j \in Job : r[j] = "queued" <=> j \in ToSet(f[p]) \cup ToSet(s[p])
         /\ \A j \in a[p] : r[j] = "running"
    /\ \A j \in Job : o[j] = "resolved" => r[j] = "done"

Sane(r, ids, f, a, s, h, n, o) ==
  /\ JobTypes(r, ids, f, a, s, h, n, o)
  /\ Table(r, ids, h)
  /\ Entries(f, a, s, h)
  /\ Attempts(f, h, n)
  /\ Promises(h, o)
  /\ Agreement(r, f, a, s, o)

\* The lease: without a stall, the open process is the one that holds it.
Ownership ==
  /\ lease \in Proc \cup {None} /\ expired \in BOOLEAN
  /\ server \in [Proc -> {"new", "open", "closed", "dead"}]
  /\ lost \in [Proc -> BOOLEAN] /\ started \in [Proc -> BOOLEAN]
  /\ failed \in 0..MaxFail /\ stalls \in 0..MaxStall
  /\ stalls = 0 => ~ expired /\ \A p \in Proc : server[p] = "open" => lease = p

Waiters ==
  /\ idleWaiting \in [Proc -> BOOLEAN]
  /\ \A p \in Proc : idleWaiting[p] =>
       /\ server[p] \notin {"new", "dead"}
       /\ active[p] # {} \/ fair[p] # <<>>

JobInv ==
  /\ Sane(row, rowid, fair, active, stale, home, runs, outcome)
  /\ Ownership
  /\ Waiters
-----------------------------------------------------------------------------
(* pump() *)

\* What pump() does, whatever stops it: some jobs are taken from the queue q, the
\* rest stays in some order, and busy handlers with the taken ones fit the width.
Pumped(p, q, rows, busy, taken, rest) ==
  /\ row' = [j \in Job |-> IF j \in taken THEN "running" ELSE rows[j]]
  /\ active' = [active EXCEPT ![p] = busy \cup taken]
  /\ runs' = [j \in Job |-> IF j \in taken THEN runs[j] + 1 ELSE runs[j]]
  /\ fair' = [fair EXCEPT ![p] = rest]
  /\ failed' \in 0..MaxFail
  /\ rest \in Seq(Job) /\ Once(rest)
  /\ ToSet(q) = taken \cup ToSet(rest) /\ taken \cap ToSet(rest) = {}
  /\ IsFiniteSet(busy \cup taken) /\ Cardinality(busy \cup taken) <= Width
  /\ server[p] = "closed" => taken = {}

LEMMA PutBackFacts ==
  ASSUME NEW q \in Seq(Job), Once(q), NEW n \in Nat, n < Len(q)
  PROVE  /\ PutBack(q, n) \in Seq(Job) /\ Once(PutBack(q, n))
         /\ ToSet(q) = {q[i] : i \in 1..n} \cup ToSet(PutBack(q, n))
         /\ {q[i] : i \in 1..n} \cap ToSet(PutBack(q, n)) = {}
<1> DEFINE tail == SubSeq(q, (n + 1) + 1, Len(q))
           one == <<q[n + 1]>>
<1>0. n + 1 \in 0..Len(q) /\ n + 1 \in 1..Len(q) /\ (n + 1) + 1 = n + 2 /\ q[n + 1] \in Job
  OBVIOUS
<1>1. /\ tail \in Seq(Job) /\ Once(tail)
      /\ ToSet(q) = {q[i] : i \in 1..(n + 1)} \cup ToSet(tail)
      /\ {q[i] : i \in 1..(n + 1)} \cap ToSet(tail) = {}
  BY <1>0, SplitFacts
<1>2. one \in Seq(Job) /\ Once(one) /\ ToSet(one) = {q[n + 1]}
  BY <1>0 DEF Once, ToSet
<1>3. \A i \in 1..(n + 1) : i \in 1..n \/ i = n + 1
  OBVIOUS
<1>4. {q[i] : i \in 1..(n + 1)} = {q[i] : i \in 1..n} \cup {q[n + 1]}
  <2>1. 1..n \subseteq 1..(n + 1) /\ n + 1 \in 1..(n + 1)
    OBVIOUS
  <2> QED BY <2>1, <1>3
<1>5. q[n + 1] \notin {q[i] : i \in 1..n}
  <2>1. \A i \in 1..n : i \in 1..Len(q) /\ i # n + 1
    OBVIOUS
  <2> QED BY <2>1, <1>0 DEF Once
<1> HIDE DEF tail, one
<1>6. ToSet(tail) \cap ToSet(one) = {}
  BY <1>1, <1>2, <1>4
<1>7. /\ tail \o one \in Seq(Job) /\ Once(tail \o one)
      /\ ToSet(tail \o one) = ToSet(tail) \cup ToSet(one)
  BY <1>1, <1>2, <1>6, ConcatFacts
<1>8. PutBack(q, n) = tail \o one
  BY <1>0 DEF PutBack, tail, one
<1> QED BY <1>1, <1>2, <1>4, <1>5, <1>7, <1>8

LEMMA PumpFacts ==
  ASSUME NEW p \in Proc, NEW q \in Seq(Job), Once(q), NEW rows,
         NEW busy \in SUBSET Job, IsFiniteSet(busy), Cardinality(busy) <= Width,
         NEW failing \in Nat, failed \in 0..MaxFail,
         Pump(p, q, rows, busy, failing)
  PROVE  \E taken \in SUBSET Job, rest \in Seq(Job) : Pumped(p, q, rows, busy, taken, rest)
<1> DEFINE most == IF server[p] = "closed" \/ lost[p] THEN 0
                   ELSE IF Len(q) < Slots(busy) THEN Len(q) ELSE Slots(busy)
           First(n) == {q[i] : i \in 1..n}
<1>1. Cardinality(busy) \in Nat /\ Width \in Nat /\ MaxFail \in Nat /\ Len(q) \in Nat
  BY FS_CardinalityType, JobQueueAssumption
<1>2. most \in Nat /\ most <= Len(q) /\ most <= Width - Cardinality(busy)
  BY <1>1 DEF Slots
<1>3. server[p] = "closed" => most = 0
  OBVIOUS
<1> HIDE DEF most
<1>4. ASSUME NEW n \in Nat, n <= most
      PROVE  /\ First(n) \in SUBSET Job
             /\ IsFiniteSet(busy \cup First(n)) /\ Cardinality(busy \cup First(n)) <= Width
             /\ server[p] = "closed" => First(n) = {}
  <2>1. \A i \in 1..n : i \in 1..Len(q)
    BY <1>1, <1>2, <1>4
  <2>2. First(n) \in SUBSET Job
    BY <2>1
  <2>3. IsFiniteSet(1..n) /\ Cardinality(1..n) = n
    BY FS_Interval
  <2> DEFINE pick == [i \in 1..n |-> q[i]]
  <2>4. pick \in Surjection(1..n, First(n))
    BY DEF Surjection
  <2>5. IsFiniteSet(First(n)) /\ Cardinality(First(n)) <= n
    BY <2>3, <2>4, FS_Surjection
  <2>6. /\ IsFiniteSet(busy \cup First(n))
        /\ Cardinality(busy \cup First(n))
             = Cardinality(busy) + Cardinality(First(n)) - Cardinality(busy \cap First(n))
    BY <2>5, FS_Union
  <2>7. IsFiniteSet(busy \cap First(n)) /\ Cardinality(busy \cap First(n)) \in Nat
    BY <2>5, FS_Intersection, FS_CardinalityType
  <2>8. Cardinality(First(n)) \in Nat
    BY <2>5, FS_CardinalityType
  <2>9. Cardinality(busy \cup First(n)) <= Width
    BY <2>5, <2>6, <2>7, <2>8, <1>1, <1>2, <1>4
  <2>10. server[p] = "closed" => n = 0
    BY <1>2, <1>3, <1>4
  <2> QED BY <2>2, <2>6, <2>9, <2>10
<1> HIDE DEF First
<1>5. \/ /\ failed' = failed + failing /\ failed + failing <= MaxFail
         /\ row' = [j \in Job |-> IF j \in First(most) THEN "running" ELSE rows[j]]
         /\ active' = [active EXCEPT ![p] = busy \cup First(most)]
         /\ runs' = [j \in Job |-> IF j \in First(most) THEN runs[j] + 1 ELSE runs[j]]
         /\ fair' = [fair EXCEPT ![p] = SubSeq(q, most + 1, Len(q))]
      \/ \E n \in 0..(most - 1) :
         /\ failed' = failed + failing + 1 /\ failed + failing + 1 <= MaxFail
         /\ row' = [j \in Job |-> IF j \in First(n) THEN "running" ELSE rows[j]]
         /\ active' = [active EXCEPT ![p] = busy \cup First(n)]
         /\ runs' = [j \in Job |-> IF j \in First(n) THEN runs[j] + 1 ELSE runs[j]]
         /\ fair' = [fair EXCEPT ![p] = PutBack(q, n)]
  BY Zenon DEF Pump, most, First
<1>6. CASE /\ failed' = failed + failing /\ failed + failing <= MaxFail
           /\ row' = [j \in Job |-> IF j \in First(most) THEN "running" ELSE rows[j]]
           /\ active' = [active EXCEPT ![p] = busy \cup First(most)]
           /\ runs' = [j \in Job |-> IF j \in First(most) THEN runs[j] + 1 ELSE runs[j]]
           /\ fair' = [fair EXCEPT ![p] = SubSeq(q, most + 1, Len(q))]
  <2> DEFINE rest == SubSeq(q, most + 1, Len(q))
  <2>1. most \in 0..Len(q)
    BY <1>1, <1>2
  <2>2. /\ rest \in Seq(Job) /\ Once(rest)
        /\ ToSet(q) = First(most) \cup ToSet(rest) /\ First(most) \cap ToSet(rest) = {}
    BY <2>1, SplitFacts DEF First
  <2>3. failed' \in 0..MaxFail
    BY <1>1, <1>6
  <2>4. /\ First(most) \in SUBSET Job
        /\ IsFiniteSet(busy \cup First(most)) /\ Cardinality(busy \cup First(most)) <= Width
        /\ server[p] = "closed" => First(most) = {}
    <3>1. most \in Nat /\ most <= most
      BY <1>2
    <3> QED BY <3>1, <1>4, Zenon
  <2> HIDE DEF rest
  <2>5. Pumped(p, q, rows, busy, First(most), rest)
    BY <1>6, <2>2, <2>3, <2>4, Zenon DEF Pumped, rest
  <2> QED BY <2>2, <2>4, <2>5
<1>7. ASSUME NEW n \in 0..(most - 1),
             failed' = failed + failing + 1, failed + failing + 1 <= MaxFail,
             row' = [j \in Job |-> IF j \in First(n) THEN "running" ELSE rows[j]],
             active' = [active EXCEPT ![p] = busy \cup First(n)],
             runs' = [j \in Job |-> IF j \in First(n) THEN runs[j] + 1 ELSE runs[j]],
             fair' = [fair EXCEPT ![p] = PutBack(q, n)]
      PROVE  \E taken \in SUBSET Job, rest \in Seq(Job) : Pumped(p, q, rows, busy, taken, rest)
  <2>1. n \in Nat /\ n < Len(q) /\ n <= most
    BY <1>1, <1>2
  <2>2. /\ PutBack(q, n) \in Seq(Job) /\ Once(PutBack(q, n))
        /\ ToSet(q) = First(n) \cup ToSet(PutBack(q, n))
        /\ First(n) \cap ToSet(PutBack(q, n)) = {}
    BY <2>1, PutBackFacts DEF First
  <2>3. failed' \in 0..MaxFail
    BY <1>1, <1>7
  <2>4. /\ First(n) \in SUBSET Job
        /\ IsFiniteSet(busy \cup First(n)) /\ Cardinality(busy \cup First(n)) <= Width
        /\ server[p] = "closed" => First(n) = {}
    BY <2>1, <1>4
  <2>5. Pumped(p, q, rows, busy, First(n), PutBack(q, n))
    BY <1>7, <2>2, <2>3, <2>4, Zenon DEF Pumped
  <2> QED BY <2>2, <2>4, <2>5
<1> QED BY <1>5, <1>6, <1>7
\* Whatever the table, the promises and the leftovers are at that moment: a pump of
\* an open or closed queue keeps the invariant.
LEMMA PumpKeeps ==
  ASSUME NEW p \in Proc, server[p] \in {"open", "closed"}, Ownership,
         NEW rows, NEW ids, NEW f, NEW a, NEW s, NEW h, NEW o,
         Sane(rows, ids, f, a, s, h, runs, o),
         f = [fair EXCEPT ![p] = f[p]], a = [active EXCEPT ![p] = a[p]],
         NEW failing \in Nat, Pump(p, f[p], rows, a[p], failing)
  PROVE  /\ Sane(row', ids, fair', active', s, h, runs', o)
         /\ failed' \in 0..MaxFail
         /\ \A x \in Proc : \/ f[x] # <<>> \/ a[x] # {} => fair'[x] # <<>> \/ active'[x] # {}
         /\ \A j \in Job : rows[j] # "queued" /\ stalls = 0 => row'[j] = rows[j]
<1>0. /\ JobTypes(rows, ids, f, a, s, h, runs, o) /\ Table(rows, ids, h)
      /\ Entries(f, a, s, h) /\ Attempts(f, h, runs) /\ Promises(h, o)
      /\ Agreement(rows, f, a, s, o)
  BY DEF Sane
<1>1. /\ f[p] \in Seq(Job) /\ Once(f[p]) /\ a[p] \in SUBSET Job
      /\ IsFiniteSet(a[p]) /\ Cardinality(a[p]) <= Width /\ failed \in 0..MaxFail
  BY <1>0 DEF JobTypes, Entries, Ownership
<1>2. PICK taken \in SUBSET Job, rest \in Seq(Job) : Pumped(p, f[p], rows, a[p], taken, rest)
  BY <1>1, PumpFacts
<1>3. /\ row' = [j \in Job |-> IF j \in taken THEN "running" ELSE rows[j]]
      /\ active' = [active EXCEPT ![p] = a[p] \cup taken]
      /\ runs' = [j \in Job |-> IF j \in taken THEN runs[j] + 1 ELSE runs[j]]
      /\ fair' = [fair EXCEPT ![p] = rest]
      /\ failed' \in 0..MaxFail
      /\ rest \in Seq(Job) /\ Once(rest)
      /\ ToSet(f[p]) = taken \cup ToSet(rest) /\ taken \cap ToSet(rest) = {}
      /\ IsFiniteSet(a[p] \cup taken) /\ Cardinality(a[p] \cup taken) <= Width
      /\ server[p] = "closed" => taken = {}
  BY <1>2 DEF Pumped
<1>4. /\ DOMAIN f = DOMAIN fair /\ DOMAIN a = DOMAIN active
      /\ DOMAIN f = Proc /\ DOMAIN a = Proc
  BY <1>0, Zenon DEF JobTypes
<1>5. \A x \in Proc : x # p => f[x] = fair[x] /\ a[x] = active[x]
  BY <1>4
<1>6. /\ fair' = [f EXCEPT ![p] = rest] /\ active' = [a EXCEPT ![p] = a[p] \cup taken]
  BY <1>3, <1>4, <1>5
<1>7. /\ fair'[p] = rest /\ active'[p] = a[p] \cup taken
      /\ \A x \in Proc : x # p => fair'[x] = f[x] /\ active'[x] = a[x]
  BY <1>4, <1>6
<1>8. JobTypes(row', ids, fair', active', s, h, runs', o)
  <2>1. row' \in [Job -> {"absent", "queued", "running", "done", "failed"}]
    BY <1>0, <1>3 DEF JobTypes
  <2>2. fair' \in [Proc -> Seq(Job)]
    BY <1>0, <1>3, <1>6 DEF JobTypes
  <2>3. active' \in [Proc -> SUBSET Job]
    <3>1. a[p] \cup taken \in SUBSET Job
      BY <1>1
    <3> QED BY <3>1, <1>0, <1>6 DEF JobTypes
  <2>4. runs' \in [Job -> Nat]
    BY <1>0, <1>3 DEF JobTypes
  <2> QED BY <1>0, <2>1, <2>2, <2>3, <2>4, Zenon DEF JobTypes
<1>9. \A j \in taken : rows[j] # "absent" /\ h[j] # None
  BY <1>0, <1>3 DEF Table, Entries
<1>10. Table(row', ids, h)
  BY <1>0, <1>3, <1>9 DEF Table
<1>11. ASSUME NEW x \in Proc
       PROVE  /\ Once(fair'[x]) /\ ToSet(fair'[x]) \cap ToSet(s[x]) = {}
              /\ \A j \in ToSet(fair'[x]) \cup ToSet(s[x]) \cup active'[x] : h[j] # None
              /\ IsFiniteSet(active'[x]) /\ Cardinality(active'[x]) <= Width
              /\ server[x] \in {"new", "dead"} => fair'[x] = <<>> /\ s[x] = <<>> /\ active'[x] = {}
  <2>1. CASE x = p
    BY <2>1, <1>0, <1>3, <1>7, <1>9 DEF Entries
  <2>2. CASE x # p
    BY <2>2, <1>0, <1>7 DEF Entries
  <2> QED BY <2>1, <2>2
<1>12. Entries(fair', active', s, h)
  BY <1>0, <1>11 DEF Entries
<1>13. Attempts(fair', h, runs')
  <2>1. \A j \in Job : h[j] = None => runs'[j] = 0
    BY <1>0, <1>3, <1>9 DEF Attempts
  <2>2. \A j \in NonRecoverable : runs'[j] <= 1
    <3>1. \A j \in NonRecoverable : j \in Job /\ (j \in taken => runs[j] = 0)
      BY <1>0, <1>3, JobQueueAssumption DEF Attempts
    <3> QED BY <3>1, <1>0, <1>3 DEF Attempts
  <2>3. ASSUME NEW x \in Proc, NEW j \in NonRecoverable, j \in ToSet(fair'[x])
        PROVE  h[j] = x /\ runs'[j] = 0
    <3>1. j \in ToSet(f[x])
      BY <2>3, <1>3, <1>7
    <3>2. h[j] = x /\ runs[j] = 0 /\ j \in Job
      BY <3>1, <1>0, JobQueueAssumption DEF Attempts
    <3>3. j \notin taken
      <4>1. CASE x = p
        BY <4>1, <2>3, <1>3, <1>7
      <4>2. CASE x # p
        BY <4>2, <3>2, <1>0, <1>3 DEF Attempts
      <4> QED BY <4>1, <4>2
    <3> QED BY <3>2, <3>3, <1>3
  <2> QED BY <2>1, <2>2, <2>3 DEF Attempts
<1>14. Promises(h, o)
  BY <1>0
<1>15. ASSUME stalls = 0, NEW j \in taken PROVE rows[j] = "queued"
  <2>1. server[p] = "open" /\ j \in ToSet(f[p])
    BY <1>3, <1>15
  <2> QED BY <2>1, <1>0, <1>15 DEF Agreement
<1>16. Agreement(row', fair', active', s, o)
  <2> SUFFICES ASSUME stalls = 0
               PROVE  /\ \A x \in Proc : server[x] = "open" =>
                           /\ \A j \in Job : row'[j] = "queued" <=> j \in ToSet(fair'[x]) \cup ToSet(s[x])
                           /\ \A j \in active'[x] : row'[j] = "running"
                      /\ \A j \in Job : o[j] = "resolved" => row'[j] = "done"
    BY DEF Agreement
  <2>1. ASSUME NEW j \in Job, o[j] = "resolved" PROVE row'[j] = "done"
    BY <2>1, <1>0, <1>3, <1>15 DEF Agreement
  <2>2. ASSUME NEW x \in Proc, server[x] = "open", taken # {} PROVE x = p
    BY <2>2, <1>3 DEF Ownership
  <2>3. ASSUME NEW x \in Proc, server[x] = "open", NEW j \in active'[x] PROVE row'[j] = "running"
    <3>0. j \in Job
      BY <1>8 DEF JobTypes
    <3>1. CASE j \in taken
      BY <3>1, <3>0, <1>3
    <3>2. CASE j \notin taken
      <4>1. j \in a[x]
        BY <3>2, <1>7, <2>3
      <4> QED BY <4>1, <3>0, <3>2, <1>0, <1>3, <2>3 DEF Agreement
    <3> QED BY <3>1, <3>2
  <2>4. ASSUME NEW x \in Proc, server[x] = "open", NEW j \in Job
        PROVE  row'[j] = "queued" <=> j \in ToSet(fair'[x]) \cup ToSet(s[x])
    <3>1. rows[j] = "queued" <=> j \in ToSet(f[x]) \cup ToSet(s[x])
      BY <1>0, <2>4 DEF Agreement
    <3>2. CASE j \in taken
      <4>1. x = p
        BY <2>2, <2>4, <3>2
      <4>2. j \notin ToSet(fair'[x]) /\ j \in ToSet(f[x])
        BY <4>1, <3>2, <1>3, <1>7
      <4>3. j \notin ToSet(s[x])
        BY <4>2, <1>0 DEF Entries
      <4> QED BY <4>2, <4>3, <3>2, <1>3
    <3>3. CASE j \notin taken
      <4>1. j \in ToSet(fair'[x]) <=> j \in ToSet(f[x])
        BY <3>3, <1>3, <1>7
      <4> QED BY <4>1, <3>1, <3>3, <1>3
    <3> QED BY <3>2, <3>3
  <2> QED BY <2>1, <2>3, <2>4
<1>17. ASSUME NEW x \in Proc, f[x] # <<>> \/ a[x] # {}
       PROVE  fair'[x] # <<>> \/ active'[x] # {}
  <2>1. CASE x # p
    BY <2>1, <1>7, <1>17
  <2>2. CASE x = p
    <3>1. ToSet(<<>>) = {}
      BY DEF ToSet
    <3>2. f[p] # <<>> => ToSet(f[p]) # {}
      <4> SUFFICES ASSUME f[p] # <<>> PROVE f[p][1] \in ToSet(f[p])
        OBVIOUS
      <4>1. 1 \in DOMAIN f[p]
        BY <1>1
      <4> QED BY <4>1 DEF ToSet
    <3> QED BY <3>1, <3>2, <2>2, <1>3, <1>7, <1>17
  <2> QED BY <2>1, <2>2
<1>18. \A j \in Job : rows[j] # "queued" /\ stalls = 0 => row'[j] = rows[j]
  BY <1>3, <1>15
<1> QED BY <1>3, <1>8, <1>10, <1>12, <1>13, <1>14, <1>16, <1>17, <1>18 DEF Sane
-----------------------------------------------------------------------------
(* The actions *)

\* FinishedIsFinal, of one step.
Final == \A j \in Job : stalls = 0 /\ row[j] \in {"done", "failed"} => row'[j] = row[j]

LEMMA SaneParts ==
  ASSUME JobInv
  PROVE  /\ JobTypes(row, rowid, fair, active, stale, home, runs, outcome)
         /\ Table(row, rowid, home) /\ Entries(fair, active, stale, home)
         /\ Attempts(fair, home, runs) /\ Promises(home, outcome)
         /\ Agreement(row, fair, active, stale, outcome)
         /\ Ownership /\ Waiters
  BY DEF JobInv, Sane

LEMMA InitKeeps == Init => JobInv
<1> SUFFICES ASSUME Init PROVE JobInv
  OBVIOUS
<1>1. ToSet(<<>>) = {} /\ Once(<<>>)
  BY DEF ToSet, Once
<1>2. IsFiniteSet({}) /\ Cardinality({}) = 0 /\ Width \in Nat /\ 0 <= Width
  BY FS_EmptySet, JobQueueAssumption
<1>3. JobTypes(row, rowid, fair, active, stale, home, runs, outcome)
  BY DEF Init, JobTypes
<1>4. Table(row, rowid, home)
  BY <1>1 DEF Init, Table
<1>5. Entries(fair, active, stale, home)
  BY <1>1, <1>2 DEF Init, Entries
<1>6. Attempts(fair, home, runs)
  BY <1>1, JobQueueAssumption DEF Init, Attempts
<1>7. Promises(home, outcome) /\ Agreement(row, fair, active, stale, outcome)
  BY <1>1, <1>2 DEF Init, Promises, Agreement
<1>8. Ownership /\ Waiters
  <2>1. 0 \in 0..MaxFail /\ 0 \in 0..MaxStall
    BY JobQueueAssumption
  <2>2. Ownership
    BY <2>1 DEF Init, Ownership
  <2>3. Waiters
    BY DEF Init, Waiters
  <2> QED BY <2>2, <2>3
<1> QED BY <1>3, <1>4, <1>5, <1>6, <1>7, <1>8 DEF JobInv, Sane

LEMMA LeaseRunsOutKeeps ==
  ASSUME JobInv, LeaseRunsOut
  PROVE  JobInv' /\ Final
<1>0. /\ JobTypes(row, rowid, fair, active, stale, home, runs, outcome)
      /\ Table(row, rowid, home) /\ Entries(fair, active, stale, home)
      /\ Attempts(fair, home, runs) /\ Promises(home, outcome)
      /\ Ownership /\ Waiters
  BY SaneParts
<1>1. /\ row' = row /\ rowid' = rowid /\ fair' = fair /\ active' = active /\ stale' = stale
      /\ home' = home /\ runs' = runs /\ outcome' = outcome /\ server' = server
      /\ idleWaiting' = idleWaiting /\ lost' = lost /\ started' = started
      /\ failed' = failed /\ lease' = lease /\ expired' = TRUE /\ stalls' = stalls + 1
      /\ stalls < MaxStall
  BY DEF LeaseRunsOut, memory
<1>2. stalls' \in 0..MaxStall /\ stalls' # 0
  BY <1>0, <1>1, JobQueueAssumption DEF Ownership
<1>3. Ownership' /\ Waiters'
  BY <1>0, <1>1, <1>2 DEF Ownership, Waiters
<1>4. Agreement(row, fair, active, stale, outcome)'
  BY <1>2 DEF Agreement
<1>5. /\ JobTypes(row, rowid, fair, active, stale, home, runs, outcome)'
      /\ Table(row, rowid, home)' /\ Entries(fair, active, stale, home)'
      /\ Attempts(fair, home, runs)' /\ Promises(home, outcome)'
  BY <1>0, <1>1 DEF JobTypes, Table, Entries, Attempts, Promises
<1> QED BY <1>1, <1>3, <1>4, <1>5 DEF JobInv, Sane, Final

\* The renewal timer, onIdle() and steps of no variable leave the jobs alone.
LEMMA QuietKeeps ==
  ASSUME JobInv,
         UNCHANGED <<row, rowid, fair, active, stale, home, runs, outcome, server, stalls>>,
         Ownership', Waiters'
  PROVE  JobInv' /\ Final
<1>1. Sane(row, rowid, fair, active, stale, home, runs, outcome)
  BY DEF JobInv
<1>2. Sane(row, rowid, fair, active, stale, home, runs, outcome)'
  BY <1>1 DEF Sane, JobTypes, Table, Entries, Attempts, Promises, Agreement
<1> QED BY <1>2 DEF JobInv, Final

LEMMA RenewTimerKeeps ==
  ASSUME JobInv, NEW p \in Proc, RenewTimer(p)
  PROVE  JobInv' /\ Final
<1>0. Ownership /\ Waiters
  BY SaneParts
<1>1. UNCHANGED <<row, rowid, fair, active, stale, home, runs, outcome, server, stalls>>
  BY DEF RenewTimer
<1>2. Ownership'
  BY <1>0 DEF RenewTimer, Ownership
<1>3. Waiters'
  BY <1>0 DEF RenewTimer, Waiters
<1> QED BY <1>1, <1>2, <1>3, QuietKeeps

LEMMA OnIdleKeeps ==
  ASSUME JobInv, NEW p \in Proc, OnIdle(p)
  PROVE  JobInv' /\ Final
<1>0. Ownership /\ Waiters
  BY SaneParts
<1>1. UNCHANGED <<row, rowid, fair, active, stale, home, runs, outcome, server, stalls>>
  BY DEF OnIdle
<1>2. Ownership'
  BY <1>0 DEF OnIdle, Ownership
<1>3. Waiters'
  BY <1>0 DEF OnIdle, Waiters
<1> QED BY <1>1, <1>2, <1>3, QuietKeeps

LEMMA OpenKeeps ==
  ASSUME JobInv, NEW p \in Proc, Open(p)
  PROVE  JobInv' /\ Final
<1> DEFINE L == {j \in Job : LeftBehind(j)}
           list == Filter(rowid, L)
<1>0. /\ JobTypes(row, rowid, fair, active, stale, home, runs, outcome)
      /\ Table(row, rowid, home) /\ Entries(fair, active, stale, home)
      /\ Attempts(fair, home, runs) /\ Promises(home, outcome)
      /\ Agreement(row, fair, active, stale, outcome)
      /\ Ownership /\ Waiters
  BY SaneParts
<1>1. /\ server[p] = "new" /\ Free /\ lease' = p /\ expired' = FALSE
      /\ server' = [server EXCEPT ![p] = "open"]
      /\ stale' = [stale EXCEPT ![p] = list]
      /\ row' = [j \in Job |-> IF row[j] = "running" THEN "queued" ELSE row[j]]
      /\ UNCHANGED <<rowid, lost, fair, active, started, idleWaiting, outcome, home, runs, failed, stalls>>
  BY DEF Open
<1>2. list \in Seq(Job) /\ Once(list) /\ ToSet(list) = ToSet(rowid) \cap L
  BY <1>0, FilterFacts, FilterOnce DEF JobTypes, Table
<1>3. \A j \in Job : j \in ToSet(list) <=> row[j] \in {"running", "queued"}
  BY <1>0, <1>2 DEF Table, LeftBehind
<1>4. \A j \in ToSet(list) : j \in Job /\ home[j] # None
  BY <1>0, <1>2, <1>3 DEF Table
<1> HIDE DEF list, L
<1>5. /\ stale'[p] = list /\ server'[p] = "open"
      /\ \A x \in Proc : x # p => stale'[x] = stale[x] /\ server'[x] = server[x]
  BY <1>0, <1>1 DEF JobTypes, Ownership
<1>6. fair[p] = <<>> /\ active[p] = {} /\ ToSet(<<>>) = {} /\ ~ idleWaiting[p]
  BY <1>0, <1>1 DEF Entries, ToSet, Waiters
<1>7. stalls = 0 => \A x \in Proc : server[x] # "open"
  BY <1>0, <1>1, JobQueueAssumption DEF Free, Ownership
<1>8. JobTypes(row, rowid, fair, active, stale, home, runs, outcome)'
  BY <1>0, <1>1, <1>2 DEF JobTypes
<1>9. Table(row, rowid, home)'
  BY <1>0, <1>1 DEF Table, JobTypes
<1>10. Entries(fair, active, stale, home)'
  <2> SUFFICES ASSUME NEW x \in Proc
               PROVE  (/\ Once(fair[x]) /\ Once(stale[x]) /\ ToSet(fair[x]) \cap ToSet(stale[x]) = {}
                       /\ \A j \in ToSet(fair[x]) \cup ToSet(stale[x]) \cup active[x] : home[j] # None
                       /\ IsFiniteSet(active[x]) /\ Cardinality(active[x]) <= Width
                       /\ server[x] \in {"new", "dead"} => fair[x] = <<>> /\ stale[x] = <<>> /\ active[x] = {})'
    BY DEF Entries
  <2>1. CASE x = p
    BY <2>1, <1>0, <1>1, <1>2, <1>4, <1>5, <1>6 DEF Entries
  <2>2. CASE x # p
    BY <2>2, <1>0, <1>1, <1>5 DEF Entries
  <2> QED BY <2>1, <2>2
<1>11. Attempts(fair, home, runs)' /\ Promises(home, outcome)'
  <2>1. Attempts(fair, home, runs)'
    BY <1>0, <1>1 DEF Attempts
  <2>2. Promises(home, outcome)'
    BY <1>0, <1>1, <1>5 DEF Promises
  <2> QED BY <2>1, <2>2
<1>12. Agreement(row, fair, active, stale, outcome)'
  <2> SUFFICES ASSUME stalls = 0
               PROVE  (/\ \A x \in Proc : server[x] = "open" =>
                            /\ \A j \in Job : row[j] = "queued" <=> j \in ToSet(fair[x]) \cup ToSet(stale[x])
                            /\ \A j \in active[x] : row[j] = "running"
                       /\ \A j \in Job : outcome[j] = "resolved" => row[j] = "done")'
    BY <1>1 DEF Agreement
  <2>1. \A x \in Proc : server'[x] = "open" => x = p
    BY <1>5, <1>7
  <2>2. \A j \in Job : row'[j] = "queued" <=> j \in ToSet(list)
    BY <1>1, <1>3
  <2>3. \A j \in Job : outcome'[j] = "resolved" => row'[j] = "done"
    BY <1>0, <1>1 DEF Agreement
  <2> QED BY <1>1, <1>5, <1>6, <2>1, <2>2, <2>3
<1>13. Ownership'
  BY <1>0, <1>1, <1>5, <1>7 DEF Ownership
<1>14. Waiters'
  BY <1>0, <1>1, <1>5, <1>6 DEF Waiters
<1>15. Final
  BY <1>1 DEF Final
<1> QED BY <1>8, <1>9, <1>10, <1>11, <1>12, <1>13, <1>14, <1>15 DEF JobInv, Sane
LEMMA StartKeeps ==
  ASSUME JobInv, NEW p \in Proc, Start(p)
  PROVE  JobInv' /\ Final
<1> DEFINE left == Leftovers(p)
           R == {j \in Job : Recovers(j)}
           again == Filter(left, R)
           q == fair[p] \o again
           f == [fair EXCEPT ![p] = q]
           rows == [j \in Job |-> IF j \in ToSet(left) \ ToSet(again) THEN "failed" ELSE row[j]]
<1>0. /\ JobTypes(row, rowid, fair, active, stale, home, runs, outcome)
      /\ Table(row, rowid, home) /\ Entries(fair, active, stale, home)
      /\ Attempts(fair, home, runs) /\ Promises(home, outcome)
      /\ Agreement(row, fair, active, stale, outcome)
      /\ Ownership /\ Waiters
  BY SaneParts
<1>1. /\ server[p] = "open"
      /\ started' = [started EXCEPT ![p] = TRUE]
      /\ stale' = [stale EXCEPT ![p] = IF started[p] THEN stale[p] ELSE <<>>]
      /\ Pump(p, q, rows, active[p], 0)
      /\ UNCHANGED <<rowid, lease, expired, server, lost, idleWaiting, outcome, home, stalls>>
  BY DEF Start
<1>2. left \in Seq(Job) /\ Once(left) /\ ToSet(<<>>) = {} /\ Once(<<>>)
  <2>1. <<>> \in Seq(Job) /\ ToSet(<<>>) = {} /\ Once(<<>>)
    BY DEF Once, ToSet
  <2>2. stale[p] \in Seq(Job) /\ Once(stale[p])
    BY <1>0 DEF JobTypes, Entries
  <2> QED BY <2>1, <2>2 DEF Leftovers
<1>3. again \in Seq(Job) /\ Once(again) /\ ToSet(again) = ToSet(left) \cap R
  BY <1>2, FilterFacts, FilterOnce
<1>4. /\ ToSet(left) \subseteq ToSet(stale[p])
      /\ ToSet(left) \cap ToSet(stale'[p]) = {}
      /\ ToSet(stale[p]) = ToSet(left) \cup ToSet(stale'[p])
      /\ stale'[p] \in Seq(Job) /\ Once(stale'[p])
      /\ \A x \in Proc : x # p => stale'[x] = stale[x]
  BY <1>0, <1>1, <1>2 DEF Leftovers, JobTypes, Entries
<1>5. ToSet(again) \cap ToSet(fair[p]) = {}
  BY <1>0, <1>3, <1>4 DEF Entries
<1>6. q \in Seq(Job) /\ Once(q) /\ ToSet(q) = ToSet(fair[p]) \cup ToSet(again)
  <2>1. fair[p] \in Seq(Job) /\ Once(fair[p])
    BY <1>0 DEF JobTypes, Entries
  <2> HIDE DEF again
  <2> QED BY <2>1, <1>3, <1>5, ConcatFacts
<1>7. \A j \in ToSet(again) : j \in Job /\ j \notin NonRecoverable
  BY <1>3 DEF Recovers
<1>8. ToSet(left) \subseteq Job /\ \A j \in ToSet(left) : home[j] # None /\ row[j] # "absent"
  <2>1. ToSet(left) \subseteq Job
    BY <1>2 DEF ToSet
  <2> QED BY <2>1, <1>0, <1>4 DEF Entries, Table
<1>9. f = [fair EXCEPT ![p] = f[p]] /\ f[p] = q /\ \A x \in Proc : x # p => f[x] = fair[x]
  BY <1>0 DEF JobTypes
<1>10. active = [active EXCEPT ![p] = active[p]]
  BY <1>0 DEF JobTypes
<1>11. f \in [Proc -> Seq(Job)]
  BY <1>0, <1>6 DEF JobTypes
<1>12. \A j \in Job : rows[j] = IF j \in ToSet(left) \ ToSet(again) THEN "failed" ELSE row[j]
  OBVIOUS
<1>13. rows \in [Job -> {"absent", "queued", "running", "done", "failed"}]
  BY <1>0 DEF JobTypes
<1>14. stalls = 0 => \A j \in ToSet(left) : row[j] = "queued"
  BY <1>0, <1>1, <1>4, <1>8 DEF Agreement
<1> HIDE DEF left, R, again, q, f, rows
<1>15. JobTypes(rows, rowid, f, active, stale', home, runs, outcome)
  <2>1. stale' \in [Proc -> Seq(Job)]
    BY <1>0, <1>1 DEF JobTypes
  <2> QED BY <2>1, <1>0, <1>11, <1>13 DEF JobTypes
<1>16. Table(rows, rowid, home)
  BY <1>0, <1>8, <1>12 DEF Table
<1>17. Entries(f, active, stale', home)
  <2> SUFFICES ASSUME NEW x \in Proc
               PROVE  /\ Once(f[x]) /\ Once(stale'[x]) /\ ToSet(f[x]) \cap ToSet(stale'[x]) = {}
                      /\ \A j \in ToSet(f[x]) \cup ToSet(stale'[x]) \cup active[x] : home[j] # None
                      /\ IsFiniteSet(active[x]) /\ Cardinality(active[x]) <= Width
                      /\ server[x] \in {"new", "dead"} => f[x] = <<>> /\ stale'[x] = <<>> /\ active[x] = {}
    BY DEF Entries
  <2>1. CASE x = p
    BY <2>1, <1>0, <1>1, <1>3, <1>4, <1>6, <1>8, <1>9 DEF Entries
  <2>2. CASE x # p
    BY <2>2, <1>0, <1>4, <1>9 DEF Entries
  <2> QED BY <2>1, <2>2
<1>18. Attempts(f, home, runs)
  BY <1>0, <1>6, <1>7, <1>9 DEF Attempts
<1>19. Agreement(rows, f, active, stale', outcome)
  <2> SUFFICES ASSUME stalls = 0
               PROVE  /\ \A x \in Proc : server[x] = "open" =>
                           /\ \A j \in Job : rows[j] = "queued" <=> j \in ToSet(f[x]) \cup ToSet(stale'[x])
                           /\ \A j \in active[x] : rows[j] = "running"
                      /\ \A j \in Job : outcome[j] = "resolved" => rows[j] = "done"
    BY DEF Agreement
  <2>1. \A x \in Proc : server[x] = "open" => x = p
    BY <1>0, <1>1 DEF Ownership
  <2>2. \A j \in Job : row[j] = "queued" <=> j \in ToSet(fair[p]) \cup ToSet(stale[p])
    BY <1>0, <1>1 DEF Agreement
  <2>3. ASSUME NEW j \in Job
        PROVE  rows[j] = "queued" <=> j \in ToSet(f[p]) \cup ToSet(stale'[p])
    <3>1. CASE j \in ToSet(left)
      <4>1. j \notin ToSet(fair[p]) /\ j \notin ToSet(stale'[p]) /\ row[j] = "queued"
        BY <3>1, <1>0, <1>4, <1>14 DEF Entries
      <4> QED BY <4>1, <3>1, <1>6, <1>9, <1>12
    <3>2. CASE j \notin ToSet(left)
      <4>1. rows[j] = row[j] /\ j \notin ToSet(again)
        BY <3>2, <1>3, <1>12
      <4> QED BY <4>1, <3>2, <2>2, <1>4, <1>6, <1>9
    <3> QED BY <3>1, <3>2
  <2>4. \A j \in active[p] : rows[j] = "running"
    <3>1. \A j \in active[p] : j \in Job /\ row[j] = "running"
      BY <1>0, <1>1 DEF Agreement, JobTypes
    <3> QED BY <3>1, <1>12, <1>14
  <2>5. \A j \in Job : outcome[j] = "resolved" => rows[j] = "done"
    BY <1>0, <1>12, <1>14 DEF Agreement
  <2> QED BY <2>1, <2>3, <2>4, <2>5
<1>20. Sane(rows, rowid, f, active, stale', home, runs, outcome)
  BY <1>0, <1>15, <1>16, <1>17, <1>18, <1>19 DEF Sane
<1>21. Pump(p, f[p], rows, active[p], 0) /\ 0 \in Nat
  BY <1>1, <1>9
<1>22. /\ Sane(row', rowid, fair', active', stale', home, runs', outcome)
       /\ failed' \in 0..MaxFail
       /\ \A x \in Proc : \/ f[x] # <<>> \/ active[x] # {} => fair'[x] # <<>> \/ active'[x] # {}
       /\ \A j \in Job : rows[j] # "queued" /\ stalls = 0 => row'[j] = rows[j]
  BY <1>0, <1>1, <1>9, <1>10, <1>20, <1>21, PumpKeeps
<1>23. Sane(row, rowid, fair, active, stale, home, runs, outcome)'
  BY <1>1, <1>22 DEF Sane, JobTypes, Table, Entries, Attempts, Promises, Agreement
<1>24. Ownership'
  BY <1>0, <1>1, <1>22 DEF Ownership
<1>25. Waiters'
  <2>1. fair[p] # <<>> => f[p] # <<>>
    <3>1. fair[p] # <<>> => ToSet(fair[p]) # {}
      <4> SUFFICES ASSUME fair[p] # <<>> PROVE fair[p][1] \in ToSet(fair[p])
        OBVIOUS
      <4>1. 1 \in DOMAIN fair[p]
        BY <1>0 DEF JobTypes
      <4> QED BY <4>1 DEF ToSet
    <3> QED BY <3>1, <1>2, <1>6, <1>9
  <2> QED BY <2>1, <1>0, <1>1, <1>9, <1>22 DEF Waiters
<1>26. Final
  BY <1>0, <1>12, <1>14, <1>22 DEF Final
<1> QED BY <1>23, <1>24, <1>25, <1>26 DEF JobInv
LEMMA StartThrowsKeeps ==
  ASSUME JobInv, NEW p \in Proc, NEW n \in DOMAIN Leftovers(p), StartThrows(p, n)
  PROVE  JobInv' /\ Final
<1> DEFINE left == Leftovers(p)
           R == {j \in Job : Recovers(j)}
           before == SubSeq(left, 1, n - 1)
           again == Filter(before, R)
           rest == SubSeq(left, n, Len(left))
           done == {j \in ToSet(before) : ~ Recovers(j)}
<1>0. /\ JobTypes(row, rowid, fair, active, stale, home, runs, outcome)
      /\ Table(row, rowid, home) /\ Entries(fair, active, stale, home)
      /\ Attempts(fair, home, runs) /\ Promises(home, outcome)
      /\ Agreement(row, fair, active, stale, outcome)
      /\ Ownership /\ Waiters
  BY SaneParts
<1>1. /\ server[p] = "open" /\ Fails
      /\ started' = [started EXCEPT ![p] = TRUE]
      /\ stale' = [stale EXCEPT ![p] = rest]
      /\ fair' = [fair EXCEPT ![p] = fair[p] \o again]
      /\ row' = [j \in Job |-> IF j \in ToSet(before) /\ ~ Recovers(j) THEN "failed" ELSE row[j]]
      /\ UNCHANGED <<rowid, lease, expired, server, lost, active, idleWaiting, outcome, home,
                     runs, stalls>>
  BY DEF StartThrows
<1>2. left = stale[p] /\ left \in Seq(Job) /\ Once(left)
  <2>1. ~ started[p]
    BY DEF Leftovers
  <2> QED BY <2>1, <1>0 DEF Leftovers, JobTypes, Entries
<1>3. n - 1 \in 0..Len(left) /\ (n - 1) + 1 = n
  BY <1>2
<1> HIDE DEF left
<1>4. /\ rest \in Seq(Job) /\ Once(rest) /\ ToSet(left) = ToSet(before) \cup ToSet(rest)
      /\ before \in Seq(Job) /\ Once(before) /\ ToSet(before) \cap ToSet(rest) = {}
  <2>1. /\ SubSeq(left, (n - 1) + 1, Len(left)) \in Seq(Job) /\ Once(SubSeq(left, (n - 1) + 1, Len(left)))
        /\ ToSet(left) = {left[i] : i \in 1..(n - 1)} \cup ToSet(SubSeq(left, (n - 1) + 1, Len(left)))
        /\ {left[i] : i \in 1..(n - 1)} \cap ToSet(SubSeq(left, (n - 1) + 1, Len(left))) = {}
    BY <1>2, <1>3, SplitFacts
  <2>2. /\ before \in Seq(Job) /\ Once(before)
        /\ ToSet(before) = {left[i] : i \in 1..(n - 1)}
    BY <1>2, <1>3, FrontFacts
  <2> HIDE DEF before
  <2> QED BY <2>1, <2>2, <1>3
<1> HIDE DEF before, rest
<1>5. again \in Seq(Job) /\ Once(again) /\ ToSet(again) = ToSet(before) \cap R
  BY <1>4, FilterFacts, FilterOnce
<1>6. ToSet(before) \subseteq Job /\ ToSet(again) = ToSet(before) \ done
  <2>1. ToSet(before) \subseteq Job
    BY <1>4 DEF ToSet
  <2> QED BY <2>1, <1>5
<1> HIDE DEF again, R
<1>7. fair[p] \in Seq(Job) /\ Once(fair[p]) /\ ToSet(fair[p]) \cap ToSet(left) = {}
  BY <1>0, <1>2 DEF JobTypes, Entries
<1>8. ToSet(fair[p]) \cap ToSet(again) = {}
  BY <1>4, <1>6, <1>7
<1>9. /\ fair[p] \o again \in Seq(Job) /\ Once(fair[p] \o again)
      /\ ToSet(fair[p] \o again) = ToSet(fair[p]) \cup ToSet(again)
  BY <1>5, <1>7, <1>8, ConcatFacts
<1>10. /\ fair'[p] = fair[p] \o again /\ stale'[p] = rest
       /\ \A x \in Proc : x # p => fair'[x] = fair[x] /\ stale'[x] = stale[x]
  BY <1>0, <1>1 DEF JobTypes
<1>11. \A j \in Job : row'[j] = IF j \in done THEN "failed" ELSE row[j]
  BY <1>1
<1>12. \A j \in ToSet(left) : home[j] # None
  BY <1>0, <1>2 DEF Entries
<1>13. \A j \in done : j \in Job /\ j \in ToSet(left) /\ row[j] # "absent"
  BY <1>0, <1>4, <1>6, <1>12 DEF Table
<1>14. stalls = 0 => \A j \in ToSet(before) : row[j] = "queued"
  BY <1>0, <1>1, <1>2, <1>4, <1>6 DEF Agreement
<1>15. JobTypes(row, rowid, fair, active, stale, home, runs, outcome)'
  <2>1. row' \in [Job -> {"absent", "queued", "running", "done", "failed"}]
    BY <1>0, <1>1 DEF JobTypes
  <2>2. fair' \in [Proc -> Seq(Job)]
    BY <1>0, <1>1, <1>9 DEF JobTypes
  <2>3. stale' \in [Proc -> Seq(Job)]
    BY <1>0, <1>1, <1>4 DEF JobTypes
  <2> QED BY <2>1, <2>2, <2>3, <1>0, <1>1 DEF JobTypes
<1> HIDE DEF done
<1>16. Table(row, rowid, home)'
  BY <1>0, <1>1, <1>11, <1>13 DEF Table
<1>17. Entries(fair, active, stale, home)'
  <2> SUFFICES ASSUME NEW x \in Proc
               PROVE  (/\ Once(fair[x]) /\ Once(stale[x]) /\ ToSet(fair[x]) \cap ToSet(stale[x]) = {}
                       /\ \A j \in ToSet(fair[x]) \cup ToSet(stale[x]) \cup active[x] : home[j] # None
                       /\ IsFiniteSet(active[x]) /\ Cardinality(active[x]) <= Width
                       /\ server[x] \in {"new", "dead"} => fair[x] = <<>> /\ stale[x] = <<>> /\ active[x] = {})'
    BY DEF Entries
  <2>1. CASE x = p
    <3>1. ToSet(fair'[p]) \cap ToSet(stale'[p]) = {}
      BY <1>4, <1>6, <1>7, <1>9, <1>10
    <3>2. \A j \in ToSet(fair'[p]) \cup ToSet(stale'[p]) : home[j] # None
      BY <1>0, <1>4, <1>6, <1>9, <1>10, <1>12 DEF Entries
    <3> QED BY <2>1, <3>1, <3>2, <1>0, <1>1, <1>4, <1>9, <1>10 DEF Entries
  <2>2. CASE x # p
    BY <2>2, <1>0, <1>1, <1>10 DEF Entries
  <2> QED BY <2>1, <2>2
<1>18. Attempts(fair, home, runs)'
  <2>1. \A j \in ToSet(again) : j \notin NonRecoverable
    BY <1>5 DEF Recovers, R
  <2> QED BY <2>1, <1>0, <1>1, <1>9, <1>10 DEF Attempts
<1>19. Promises(home, outcome)'
  BY <1>0, <1>1 DEF Promises
<1>20. Agreement(row, fair, active, stale, outcome)'
  <2> SUFFICES ASSUME stalls = 0
               PROVE  (/\ \A x \in Proc : server[x] = "open" =>
                            /\ \A j \in Job : row[j] = "queued" <=> j \in ToSet(fair[x]) \cup ToSet(stale[x])
                            /\ \A j \in active[x] : row[j] = "running"
                       /\ \A j \in Job : outcome[j] = "resolved" => row[j] = "done")'
    BY <1>1 DEF Agreement
  <2>1. \A x \in Proc : server'[x] = "open" => x = p
    BY <1>0, <1>1 DEF Ownership
  <2>2. \A j \in Job : row[j] = "queued" <=> j \in ToSet(fair[p]) \cup ToSet(left)
    BY <1>0, <1>1, <1>2 DEF Agreement
  <2>3. ASSUME NEW j \in Job
        PROVE  row'[j] = "queued" <=> j \in ToSet(fair'[p]) \cup ToSet(stale'[p])
    <3>1. CASE j \in done
      <4>1. j \in ToSet(before)
        BY <3>1 DEF done
      <4>2. j \notin ToSet(fair[p]) /\ j \notin ToSet(rest) /\ j \notin ToSet(again)
        BY <3>1, <4>1, <1>4, <1>6, <1>7
      <4> QED BY <4>2, <3>1, <1>9, <1>10, <1>11
    <3>2. CASE j \notin done
      BY <3>2, <2>2, <1>4, <1>6, <1>9, <1>10, <1>11
    <3> QED BY <3>1, <3>2
  <2>4. \A j \in active'[p] : row'[j] = "running"
    <3>1. \A j \in active[p] : j \in Job /\ row[j] = "running"
      BY <1>0, <1>1 DEF Agreement, JobTypes
    <3> QED BY <3>1, <1>1, <1>11, <1>14 DEF done
  <2>5. \A j \in Job : outcome'[j] = "resolved" => row'[j] = "done"
    BY <1>0, <1>1, <1>11, <1>14 DEF Agreement, done
  <2> QED BY <2>1, <2>3, <2>4, <2>5
<1>21. Ownership'
  <2>1. failed' \in 0..MaxFail
    BY <1>0, <1>1, JobQueueAssumption DEF Fails, Ownership
  <2> QED BY <2>1, <1>0, <1>1 DEF Ownership
<1>22. Waiters'
  <2>1. fair[p] # <<>> => fair'[p] # <<>>
    BY <1>5, <1>7, <1>10
  <2> QED BY <2>1, <1>0, <1>1, <1>10 DEF Waiters
<1>23. Final
  BY <1>11, <1>14 DEF Final, done
<1> QED BY <1>15, <1>16, <1>17, <1>18, <1>19, <1>20, <1>21, <1>22, <1>23 DEF JobInv, Sane
LEMMA NonEmpty ==
  ASSUME NEW q \in Seq(Job)
  PROVE  q # <<>> <=> ToSet(q) # {}
<1>1. ToSet(<<>>) = {}
  BY DEF ToSet
<1>2. ASSUME q # <<>> PROVE ToSet(q) # {}
  <2>1. 1 \in DOMAIN q
    BY <1>2
  <2> QED BY <2>1 DEF ToSet
<1> QED BY <1>1, <1>2

LEMMA EnqueueKeeps ==
  ASSUME JobInv, NEW p \in Proc, NEW j \in Job, Enqueue(p, j)
  PROVE  JobInv' /\ Final
<1> DEFINE q == Append(fair[p], j)
           f == [fair EXCEPT ![p] = q]
           rows == [row EXCEPT ![j] = "queued"]
<1>0. /\ JobTypes(row, rowid, fair, active, stale, home, runs, outcome)
      /\ Table(row, rowid, home) /\ Entries(fair, active, stale, home)
      /\ Attempts(fair, home, runs) /\ Promises(home, outcome)
      /\ Agreement(row, fair, active, stale, outcome)
      /\ Ownership /\ Waiters
  BY SaneParts
<1>1. /\ server[p] = "open" /\ row[j] = "absent" /\ home[j] = None
      /\ home' = [home EXCEPT ![j] = p]
      /\ outcome' = [outcome EXCEPT ![j] = "waiting"]
      /\ rowid' = Append(rowid, j)
      /\ Pump(p, q, rows, active[p], 0)
      /\ UNCHANGED <<lease, expired, server, lost, stale, started, idleWaiting, stalls>>
  BY DEF Enqueue
<1>2. fair[p] \in Seq(Job) /\ Once(fair[p]) /\ j \notin ToSet(fair[p])
  BY <1>0, <1>1 DEF JobTypes, Entries
<1>3. q \in Seq(Job) /\ Once(q) /\ ToSet(q) = ToSet(fair[p]) \cup {j}
  BY <1>2, AppendFacts
<1>4. rowid' \in Seq(Job) /\ Once(rowid') /\ ToSet(rowid') = ToSet(rowid) \cup {j}
  <2>1. rowid \in Seq(Job) /\ Once(rowid) /\ j \notin ToSet(rowid)
    BY <1>0, <1>1 DEF JobTypes, Table
  <2> QED BY <2>1, <1>1, AppendFacts
<1>5. /\ f = [fair EXCEPT ![p] = f[p]] /\ f[p] = q /\ f \in [Proc -> Seq(Job)]
      /\ \A x \in Proc : x # p => f[x] = fair[x]
  BY <1>0, <1>3 DEF JobTypes
<1>6. active = [active EXCEPT ![p] = active[p]]
  BY <1>0 DEF JobTypes
<1>7. /\ rows \in [Job -> {"absent", "queued", "running", "done", "failed"}]
      /\ rows[j] = "queued" /\ \A k \in Job : k # j => rows[k] = row[k]
  BY <1>0 DEF JobTypes
<1>8. /\ home' \in [Job -> Proc \cup {None}] /\ home'[j] = p /\ p # None
      /\ \A k \in Job : k # j => home'[k] = home[k]
  BY <1>0, <1>1, JobQueueAssumption DEF JobTypes
<1>9. /\ outcome' \in [Job -> {"none", "waiting", "resolved", "rejected", "gone"}]
      /\ outcome'[j] = "waiting" /\ \A k \in Job : k # j => outcome'[k] = outcome[k]
  BY <1>0, <1>1 DEF JobTypes
<1> HIDE DEF q, f, rows
<1>10. JobTypes(rows, rowid', f, active, stale, home', runs, outcome')
  BY <1>0, <1>4, <1>5, <1>7, <1>8, <1>9 DEF JobTypes
<1>11. Table(rows, rowid', home')
  BY <1>0, <1>4, <1>7, <1>8 DEF Table
<1>12. Entries(f, active, stale, home')
  <2>1. \A x \in Proc : ToSet(fair[x]) \subseteq Job /\ ToSet(stale[x]) \subseteq Job
    BY <1>0 DEF JobTypes, ToSet
  <2>2. \A x \in Proc : \A k \in ToSet(fair[x]) \cup ToSet(stale[x]) \cup active[x] :
          k # j /\ k \in Job /\ home[k] # None
    BY <2>1, <1>0, <1>1 DEF Entries, JobTypes
  <2> SUFFICES ASSUME NEW x \in Proc
               PROVE  /\ Once(f[x]) /\ Once(stale[x]) /\ ToSet(f[x]) \cap ToSet(stale[x]) = {}
                      /\ \A k \in ToSet(f[x]) \cup ToSet(stale[x]) \cup active[x] : home'[k] # None
                      /\ IsFiniteSet(active[x]) /\ Cardinality(active[x]) <= Width
                      /\ server[x] \in {"new", "dead"} => f[x] = <<>> /\ stale[x] = <<>> /\ active[x] = {}
    BY DEF Entries
  <2>3. CASE x = p
    <3>1. server[p] \notin {"new", "dead"} /\ f[p] = q /\ Once(f[p])
      BY <1>1, <1>3, <1>5
    <3>2. ToSet(f[p]) \cap ToSet(stale[p]) = {}
      BY <2>2, <1>0, <1>3, <1>5 DEF Entries
    <3>3. \A k \in ToSet(f[p]) \cup ToSet(stale[p]) \cup active[p] : home'[k] # None
      BY <2>2, <1>3, <1>5, <1>8
    <3> QED BY <2>3, <3>1, <3>2, <3>3, <1>0 DEF Entries
  <2>4. CASE x # p
    BY <2>2, <2>4, <1>0, <1>5, <1>8 DEF Entries
  <2> QED BY <2>3, <2>4
<1>13. Attempts(f, home', runs)
  <2>1. \A k \in Job : home'[k] = None => runs[k] = 0
    BY <1>0, <1>8 DEF Attempts
  <2>2. ASSUME NEW x \in Proc, NEW k \in NonRecoverable, k \in ToSet(f[x])
        PROVE  home'[k] = x /\ runs[k] = 0
    <3>0. k \in Job
      BY JobQueueAssumption
    <3>1. CASE k = j
      <4>1. \A y \in Proc : k \notin ToSet(fair[y])
        BY <3>1, <1>0, <1>1 DEF Entries
      <4>2. x = p
        BY <4>1, <2>2, <1>5
      <4> QED BY <4>2, <3>1, <1>0, <1>1, <1>8 DEF Attempts
    <3>2. CASE k # j
      <4>1. k \in ToSet(fair[x])
        BY <3>2, <2>2, <1>3, <1>5
      <4> QED BY <4>1, <3>0, <3>2, <1>0, <1>8 DEF Attempts
    <3> QED BY <3>1, <3>2
  <2> QED BY <2>1, <2>2, <1>0 DEF Attempts
<1>14. Promises(home', outcome')
  BY <1>0, <1>1, <1>8, <1>9 DEF Promises
<1>15. Agreement(rows, f, active, stale, outcome')
  <2> SUFFICES ASSUME stalls = 0
               PROVE  /\ \A x \in Proc : server[x] = "open" =>
                           /\ \A k \in Job : rows[k] = "queued" <=> k \in ToSet(f[x]) \cup ToSet(stale[x])
                           /\ \A k \in active[x] : rows[k] = "running"
                      /\ \A k \in Job : outcome'[k] = "resolved" => rows[k] = "done"
    BY DEF Agreement
  <2>1. \A x \in Proc : server[x] = "open" => x = p
    BY <1>0, <1>1 DEF Ownership
  <2>2. \A k \in Job : row[k] = "queued" <=> k \in ToSet(fair[p]) \cup ToSet(stale[p])
    BY <1>0, <1>1 DEF Agreement
  <2>3. \A k \in Job : rows[k] = "queued" <=> k \in ToSet(f[p]) \cup ToSet(stale[p])
    BY <2>2, <1>3, <1>5, <1>7
  <2>4. \A k \in active[p] : rows[k] = "running"
    <3>1. \A k \in active[p] : k \in Job /\ row[k] = "running"
      BY <1>0, <1>1 DEF Agreement, JobTypes
    <3> QED BY <3>1, <1>1, <1>7
  <2>5. \A k \in Job : outcome'[k] = "resolved" => rows[k] = "done"
    BY <1>0, <1>7, <1>9 DEF Agreement
  <2> QED BY <2>1, <2>3, <2>4, <2>5
<1>16. Sane(rows, rowid', f, active, stale, home', runs, outcome')
  BY <1>10, <1>11, <1>12, <1>13, <1>14, <1>15 DEF Sane
<1>17. Pump(p, f[p], rows, active[p], 0) /\ 0 \in Nat
  BY <1>1, <1>5
<1>18. /\ Sane(row', rowid', fair', active', stale, home', runs', outcome')
       /\ failed' \in 0..MaxFail
       /\ \A x \in Proc : \/ f[x] # <<>> \/ active[x] # {} => fair'[x] # <<>> \/ active'[x] # {}
       /\ \A k \in Job : rows[k] # "queued" /\ stalls = 0 => row'[k] = rows[k]
  <2>1. server[p] \in {"open", "closed"} /\ Ownership /\ f = [fair EXCEPT ![p] = f[p]]
    BY <1>0, <1>1, <1>5
  <2> QED BY <2>1, <1>6, <1>16, <1>17, PumpKeeps
<1>19. Sane(row, rowid, fair, active, stale, home, runs, outcome)'
  BY <1>1, <1>18 DEF Sane, JobTypes, Table, Entries, Attempts, Promises, Agreement
<1>20. Ownership'
  BY <1>0, <1>1, <1>18 DEF Ownership
<1>21. Waiters'
  <2>1. f[p] # <<>>
    BY <1>3, <1>5, NonEmpty
  <2> QED BY <2>1, <1>0, <1>1, <1>5, <1>18 DEF Waiters
<1>22. Final
  BY <1>1, <1>7, <1>18 DEF Final
<1> QED BY <1>19, <1>20, <1>21, <1>22 DEF JobInv

LEMMA EnqueueFailsKeeps ==
  ASSUME JobInv, NEW p \in Proc, NEW j \in Job, EnqueueFails(p, j)
  PROVE  JobInv' /\ Final
<1> DEFINE q == RemoveEntry(fair[p], j)
<1>0. /\ JobTypes(row, rowid, fair, active, stale, home, runs, outcome)
      /\ Table(row, rowid, home) /\ Entries(fair, active, stale, home)
      /\ Attempts(fair, home, runs) /\ Promises(home, outcome)
      /\ Agreement(row, fair, active, stale, outcome)
      /\ Ownership /\ Waiters
  BY SaneParts
<1>1. /\ server[p] = "open" /\ row[j] = "absent" /\ home[j] = None
      /\ fair' = [fair EXCEPT ![p] = q] /\ Fails
      /\ UNCHANGED <<row, rowid, lease, expired, server, lost, active, stale, started,
                     idleWaiting, outcome, home, runs, stalls>>
  BY DEF EnqueueFails
<1>2. fair[p] \in Seq(Job) /\ Once(fair[p]) /\ j \notin ToSet(fair[p])
  BY <1>0, <1>1 DEF JobTypes, Entries
<1>3. /\ Append(fair[p], j) \in Seq(Job) /\ Once(Append(fair[p], j))
      /\ ToSet(Append(fair[p], j)) = ToSet(fair[p]) \cup {j}
  BY <1>2, AppendFacts
<1>4. q \in Seq(Job) /\ Once(q) /\ ToSet(q) = (ToSet(fair[p]) \cup {j}) \cap (Job \ {j})
  <2> DEFINE s == Append(fair[p], j)
             S == Job \ {j}
  <2>1. q = Filter(s, S)
    BY DEF RemoveEntry
  <2>2. s \in Seq(Job) /\ Once(s) /\ ToSet(s) = ToSet(fair[p]) \cup {j}
    BY <1>3
  <2> HIDE DEF s, S, q
  <2>3. q \in Seq(Job) /\ Once(q) /\ ToSet(q) = ToSet(s) \cap S
    BY <2>1, <2>2, FilterFacts, FilterOnce
  <2> QED BY <2>2, <2>3 DEF S
<1>5. ToSet(q) = ToSet(fair[p])
  <2>1. ToSet(fair[p]) \subseteq Job
    BY <1>2 DEF ToSet
  <2> HIDE DEF q
  <2> QED BY <2>1, <1>2, <1>4
<1> HIDE DEF q
<1>6. fair'[p] = q /\ \A x \in Proc : x # p => fair'[x] = fair[x]
  BY <1>0, <1>1 DEF JobTypes
<1>7. \A x \in Proc : ToSet(fair'[x]) = ToSet(fair[x])
  BY <1>5, <1>6
<1>8. JobTypes(row, rowid, fair, active, stale, home, runs, outcome)'
  BY <1>0, <1>1, <1>4 DEF JobTypes
<1>9. Table(row, rowid, home)' /\ Promises(home, outcome)'
  BY <1>0, <1>1 DEF Table, Promises
<1>10. Entries(fair, active, stale, home)'
  BY <1>0, <1>1, <1>4, <1>6, <1>7 DEF Entries
<1>11. Attempts(fair, home, runs)'
  BY <1>0, <1>1, <1>7 DEF Attempts
<1>12. Agreement(row, fair, active, stale, outcome)'
  BY <1>0, <1>1, <1>7 DEF Agreement
<1>13. Ownership'
  <2>1. failed' \in 0..MaxFail
    BY <1>0, <1>1, JobQueueAssumption DEF Fails, Ownership
  <2> QED BY <2>1, <1>0, <1>1 DEF Ownership
<1>14. Waiters'
  <2>1. fair[p] # <<>> => q # <<>>
    BY <1>2, <1>4, <1>5, NonEmpty
  <2> QED BY <2>1, <1>0, <1>1, <1>6 DEF Waiters
<1>15. Final
  BY <1>1 DEF Final
<1> QED BY <1>8, <1>9, <1>10, <1>11, <1>12, <1>13, <1>14, <1>15 DEF JobInv, Sane
LEMMA HandlerEndsKeeps ==
  ASSUME JobInv, NEW p \in Proc, NEW j \in Job,
         NEW result \in {"done", "failed"}, NEW written \in BOOLEAN,
         HandlerEnds(p, j, result, written)
  PROVE  JobInv' /\ Final
<1> DEFINE rows == Records(p, row, j, result, written)
           a == [active EXCEPT ![p] = active[p] \ {j}]
           failing == IF written THEN 0 ELSE 1
<1>0. /\ JobTypes(row, rowid, fair, active, stale, home, runs, outcome)
      /\ Table(row, rowid, home) /\ Entries(fair, active, stale, home)
      /\ Attempts(fair, home, runs) /\ Promises(home, outcome)
      /\ Agreement(row, fair, active, stale, outcome)
      /\ Ownership /\ Waiters
  BY SaneParts
<1>1. /\ server[p] \in {"open", "closed"} /\ j \in active[p]
      /\ ~ written => server[p] = "open"
      /\ outcome' = IF home[j] = p /\ outcome[j] = "waiting"
                    THEN [outcome EXCEPT ![j] =
                           IF result = "done" /\ written THEN "resolved" ELSE "rejected"]
                    ELSE outcome
      /\ Pump(p, fair[p], rows, active[p] \ {j}, failing)
      /\ idleWaiting' = [idleWaiting EXCEPT ![p] = idleWaiting[p] /\ ~ Idle(p)]
      /\ UNCHANGED <<rowid, lease, expired, server, lost, stale, started, home, stalls>>
  BY DEF HandlerEnds
<1>2. failing \in Nat
  OBVIOUS
<1>3. /\ rows \in [Job -> {"absent", "queued", "running", "done", "failed"}]
      /\ \A k \in Job : k # j => rows[k] = row[k]
      /\ server[p] = "closed" \/ ~ written => rows[j] = row[j]
      /\ server[p] = "open" /\ written => rows[j] = result
      /\ rows[j] \in {row[j], "done", "failed"}
  BY <1>0, <1>1 DEF Records, JobTypes
<1>4. /\ outcome' \in [Job -> {"none", "waiting", "resolved", "rejected", "gone"}]
      /\ \A k \in Job : k # j => outcome'[k] = outcome[k]
      /\ outcome'[j] = "waiting" => outcome[j] = "waiting"
      /\ outcome'[j] = "resolved" /\ outcome[j] # "resolved" =>
           home[j] = p /\ outcome[j] = "waiting" /\ result = "done" /\ written
  BY <1>0, <1>1 DEF JobTypes
<1>5. /\ a \in [Proc -> SUBSET Job] /\ a = [active EXCEPT ![p] = a[p]]
      /\ a[p] = active[p] \ {j} /\ \A x \in Proc : x # p => a[x] = active[x]
  BY <1>0 DEF JobTypes
<1>6. fair = [fair EXCEPT ![p] = fair[p]]
  BY <1>0 DEF JobTypes
<1>7. home[j] # None /\ row[j] # "absent"
  BY <1>0, <1>1 DEF Entries, Table
<1>8. stalls = 0 /\ server[p] = "open" => row[j] = "running"
  BY <1>0, <1>1 DEF Agreement
<1> HIDE DEF rows, a, failing
<1>9. JobTypes(rows, rowid, fair, a, stale, home, runs, outcome')
  BY <1>0, <1>3, <1>4, <1>5 DEF JobTypes
<1>10. Table(rows, rowid, home)
  <2>1. \A k \in Job : rows[k] = "absent" <=> row[k] = "absent"
    BY <1>3, <1>7
  <2> QED BY <2>1, <1>0 DEF Table
<1>11. Entries(fair, a, stale, home)
  <2>1. IsFiniteSet(active[p] \ {j}) /\ Cardinality(active[p] \ {j}) <= Width
    <3>1. IsFiniteSet(active[p]) /\ Cardinality(active[p]) <= Width
      BY <1>0 DEF Entries
    <3>2. IsFiniteSet(active[p] \ {j}) /\ Cardinality(active[p] \ {j}) = Cardinality(active[p]) - 1
      BY <3>1, <1>1, FS_RemoveElement
    <3>3. Cardinality(active[p]) \in Nat /\ Width \in Nat
      BY <3>1, FS_CardinalityType, JobQueueAssumption
    <3> QED BY <3>1, <3>2, <3>3
  <2> SUFFICES ASSUME NEW x \in Proc
               PROVE  /\ Once(fair[x]) /\ Once(stale[x]) /\ ToSet(fair[x]) \cap ToSet(stale[x]) = {}
                      /\ \A k \in ToSet(fair[x]) \cup ToSet(stale[x]) \cup a[x] : home[k] # None
                      /\ IsFiniteSet(a[x]) /\ Cardinality(a[x]) <= Width
                      /\ server[x] \in {"new", "dead"} => fair[x] = <<>> /\ stale[x] = <<>> /\ a[x] = {}
    BY DEF Entries
  <2>2. CASE x = p
    BY <2>1, <2>2, <1>0, <1>1, <1>5 DEF Entries
  <2>3. CASE x # p
    BY <2>3, <1>0, <1>5 DEF Entries
  <2> QED BY <2>2, <2>3
<1>12. Promises(home, outcome')
  <2>1. \A k \in Job : outcome'[k] = "waiting" => outcome[k] = "waiting"
    BY <1>4
  <2> QED BY <2>1, <1>0 DEF Promises
<1>13. Agreement(rows, fair, a, stale, outcome')
  <2> SUFFICES ASSUME stalls = 0
               PROVE  /\ \A x \in Proc : server[x] = "open" =>
                           /\ \A k \in Job : rows[k] = "queued" <=> k \in ToSet(fair[x]) \cup ToSet(stale[x])
                           /\ \A k \in a[x] : rows[k] = "running"
                      /\ \A k \in Job : outcome'[k] = "resolved" => rows[k] = "done"
    BY DEF Agreement
  <2>1. \A k \in Job : rows[k] # row[k] =>
          k = j /\ server[p] = "open" /\ row[k] = "running" /\ rows[k] = result
    BY <1>1, <1>3, <1>8
  <2>2. \A k \in Job : rows[k] = "queued" <=> row[k] = "queued"
    BY <2>1
  <2>3. ASSUME NEW x \in Proc, server[x] = "open", NEW k \in a[x] PROVE rows[k] = "running"
    <3>1. k \in Job /\ k \in active[x] /\ row[k] = "running"
      BY <2>3, <1>0, <1>5 DEF Agreement, JobTypes
    <3>2. CASE k = j /\ server[p] = "open"
      <4>1. x = p
        BY <2>3, <3>2, <1>0 DEF Ownership
      <4> QED BY <4>1, <3>2, <2>3, <1>5
    <3>3. CASE k # j \/ server[p] # "open"
      BY <3>1, <3>3, <2>1
    <3> QED BY <3>2, <3>3
  <2>4. ASSUME NEW k \in Job, outcome'[k] = "resolved" PROVE rows[k] = "done"
    <3>1. CASE outcome[k] = "resolved"
      <4>1. row[k] = "done"
        BY <3>1, <1>0 DEF Agreement
      <4> QED BY <4>1, <2>1
    <3>2. CASE outcome[k] # "resolved"
      <4>1. k = j /\ home[j] = p /\ outcome[j] = "waiting" /\ result = "done" /\ written
        BY <3>2, <2>4, <1>4
      <4>2. server[p] = "open"
        BY <4>1, <1>0 DEF Promises
      <4> QED BY <4>1, <4>2, <1>3
    <3> QED BY <3>1, <3>2
  <2> QED BY <2>2, <2>3, <2>4, <1>0 DEF Agreement
<1>14. Sane(rows, rowid, fair, a, stale, home, runs, outcome')
  BY <1>0, <1>9, <1>10, <1>11, <1>12, <1>13 DEF Sane
<1>15. Pump(p, fair[p], rows, a[p], failing)
  BY <1>1, <1>5
<1>16. /\ Sane(row', rowid, fair', active', stale, home, runs', outcome')
       /\ failed' \in 0..MaxFail
       /\ \A x \in Proc : \/ fair[x] # <<>> \/ a[x] # {} => fair'[x] # <<>> \/ active'[x] # {}
       /\ \A k \in Job : rows[k] # "queued" /\ stalls = 0 => row'[k] = rows[k]
  <2>1. server[p] \in {"open", "closed"} /\ Ownership /\ a = [active EXCEPT ![p] = a[p]]
    BY <1>0, <1>1, <1>5
  <2> QED BY <2>1, <1>2, <1>6, <1>14, <1>15, PumpKeeps
<1>17. Sane(row, rowid, fair, active, stale, home, runs, outcome)'
  BY <1>1, <1>16 DEF Sane, JobTypes, Table, Entries, Attempts, Promises, Agreement
<1>18. Ownership'
  BY <1>0, <1>1, <1>16 DEF Ownership
<1>19. Waiters'
  <2>1. /\ idleWaiting' \in [Proc -> BOOLEAN]
        /\ idleWaiting'[p] => idleWaiting[p] /\ ~ Idle(p)
        /\ \A x \in Proc : x # p => idleWaiting'[x] = idleWaiting[x]
    BY <1>0, <1>1 DEF Waiters
  <2>2. ASSUME NEW x \in Proc, idleWaiting'[x]
        PROVE  server'[x] \notin {"new", "dead"} /\ (active'[x] # {} \/ fair'[x] # <<>>)
    <3>1. CASE x = p
      BY <3>1, <2>1, <2>2, <1>0, <1>1 DEF Idle, Waiters
    <3>2. CASE x # p
      BY <3>2, <2>1, <2>2, <1>0, <1>1, <1>5, <1>16 DEF Waiters
    <3> QED BY <3>1, <3>2
  <2> QED BY <2>1, <2>2 DEF Waiters
<1>20. Final
  <2>1. ASSUME NEW k \in Job, stalls = 0, row[k] \in {"done", "failed"} PROVE rows[k] = row[k]
    BY <2>1, <1>1, <1>3, <1>8
  <2> QED BY <2>1, <1>16 DEF Final
<1> QED BY <1>17, <1>18, <1>19, <1>20 DEF JobInv

\* close() and the end of the process: promises end with the open queue.
LEMMA CloseKeeps ==
  ASSUME JobInv, NEW p \in Proc, Close(p)
  PROVE  JobInv' /\ Final
<1>0. /\ JobTypes(row, rowid, fair, active, stale, home, runs, outcome)
      /\ Table(row, rowid, home) /\ Entries(fair, active, stale, home)
      /\ Attempts(fair, home, runs) /\ Promises(home, outcome)
      /\ Agreement(row, fair, active, stale, outcome)
      /\ Ownership /\ Waiters
  BY SaneParts
<1>1. /\ server[p] = "open"
      /\ server' = [server EXCEPT ![p] = "closed"]
      /\ outcome' = [j \in Job |-> IF j \in Waiting(p) THEN "rejected" ELSE outcome[j]]
      /\ idleWaiting' = [idleWaiting EXCEPT ![p] = FALSE]
      /\ lease' = IF lease = p THEN None ELSE lease
      /\ expired' = (expired /\ lease # p)
      /\ UNCHANGED <<row, rowid, lost, fair, active, stale, started, home, runs, failed, stalls>>
  BY DEF Close
<1>2. server'[p] = "closed" /\ \A x \in Proc : x # p => server'[x] = server[x]
  BY <1>0, <1>1 DEF Ownership
<1>3. JobTypes(row, rowid, fair, active, stale, home, runs, outcome)'
  BY <1>0, <1>1 DEF JobTypes
<1>4. Table(row, rowid, home)' /\ Attempts(fair, home, runs)'
  BY <1>0, <1>1 DEF Table, Attempts
<1>5. Entries(fair, active, stale, home)'
  BY <1>0, <1>1, <1>2 DEF Entries
<1>6. Promises(home, outcome)'
  BY <1>0, <1>1, <1>2 DEF Promises, Waiting
<1>7. Agreement(row, fair, active, stale, outcome)'
  BY <1>0, <1>1, <1>2 DEF Agreement
<1>8. Ownership'
  <2>1. lease' \in Proc \cup {None} /\ expired' \in BOOLEAN /\ (stalls' = 0 => ~ expired')
    BY <1>0, <1>1 DEF Ownership
  <2>2. server' \in [Proc -> {"new", "open", "closed", "dead"}]
    BY <1>0, <1>1 DEF Ownership
  <2>3. stalls' = 0 => \A x \in Proc : server'[x] = "open" => lease' = x
    BY <1>0, <1>1, <1>2 DEF Ownership
  <2> QED BY <2>1, <2>2, <2>3, <1>0, <1>1 DEF Ownership
<1>9. Waiters'
  BY <1>0, <1>1, <1>2 DEF Waiters
<1>10. Final
  BY <1>1 DEF Final
<1> QED BY <1>3, <1>4, <1>5, <1>6, <1>7, <1>8, <1>9, <1>10 DEF JobInv, Sane

LEMMA ExitKeeps ==
  ASSUME JobInv, NEW p \in Proc, Exit(p)
  PROVE  JobInv' /\ Final
<1>0. /\ JobTypes(row, rowid, fair, active, stale, home, runs, outcome)
      /\ Table(row, rowid, home) /\ Entries(fair, active, stale, home)
      /\ Attempts(fair, home, runs) /\ Promises(home, outcome)
      /\ Agreement(row, fair, active, stale, outcome)
      /\ Ownership /\ Waiters
  BY SaneParts
<1>1. /\ server[p] \in {"open", "closed"}
      /\ server' = [server EXCEPT ![p] = "dead"]
      /\ outcome' = [j \in Job |-> IF j \in Waiting(p) THEN "gone" ELSE outcome[j]]
      /\ fair' = [fair EXCEPT ![p] = <<>>] /\ stale' = [stale EXCEPT ![p] = <<>>]
      /\ active' = [active EXCEPT ![p] = {}]
      /\ idleWaiting' = [idleWaiting EXCEPT ![p] = FALSE]
      /\ lost' = [lost EXCEPT ![p] = FALSE] /\ started' = [started EXCEPT ![p] = FALSE]
      /\ UNCHANGED <<row, rowid, lease, expired, home, runs, failed, stalls>>
  BY DEF Exit
<1>2. server'[p] = "dead" /\ \A x \in Proc : x # p => server'[x] = server[x]
  BY <1>0, <1>1 DEF Ownership
<1>3. /\ fair'[p] = <<>> /\ stale'[p] = <<>> /\ active'[p] = {}
      /\ \A x \in Proc : x # p => fair'[x] = fair[x] /\ stale'[x] = stale[x] /\ active'[x] = active[x]
  BY <1>0, <1>1 DEF JobTypes
<1>4. /\ ToSet(<<>>) = {} /\ Once(<<>>) /\ <<>> \in Seq(Job)
      /\ IsFiniteSet({}) /\ Cardinality({}) = 0 /\ 0 <= Width
  BY FS_EmptySet, JobQueueAssumption DEF ToSet, Once
<1>5. JobTypes(row, rowid, fair, active, stale, home, runs, outcome)'
  <2>1. fair' \in [Proc -> Seq(Job)] /\ stale' \in [Proc -> Seq(Job)]
    BY <1>0, <1>1, <1>4 DEF JobTypes
  <2>2. active' \in [Proc -> SUBSET Job]
    BY <1>0, <1>1 DEF JobTypes
  <2> QED BY <2>1, <2>2, <1>0, <1>1 DEF JobTypes
<1>6. Table(row, rowid, home)'
  BY <1>0, <1>1 DEF Table
<1>7. Attempts(fair, home, runs)'
  BY <1>0, <1>1, <1>3, <1>4 DEF Attempts
<1>8. Entries(fair, active, stale, home)'
  <2> SUFFICES ASSUME NEW x \in Proc
               PROVE  (/\ Once(fair[x]) /\ Once(stale[x]) /\ ToSet(fair[x]) \cap ToSet(stale[x]) = {}
                       /\ \A j \in ToSet(fair[x]) \cup ToSet(stale[x]) \cup active[x] : home[j] # None
                       /\ IsFiniteSet(active[x]) /\ Cardinality(active[x]) <= Width
                       /\ server[x] \in {"new", "dead"} => fair[x] = <<>> /\ stale[x] = <<>> /\ active[x] = {})'
    BY DEF Entries
  <2>1. CASE x = p
    BY <2>1, <1>3, <1>4
  <2>2. CASE x # p
    BY <2>2, <1>0, <1>1, <1>2, <1>3 DEF Entries
  <2> QED BY <2>1, <2>2
<1>9. Promises(home, outcome)'
  BY <1>0, <1>1, <1>2 DEF Promises, Waiting
<1>10. Agreement(row, fair, active, stale, outcome)'
  <2> SUFFICES ASSUME stalls = 0
               PROVE  (/\ \A x \in Proc : server[x] = "open" =>
                            /\ \A k \in Job : row[k] = "queued" <=> k \in ToSet(fair[x]) \cup ToSet(stale[x])
                            /\ \A k \in active[x] : row[k] = "running"
                       /\ \A k \in Job : outcome[k] = "resolved" => row[k] = "done")'
    BY <1>1 DEF Agreement
  <2>1. \A x \in Proc : server'[x] = "open" => x # p /\ server[x] = "open"
    BY <1>2
  <2>2. \A k \in Job : outcome'[k] = "resolved" => row'[k] = "done"
    BY <1>0, <1>1 DEF Agreement
  <2> QED BY <2>1, <2>2, <1>0, <1>1, <1>3 DEF Agreement
<1>11. Ownership'
  <2>1. server' \in [Proc -> {"new", "open", "closed", "dead"}]
    BY <1>0, <1>1 DEF Ownership
  <2> QED BY <2>1, <1>0, <1>1, <1>2 DEF Ownership
<1>12. Waiters'
  BY <1>0, <1>1, <1>2, <1>3 DEF Waiters
<1>13. Final
  BY <1>1 DEF Final
<1> QED BY <1>5, <1>6, <1>7, <1>8, <1>9, <1>10, <1>11, <1>12, <1>13 DEF JobInv, Sane

-----------------------------------------------------------------------------
(* The theorems *)

LEMMA NextKeeps ==
  ASSUME JobInv, [Next]_vars
  PROVE  JobInv' /\ (Final \/ UNCHANGED vars)
<1>1. CASE LeaseRunsOut
  BY <1>1, LeaseRunsOutKeeps
<1>2. ASSUME NEW p \in Proc,
             Open(p) \/ Start(p) \/ RenewTimer(p) \/ OnIdle(p) \/ Close(p) \/ Exit(p)
      PROVE  JobInv' /\ Final
  BY <1>2, OpenKeeps, StartKeeps, RenewTimerKeeps, OnIdleKeeps, CloseKeeps, ExitKeeps
<1>3. ASSUME NEW p \in Proc, NEW n \in DOMAIN Leftovers(p), StartThrows(p, n)
      PROVE  JobInv' /\ Final
  BY <1>3, StartThrowsKeeps
<1>4. ASSUME NEW p \in Proc, NEW j \in Job, Enqueue(p, j) \/ EnqueueFails(p, j) \/ Ends(p, j)
      PROVE  JobInv' /\ Final
  BY <1>4, EnqueueKeeps, EnqueueFailsKeeps, HandlerEndsKeeps DEF Ends
<1>5. CASE UNCHANGED vars
  <2>1. Ownership /\ Waiters
    BY SaneParts
  <2>2. Ownership' /\ Waiters'
    BY <2>1, <1>5 DEF vars, memory, Ownership, Waiters
  <2>3. UNCHANGED <<row, rowid, fair, active, stale, home, runs, outcome, server, stalls>>
    BY <1>5 DEF vars, memory
  <2> QED BY <2>2, <2>3, <1>5, QuietKeeps
<1> QED BY <1>1, <1>2, <1>3, <1>4, <1>5 DEF Next

\* The inductive invariant, of every behaviour of the queue.
THEOREM JobInvariant == Spec => []JobInv
<1>1. JobInv /\ [Next]_vars => JobInv'
  BY NextKeeps
<1> QED BY InitKeeps, <1>1, PTL DEF Spec

\* Memory and table agree on what waits, and a resolved promise is a recorded row,
\* for every number of processes, jobs, failing statements and stalls.
THEOREM QueueMatchesTable == Spec => []QueuedIsScheduled
<1>1. JobInv => QueuedIsScheduled
  <2> SUFFICES ASSUME JobInv PROVE QueuedIsScheduled
    OBVIOUS
  <2>0. /\ JobTypes(row, rowid, fair, active, stale, home, runs, outcome)
        /\ Entries(fair, active, stale, home)
        /\ Agreement(row, fair, active, stale, outcome)
        /\ Ownership /\ Waiters
    BY SaneParts
  <2>1. TypeOK
    BY <2>0 DEF TypeOK, JobTypes, Entries, Ownership, Waiters
  <2>2. ASSUME NEW p \in Proc, Sound(p)
        PROVE  /\ \A j \in Job : row[j] = "queued" <=> j \in ToSet(fair[p]) \cup ToSet(stale[p])
               /\ Len(fair[p]) + Len(stale[p]) = Cardinality(ToSet(fair[p]) \cup ToSet(stale[p]))
    <3>1. /\ fair[p] \in Seq(Job) /\ stale[p] \in Seq(Job) /\ Once(fair[p]) /\ Once(stale[p])
          /\ ToSet(fair[p]) \cap ToSet(stale[p]) = {}
      BY <2>0 DEF JobTypes, Entries
    <3>2. /\ IsFiniteSet(ToSet(fair[p])) /\ Cardinality(ToSet(fair[p])) = Len(fair[p])
          /\ IsFiniteSet(ToSet(stale[p])) /\ Cardinality(ToSet(stale[p])) = Len(stale[p])
      BY <3>1, OnceLength
    <3>3. Cardinality(ToSet(fair[p]) \cup ToSet(stale[p]))
            = Len(fair[p]) + Len(stale[p]) - Cardinality({})
      BY <3>1, <3>2, FS_Union
    <3>4. Cardinality({}) = 0 /\ Len(fair[p]) \in Nat /\ Len(stale[p]) \in Nat
      BY <3>1, FS_EmptySet
    <3>5. Len(fair[p]) + Len(stale[p]) = Cardinality(ToSet(fair[p]) \cup ToSet(stale[p]))
      <4> DEFINE both == Cardinality(ToSet(fair[p]) \cup ToSet(stale[p]))
                 none == Cardinality({})
      <4>1. both = Len(fair[p]) + Len(stale[p]) - none /\ none = 0
        BY <3>3, <3>4
      <4> HIDE DEF both, none
      <4>2. both = Len(fair[p]) + Len(stale[p])
        BY <4>1, <3>4
      <4> QED BY <4>2 DEF both
    <3>6. \A j \in Job : row[j] = "queued" <=> j \in ToSet(fair[p]) \cup ToSet(stale[p])
      BY <2>0, <2>2 DEF Agreement, Sound
    <3> QED BY <3>5, <3>6
  <2>3. \A j \in Job : outcome[j] = "resolved" /\ stalls = 0 => row[j] = "done"
    BY <2>0 DEF Agreement
  <2> QED BY <2>1, <2>2, <2>3 DEF QueuedIsScheduled
<1> QED BY <1>1, JobInvariant, PTL

\* A job of a kind with recover: false is started once at most.
THEOREM NeverRunAgain == Spec => []NotRunAgain
<1>1. JobInv => NotRunAgain
  BY SaneParts DEF Attempts, NotRunAgain
<1> QED BY <1>1, JobInvariant, PTL

\* Who awaits onIdle() has something to wait for.
THEOREM IdleIsNoticed == Spec => []IdleWakes
<1>1. JobInv => IdleWakes
  BY SaneParts DEF Waiters, IdleWakes
<1> QED BY <1>1, JobInvariant, PTL

\* A row that is done or failed stays so, unless an owner outlived its lease.
THEOREM FinishedStays == Spec => FinishedIsFinal
<1>1. JobInv /\ [Next]_vars =>
        [\A j \in Job : stalls = 0 /\ row[j] \in {"done", "failed"} => row'[j] = row[j]]_vars
  BY NextKeeps DEF Final
<1> QED BY <1>1, JobInvariant, PTL DEF Spec, FinishedIsFinal
=============================================================================

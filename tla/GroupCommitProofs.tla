--------------------------- MODULE GroupCommitProofs ---------------------------
(* Proofs about GroupCommit: backpressure is exact, acknowledgements tell the    *)
(* truth, a command takes effect once and normal members keep their order, for   *)
(* any number of members, any batch and buffer limits and any number of retries. *)
EXTENDS GroupCommit, FilteringProofs

(* The invariant speaks of the parts of the state that schedule() changes as     *)
(* parameters, so that it can be said of the moment before schedule() as well:   *)
(* the buffer b, the lanes L, the members put off p, the pause w; and of those    *)
(* that its callers change before it: the replies R, the outcomes oc, the         *)
(* backpressure counter h and the order of submission o.                          *)

\* The member at position i of a batch answered by r has had no effect and is to be
\* run (again): no answer yet, it never ran, or its transaction was undone.
Fresh(r, i) ==
  \/ r = None
  \/ r.kinds[i] \in {"deferred", "notRun"}
  \/ r.kinds[i] = "ok" /\ r.batch = "not_committed"

Unrun(s, r) == {s[i] : i \in {j \in 1..Len(s) : Fresh(r, j)}}

\* Members without effect: those and the ones whose own savepoint was undone.
Clean(s, r) == {s[i] : i \in {j \in 1..Len(s) : Fresh(r, j) \/ r.kinds[j] = "failed"}}

Enders(s, r) == {s[i] : i \in {j \in 1..Len(s) : r # None /\ r.kinds[j] = "ender"}}

\* Every held member is in the buffer or in one batch, once, and is counted.
Placed(b, L, oc, h) ==
  /\ b \in Seq(Member) /\ L \in [Lane -> Seq(Member)] /\ oc \in [Member -> Outcomes]
  /\ Once(b) /\ \A l \in Lane : Once(L[l]) /\ ToSet(L[l]) \cap ToSet(b) = {}
  /\ ToSet(L["main"]) \cap ToSet(L["priority"]) = {}
  /\ {m \in Member : oc[m] = "held"}
       = ToSet(b) \cup ToSet(L["main"]) \cup ToSet(L["priority"])
  /\ h = Len(b) + Len(L["main"]) + Len(L["priority"])

\* A batch fits, an answer speaks of every member of its batch, and the priority
\* lane carries priority members only.
Batches(L, R) ==
  /\ R \in [Lane -> Reply \cup {None}]
  /\ \A l \in Lane :
       /\ Len(L[l]) <= MaxBatchCount
       /\ L[l] = <<>> => R[l] = None
       /\ R[l] # None => Len(R[l].kinds) = Len(L[l])
       /\ R[l] # None /\ R[l].batch = "committed" =>
            \A i \in 1..Len(L[l]) : R[l].kinds[i] \in {"ok", "failed", "deferred"}
  /\ ToSet(L["priority"]) \subseteq Priority

\* Members put off fit a batch; before schedule() the lane that takes them is free,
\* and a pause means that a batch has just come back.
Fit(b, L, p, w) ==
  /\ p \subseteq Member
  /\ Cardinality(p \cap ToSet(b)) <= MaxBatchCount
  /\ p \cap ToSet(b) # {} =>
       \/ L["main"] = <<>> /\ (w => L["priority"] = <<>>)
       \/ ~ w /\ L["priority"] = <<>> /\ p \cap ToSet(b) \subseteq Priority
  /\ w => \E l \in Lane : L[l] = <<>>

\* After it they wait only for the end of a pause.
PutOff(b, L, p, w) == Fit(b, L, p, w) /\ (p \cap ToSet(b) # {} => w)

\* No effect, and no thread that could still produce one.
Untouched(b, L, R, oc) ==
  {m \in Member : oc[m] \in {"new", "not_committed"}} \cup ToSet(b)
    \cup Clean(L["main"], R["main"]) \cup Clean(L["priority"], R["priority"])

Effects(ap, z) == Once(ap) /\ Once(z) /\ ToSet(ap) \cap ToSet(z) = {}

\* Receipts account for effects, and answers for both.
Truths(b, L, R, oc, rec, ap, z, rog) ==
  /\ Untouched(b, L, R, oc) \cap (ToSet(ap) \cup ToSet(z)) = {}
  /\ \A m \in Member : oc[m] = "ok" => rec[Command[m]] = Digest[m]
  /\ \A l \in Lane : \A i \in 1..Len(L[l]) :
       R[l] # None /\ R[l].batch = "committed" /\ R[l].kinds[i] = "ok"
         => rec[Command[L[l][i]]] = Digest[L[l][i]]
  /\ \A m \in ToSet(ap) :
       \/ rec[Command[m]] = Digest[m]
       \/ oc[m] = "not_reconcilable"
       \/ \E l \in Lane : m \in Enders(L[l], R[l])
  /\ \A m \in ToSet(ap) : rec[Command[m]] # None \/ Command[m] \in rog
  /\ \A m, n \in ToSet(ap) : m # n /\ Command[m] = Command[n] => Command[m] \in rog

\* The order in which normal members were submitted, kept in every place they pass.
Before(o, m, n) == \E i, j \in 1..Len(o) : i < j /\ o[i] = m /\ o[j] = n
Sorted(o, s) ==
  \A i, j \in 1..Len(s) :
    i < j /\ s[i] \notin Priority /\ s[j] \notin Priority => Before(o, s[i], s[j])
Ahead(o, S, T) == \A m \in S, n \in T : m \notin Priority /\ n \notin Priority => Before(o, m, n)

Ordered(b, L, R, p, oc, o, ap, z) ==
  /\ o \in Seq(Member) /\ Once(o) /\ ToSet(o) = {m \in Member : m \notin Priority /\ oc[m] # "new"}
  /\ \A m \in p : oc[m] # "new"
  /\ Sorted(o, ap) /\ Sorted(o, z) /\ Sorted(o, L["main"]) /\ Sorted(o, b)
  /\ Ahead(o, ToSet(ap), ToSet(z))
  /\ Ahead(o, ToSet(ap) \cup ToSet(z), Unrun(L["main"], R["main"]) \cup ToSet(b))
  /\ Ahead(o, ToSet(L["main"]), ToSet(b))
  /\ Ahead(o, p \cap ToSet(b), ToSet(b) \ p)

Rest ==
  /\ state \in {"open", "closing", "closed"}
  /\ attempts \in [Member -> 0..(MaxFlushAttempts - 1)]
  /\ forceFlush \in BOOLEAN /\ backoff \in BOOLEAN
  /\ stuck \subseteq Commands /\ rogue \subseteq Commands
  /\ zombie \in Seq(Member) /\ applied \in Seq(Member)
  /\ receipts \in [Commands -> {Digest[m] : m \in Member} \cup {None}]

GroupInv ==
  /\ Rest
  /\ Placed(buffer, lanes, outcome, heldCount)
  /\ Batches(lanes, reply)
  /\ PutOff(buffer, lanes, deferred, backoff)
  /\ Effects(applied, zombie)
  /\ Truths(buffer, lanes, reply, outcome, receipts, applied, zombie, rogue)
  /\ Ordered(buffer, lanes, reply, deferred, outcome, order, applied, zombie)

-----------------------------------------------------------------------------
(* Order *)

LEMMA SortedFilter ==
  ASSUME NEW o, NEW A, NEW s \in Seq(A), NEW S, Sorted(o, s)
  PROVE  Sorted(o, Filter(s, S))
<1> DEFINE g == Filter(s, S)
<1>1. PICK e \in [1..Len(g) -> 1..Len(s)] :
        /\ \A k \in 1..Len(g) : g[k] = s[e[k]]
        /\ \A k, l \in 1..Len(g) : k < l => e[k] < e[l]
  BY FilterFacts, Zenon
<1> HIDE DEF g
<1>2. SUFFICES ASSUME NEW i \in 1..Len(g), NEW j \in 1..Len(g), i < j,
                      g[i] \notin Priority, g[j] \notin Priority
               PROVE  Before(o, g[i], g[j])
  BY DEF Sorted, g
<1>3. /\ e[i] \in 1..Len(s) /\ e[j] \in 1..Len(s) /\ e[i] < e[j]
      /\ g[i] = s[e[i]] /\ g[j] = s[e[j]]
  BY <1>1, <1>2
<1> QED BY <1>2, <1>3 DEF Sorted

LEMMA SortedConcat ==
  ASSUME NEW o, NEW A, NEW s \in Seq(A), NEW t \in Seq(A),
         Sorted(o, s), Sorted(o, t), Ahead(o, ToSet(s), ToSet(t))
  PROVE  Sorted(o, s \o t)
<1> DEFINE u == s \o t
<1>1. /\ Len(u) = Len(s) + Len(t) /\ Len(s) \in Nat /\ Len(t) \in Nat
      /\ \A i \in 1..Len(s) : u[i] = s[i]
      /\ \A i \in 1..Len(u) : i > Len(s) => i - Len(s) \in 1..Len(t) /\ u[i] = t[i - Len(s)]
  OBVIOUS
<1>2. /\ \A i \in 1..Len(s) : s[i] \in ToSet(s)
      /\ \A i \in 1..Len(t) : t[i] \in ToSet(t)
  BY DEF ToSet
<1> HIDE DEF u
<1>3. SUFFICES ASSUME NEW i \in 1..Len(u), NEW j \in 1..Len(u), i < j,
                      u[i] \notin Priority, u[j] \notin Priority
               PROVE  Before(o, u[i], u[j])
  BY DEF Sorted, u
<1>4. CASE j <= Len(s)
  <2>1. i \in 1..Len(s) /\ j \in 1..Len(s)
    BY <1>1, <1>3, <1>4
  <2> QED BY <2>1, <1>1, <1>3 DEF Sorted
<1>5. CASE i > Len(s)
  <2>1. /\ i - Len(s) \in 1..Len(t) /\ j - Len(s) \in 1..Len(t)
        /\ i - Len(s) < j - Len(s)
        /\ u[i] = t[i - Len(s)] /\ u[j] = t[j - Len(s)]
    BY <1>1, <1>3, <1>5
  <2> QED BY <2>1, <1>3 DEF Sorted
<1>6. CASE i <= Len(s) /\ j > Len(s)
  <2>1. i \in 1..Len(s) /\ j - Len(s) \in 1..Len(t) /\ u[i] = s[i] /\ u[j] = t[j - Len(s)]
    BY <1>1, <1>3, <1>6
  <2> QED BY <2>1, <1>2, <1>3 DEF Ahead
<1> QED BY <1>1, <1>4, <1>5, <1>6

\* A member that occurs once in o is not before itself, nor before one before it.
LEMMA BeforeIsStrict ==
  ASSUME NEW o, Once(o), NEW m, NEW n, Before(o, m, n)
  PROVE  m # n /\ ~ Before(o, n, m)
<1>1. PICK i \in 1..Len(o), j \in 1..Len(o) : i < j /\ o[i] = m /\ o[j] = n
  BY DEF Before
<1>2. m # n
  BY <1>1 DEF Once
<1>3. ASSUME NEW k \in 1..Len(o), NEW l \in 1..Len(o), k < l, o[k] = n, o[l] = m PROVE FALSE
  <2>1. k = j /\ l = i
    BY <1>1, <1>3 DEF Once
  <2> QED BY <2>1, <1>1, <1>3
<1> QED BY <1>2, <1>3 DEF Before

LEMMA AlternateFacts ==
  ASSUME NEW A, NEW s \in Seq(A), NEW t \in Seq(A), Once(s), Once(t),
         ToSet(s) \cap ToSet(t) = {},
         NEW n \in Nat, n <= Len(s), n <= Len(t)
  PROVE  /\ Alternate(s, t, n) \in Seq(A) /\ Once(Alternate(s, t, n))
         /\ ToSet(Alternate(s, t, n)) = {s[i] : i \in 1..n} \cup {t[i] : i \in 1..n}
         /\ \A o : Sorted(o, s) /\ ToSet(t) \subseteq Priority => Sorted(o, Alternate(s, t, n))
<1> DEFINE u == Alternate(s, t, n)
<1>1. /\ DOMAIN u = 1..(2 * n) /\ 2 * n \in Nat
      /\ \A i \in 1..(2 * n) : u[i] = IF i % 2 = 1 THEN s[(i + 1) \div 2] ELSE t[i \div 2]
  BY DEF Alternate
<1>2. ASSUME NEW i \in 1..(2 * n)
      PROVE  \/ \E k \in 1..n : i = 2 * k - 1 /\ u[i] = s[k]
             \/ \E k \in 1..n : i = 2 * k /\ u[i] = t[k]
  <2>1. CASE i % 2 = 1
    <3>1. (i + 1) \div 2 \in 1..n /\ i = 2 * ((i + 1) \div 2) - 1
      BY <2>1
    <3> QED BY <3>1, <2>1, <1>1
  <2>2. CASE i % 2 # 1
    <3>1. i \div 2 \in 1..n /\ i = 2 * (i \div 2)
      BY <2>2
    <3> QED BY <3>1, <2>2, <1>1
  <2> QED BY <2>1, <2>2
<1>3. ASSUME NEW k \in 1..n
      PROVE  /\ 2 * k - 1 \in 1..(2 * n) /\ u[2 * k - 1] = s[k]
             /\ 2 * k \in 1..(2 * n) /\ u[2 * k] = t[k]
  <2>1. /\ 2 * k - 1 \in 1..(2 * n) /\ (2 * k - 1) % 2 = 1 /\ ((2 * k - 1) + 1) \div 2 = k
        /\ 2 * k \in 1..(2 * n) /\ (2 * k) % 2 # 1 /\ (2 * k) \div 2 = k
    OBVIOUS
  <2> QED BY <2>1, <1>1
<1>4. \A k \in 1..n : k \in 1..Len(s) /\ k \in 1..Len(t) /\ s[k] \in ToSet(s) /\ t[k] \in ToSet(t)
  BY DEF ToSet
<1>5. u \in Seq(A) /\ Len(u) = 2 * n
  <2>1. \A i \in 1..(2 * n) : u[i] \in A
    BY <1>2, <1>4
  <2>2. u \in [1..(2 * n) -> A]
    BY <2>1, <1>1 DEF Alternate
  <2> QED BY <2>2, <1>1
<1> HIDE DEF u
<1>6. Once(u)
  <2>1. SUFFICES ASSUME NEW i \in 1..(2 * n), NEW j \in 1..(2 * n), u[i] = u[j] PROVE i = j
    BY <1>5 DEF Once
  <2>2. CASE \E k \in 1..n : i = 2 * k - 1 /\ u[i] = s[k]
    <3>1. PICK k \in 1..n : i = 2 * k - 1 /\ u[i] = s[k]
      BY <2>2
    <3>2. PICK l \in 1..n : j = 2 * l - 1 /\ u[j] = s[l]
      BY <3>1, <2>1, <1>2, <1>4
    <3>3. k = l
      BY <3>1, <3>2, <2>1, <1>4 DEF Once
    <3> QED BY <3>1, <3>2, <3>3
  <2>3. CASE \E k \in 1..n : i = 2 * k /\ u[i] = t[k]
    <3>1. PICK k \in 1..n : i = 2 * k /\ u[i] = t[k]
      BY <2>3
    <3>2. PICK l \in 1..n : j = 2 * l /\ u[j] = t[l]
      BY <3>1, <2>1, <1>2, <1>4
    <3>3. k = l
      BY <3>1, <3>2, <2>1, <1>4 DEF Once
    <3> QED BY <3>1, <3>2, <3>3
  <2> QED BY <2>2, <2>3, <1>2
<1>7. ToSet(u) = {s[i] : i \in 1..n} \cup {t[i] : i \in 1..n}
  <2>1. ToSet(u) = {u[i] : i \in 1..(2 * n)}
    BY <1>1 DEF ToSet
  <2>2. {u[i] : i \in 1..(2 * n)} \subseteq {s[i] : i \in 1..n} \cup {t[i] : i \in 1..n}
    BY <1>2
  <2>3. {s[i] : i \in 1..n} \cup {t[i] : i \in 1..n} \subseteq {u[i] : i \in 1..(2 * n)}
    BY <1>3
  <2> QED BY <2>1, <2>2, <2>3
<1>8. ASSUME NEW o, Sorted(o, s), ToSet(t) \subseteq Priority PROVE Sorted(o, u)
  <2>1. SUFFICES ASSUME NEW i \in 1..(2 * n), NEW j \in 1..(2 * n), i < j,
                        u[i] \notin Priority, u[j] \notin Priority
                 PROVE  Before(o, u[i], u[j])
    BY <1>5 DEF Sorted
  <2>2. PICK k \in 1..n : i = 2 * k - 1 /\ u[i] = s[k]
    BY <2>1, <1>2, <1>4, <1>8
  <2>3. PICK l \in 1..n : j = 2 * l - 1 /\ u[j] = s[l]
    BY <2>1, <1>2, <1>4, <1>8
  <2>4. k < l /\ k \in 1..Len(s) /\ l \in 1..Len(s)
    BY <2>1, <2>2, <2>3
  <2> QED BY <2>1, <2>2, <2>3, <2>4, <1>8 DEF Sorted
<1> QED BY <1>5, <1>6, <1>7, <1>8 DEF u

-----------------------------------------------------------------------------
(* takeBatch() *)

LEMMA OnlyFacts ==
  ASSUME NEW s \in Seq(Member), NEW S, Once(s)
  PROVE  /\ Only(s, S) \in Seq(Member) /\ Once(Only(s, S))
         /\ ToSet(Only(s, S)) = ToSet(s) \cap S
         /\ \A o : Sorted(o, s) => Sorted(o, Only(s, S))
  BY FilterFacts, FilterOnce, SortedFilter DEF Only

LEMMA WithoutFacts ==
  ASSUME NEW s \in Seq(Member), NEW S, Once(s)
  PROVE  /\ Without(s, S) \in Seq(Member) /\ Once(Without(s, S))
         /\ ToSet(Without(s, S)) = ToSet(s) \ S
         /\ \A o : Sorted(o, s) => Sorted(o, Without(s, S))
<1>1. ToSet(s) \subseteq Member
  BY DEF ToSet
<1>2. /\ Filter(s, Member \ S) \in Seq(Member) /\ Once(Filter(s, Member \ S))
      /\ ToSet(Filter(s, Member \ S)) = ToSet(s) \cap (Member \ S)
      /\ \A o : Sorted(o, s) => Sorted(o, Filter(s, Member \ S))
  BY FilterFacts, FilterOnce, SortedFilter
<1> QED BY <1>1, <1>2 DEF Without

LEMMA TakeFacts ==
  ASSUME NEW s \in Seq(Member), Once(s)
  PROVE  /\ Take(s, MaxBatchCount) \in Seq(Member) /\ Once(Take(s, MaxBatchCount))
         /\ Len(Take(s, MaxBatchCount)) <= MaxBatchCount
         /\ ToSet(Take(s, MaxBatchCount)) \subseteq ToSet(s)
         /\ \A o : Sorted(o, s) =>
              /\ Sorted(o, Take(s, MaxBatchCount))
              /\ Ahead(o, ToSet(Take(s, MaxBatchCount)), ToSet(s) \ ToSet(Take(s, MaxBatchCount)))
         /\ \A i \in 1..Len(s) : i <= MaxBatchCount => s[i] \in ToSet(Take(s, MaxBatchCount))
<1> DEFINE n == IF Len(s) < MaxBatchCount THEN Len(s) ELSE MaxBatchCount
           u == SubSeq(s, 1, n)
<1>0. MaxBatchCount \in Nat /\ Len(s) \in Nat
  BY GroupCommitAssumption
<1>1. n \in 0..Len(s) /\ n <= MaxBatchCount /\ \A i \in 1..Len(s) : i <= MaxBatchCount => i <= n
  BY <1>0
<1>2. Take(s, MaxBatchCount) = u
  BY DEF Take
<1> HIDE DEF n
<1>3. /\ u \in Seq(Member) /\ Len(u) = n /\ ToSet(u) = {s[i] : i \in 1..n} /\ Once(u)
  BY <1>1, FrontFacts
<1>4. \A i \in 1..n : i \in 1..Len(s) /\ u[i] = s[i]
  BY <1>1
<1>5. \A i \in 1..Len(s) : i \notin 1..n => i > n
  BY <1>1
<1> HIDE DEF u
<1>6. ToSet(s) = {s[i] : i \in 1..Len(s)}
  BY DEF ToSet
<1>7. ToSet(u) \subseteq ToSet(s)
  BY <1>3, <1>4, <1>6
<1>8. ASSUME NEW o, Sorted(o, s)
      PROVE  Sorted(o, u) /\ Ahead(o, ToSet(u), ToSet(s) \ ToSet(u))
  <2>1. Sorted(o, u)
    BY <1>3, <1>4, <1>8 DEF Sorted
  <2>2. ASSUME NEW x \in ToSet(u), NEW y \in ToSet(s) \ ToSet(u), x \notin Priority, y \notin Priority
        PROVE  Before(o, x, y)
    <3>1. PICK i \in 1..n : x = s[i]
      BY <1>3, <2>2
    <3>2. PICK j \in 1..Len(s) : y = s[j]
      BY <1>6, <2>2
    <3>3. j \notin 1..n
      BY <3>2, <2>2, <1>3
    <3>4. i < j /\ i \in 1..Len(s)
      BY <3>3, <1>1, <1>4, <1>5
    <3> QED BY <3>1, <3>2, <3>4, <2>2, <1>8 DEF Sorted
  <2> QED BY <2>1, <2>2 DEF Ahead
<1>9. ASSUME NEW i \in 1..Len(s), i <= MaxBatchCount PROVE s[i] \in ToSet(u)
  <2>1. i \in 1..n
    BY <1>1, <1>9
  <2> QED BY <2>1, <1>3
<1> QED BY <1>1, <1>2, <1>3, <1>7, <1>8, <1>9

\* The members that are not put off, in either order of the classes.
Merged(pri, nor, aged) ==
  LET both == IF Len(pri) < Len(nor) THEN Len(pri) ELSE Len(nor)
  IN IF aged /\ nor # <<>>
     THEN Alternate(nor, pri, both)
            \o SubSeq(nor, both + 1, Len(nor)) \o SubSeq(pri, both + 1, Len(pri))
     ELSE pri \o nor

LEMMA MergedFacts ==
  ASSUME NEW pri \in Seq(Member), NEW nor \in Seq(Member), Once(pri), Once(nor),
         ToSet(pri) \subseteq Priority, ToSet(pri) \cap ToSet(nor) = {}, NEW aged \in BOOLEAN
  PROVE  /\ Merged(pri, nor, aged) \in Seq(Member) /\ Once(Merged(pri, nor, aged))
         /\ ToSet(Merged(pri, nor, aged)) = ToSet(pri) \cup ToSet(nor)
         /\ \A o : Sorted(o, nor) => Sorted(o, Merged(pri, nor, aged))
<1> DEFINE both == IF Len(pri) < Len(nor) THEN Len(pri) ELSE Len(nor)
           u == Alternate(nor, pri, both)
           v == SubSeq(nor, both + 1, Len(nor))
           w == SubSeq(pri, both + 1, Len(pri))
           FirstNor == {nor[i] : i \in 1..both}
           FirstPri == {pri[i] : i \in 1..both}
<1>1. both \in Nat /\ both \in 0..Len(pri) /\ both \in 0..Len(nor) /\ both <= Len(nor) /\ both <= Len(pri)
  OBVIOUS
<1>2. Merged(pri, nor, aged) = IF aged /\ nor # <<>> THEN (u \o v) \o w ELSE pri \o nor
  BY DEF Merged
<1> HIDE DEF both
<1>3. /\ u \in Seq(Member) /\ Once(u) /\ ToSet(u) = FirstNor \cup FirstPri
      /\ \A o : Sorted(o, nor) => Sorted(o, u)
  <2>1. ToSet(nor) \cap ToSet(pri) = {} /\ both \in Nat /\ both <= Len(nor) /\ both <= Len(pri)
    BY <1>1
  <2>2. /\ u \in Seq(Member) /\ Once(u) /\ ToSet(u) = FirstNor \cup FirstPri
        /\ \A o : Sorted(o, nor) /\ ToSet(pri) \subseteq Priority => Sorted(o, u)
    BY <2>1, AlternateFacts
  <2> QED BY <2>2
<1>4. /\ v \in Seq(Member) /\ Len(v) = Len(nor) - both /\ \A i \in 1..(Len(nor) - both) : v[i] = nor[both + i]
      /\ ToSet(nor) = FirstNor \cup ToSet(v) /\ Once(v) /\ FirstNor \cap ToSet(v) = {}
  BY <1>1, SplitFacts
<1>5. /\ w \in Seq(Member) /\ ToSet(pri) = FirstPri \cup ToSet(w) /\ Once(w) /\ FirstPri \cap ToSet(w) = {}
  BY <1>1, SplitFacts
<1> HIDE DEF u, v, w, FirstNor, FirstPri
<1>6. u \o v \in Seq(Member) /\ Once(u \o v) /\ ToSet(u \o v) = FirstPri \cup ToSet(nor)
  <2>1. ToSet(u) \cap ToSet(v) = {}
    BY <1>3, <1>4, <1>5
  <2>2. u \o v \in Seq(Member) /\ Once(u \o v) /\ ToSet(u \o v) = ToSet(u) \cup ToSet(v)
    BY <2>1, <1>3, <1>4, ConcatFacts
  <2> QED BY <2>2, <1>3, <1>4
<1>7. (u \o v) \o w \in Seq(Member) /\ Once((u \o v) \o w) /\ ToSet((u \o v) \o w) = ToSet(pri) \cup ToSet(nor)
  <2>1. ToSet(u \o v) \cap ToSet(w) = {}
    BY <1>5, <1>6
  <2>2. /\ (u \o v) \o w \in Seq(Member) /\ Once((u \o v) \o w)
        /\ ToSet((u \o v) \o w) = ToSet(u \o v) \cup ToSet(w)
    BY <2>1, <1>5, <1>6, ConcatFacts
  <2> QED BY <2>2, <1>5, <1>6
<1>8. pri \o nor \in Seq(Member) /\ Once(pri \o nor) /\ ToSet(pri \o nor) = ToSet(pri) \cup ToSet(nor)
  BY ConcatFacts
<1>9. ASSUME NEW o, Sorted(o, nor) PROVE Sorted(o, (u \o v) \o w) /\ Sorted(o, pri \o nor)
  <2>1. \A s \in Seq(Member) : ToSet(s) \subseteq Priority => Sorted(o, s)
    BY DEF Sorted, ToSet
  <2>2. \A S, T : S \subseteq Priority \/ T \subseteq Priority => Ahead(o, S, T)
    BY DEF Ahead
  <2>3. Sorted(o, v)
    <3>1. \A i \in 1..Len(v) : both + i \in 1..Len(nor) /\ v[i] = nor[both + i]
      BY <1>1, <1>4
    <3>2. \A i, j \in 1..Len(v) : i < j => both + i < both + j
      BY <1>1
    <3> QED BY <3>1, <3>2, <1>9 DEF Sorted
  <2>4. Ahead(o, ToSet(u), ToSet(v))
    <3>1. SUFFICES ASSUME NEW x \in ToSet(u), NEW y \in ToSet(v), x \notin Priority, y \notin Priority
                   PROVE  Before(o, x, y)
      BY DEF Ahead
    <3>2. x \in FirstNor
      BY <3>1, <1>3, <1>5
    <3>3. PICK i \in 1..both : x = nor[i]
      BY <3>2 DEF FirstNor
    <3>4. PICK j \in 1..Len(v) : y = v[j]
      BY <3>1 DEF ToSet
    <3>5. i \in 1..Len(nor) /\ both + j \in 1..Len(nor) /\ i < both + j /\ y = nor[both + j]
      BY <3>4, <1>1, <1>4
    <3> QED BY <3>1, <3>3, <3>5, <1>9 DEF Sorted
  <2>5. Sorted(o, u \o v)
    BY <2>3, <2>4, <1>3, <1>4, <1>9, SortedConcat
  <2>6. Sorted(o, (u \o v) \o w)
    <3>1. Sorted(o, w) /\ Ahead(o, ToSet(u \o v), ToSet(w))
      BY <2>1, <2>2, <1>5
    <3> QED BY <3>1, <2>5, <1>5, <1>6, SortedConcat
  <2>7. Sorted(o, pri \o nor)
    <3>1. Sorted(o, pri) /\ Ahead(o, ToSet(pri), ToSet(nor))
      BY <2>1, <2>2
    <3> QED BY <3>1, <1>9, SortedConcat
  <2> QED BY <2>6, <2>7
<1> QED BY <1>2, <1>7, <1>8, <1>9

\* A batch holds each of its members once, and of two normal members of the buffer it
\* never takes the later one only; members put off that fit a batch are all taken.
LEMMA BatchFacts ==
  ASSUME NEW b \in Seq(Member), Once(b), NEW p \in SUBSET Member, NEW only \in BOOLEAN,
         NEW aged \in BOOLEAN, NEW o, Sorted(o, b), Ahead(o, p \cap ToSet(b), ToSet(b) \ p)
  PROVE  LET batch == BatchOf(b, p, only, aged)
         IN /\ batch \in Seq(Member) /\ Once(batch) /\ Len(batch) <= MaxBatchCount
            /\ ToSet(batch) \subseteq ToSet(b) /\ (only => ToSet(batch) \subseteq Priority)
            /\ Sorted(o, batch) /\ Ahead(o, ToSet(batch), ToSet(b) \ ToSet(batch))
            /\ Cardinality(p \cap ToSet(b)) <= MaxBatchCount /\ (only => p \cap ToSet(b) \subseteq Priority)
                 => p \cap ToSet(b) \subseteq ToSet(batch)
<1> DEFINE eligible == IF only THEN Priority ELSE Member
           first == Only(b, eligible \cap p)
           pri == Only(b, (eligible \cap Priority) \ p)
           nor == Only(b, (eligible \ Priority) \ p)
           rest == Merged(pri, nor, aged)
           whole == first \o rest
           batch == Take(whole, MaxBatchCount)
<1>1. BatchOf(b, p, only, aged) = batch
  BY DEF BatchOf, Merged
<1>2. ToSet(b) \subseteq Member /\ Priority \subseteq Member
  BY GroupCommitAssumption DEF ToSet
<1>3. first \in Seq(Member) /\ Once(first) /\ ToSet(first) = ToSet(b) \cap (eligible \cap p) /\ Sorted(o, first)
  BY OnlyFacts, Zenon
<1>4. pri \in Seq(Member) /\ Once(pri) /\ ToSet(pri) = ToSet(b) \cap ((eligible \cap Priority) \ p)
  BY OnlyFacts, Zenon
<1>5. nor \in Seq(Member) /\ Once(nor) /\ ToSet(nor) = ToSet(b) \cap ((eligible \ Priority) \ p) /\ Sorted(o, nor)
  BY OnlyFacts, Zenon
<1> HIDE DEF first, pri, nor
<1>6. rest \in Seq(Member) /\ Once(rest) /\ ToSet(rest) = ToSet(pri) \cup ToSet(nor) /\ Sorted(o, rest)
  <2>1. ToSet(pri) \subseteq Priority /\ ToSet(pri) \cap ToSet(nor) = {}
    BY <1>4, <1>5
  <2> QED BY <2>1, <1>4, <1>5, MergedFacts
<1> HIDE DEF rest
<1>7. ToSet(rest) = (ToSet(b) \cap eligible) \ p
  BY <1>2, <1>4, <1>5, <1>6
<1>8. whole \in Seq(Member) /\ Once(whole) /\ ToSet(whole) = ToSet(b) \cap eligible /\ Sorted(o, whole)
  <2>1. ToSet(first) \cap ToSet(rest) = {} /\ ToSet(first) \cup ToSet(rest) = ToSet(b) \cap eligible
    BY <1>3, <1>7
  <2>2. Ahead(o, ToSet(first), ToSet(rest))
    BY <1>3, <1>7 DEF Ahead
  <2>3. whole \in Seq(Member) /\ Once(whole) /\ ToSet(whole) = ToSet(first) \cup ToSet(rest)
    BY <2>1, <1>3, <1>6, ConcatFacts
  <2>4. Sorted(o, whole)
    BY <2>2, <1>3, <1>6, SortedConcat
  <2> QED BY <2>1, <2>3, <2>4
<1>9. \A i \in 1..Len(first) : i \in 1..Len(whole) /\ whole[i] = first[i]
  BY <1>3, <1>6
<1> HIDE DEF whole
<1>10. /\ batch \in Seq(Member) /\ Once(batch) /\ Len(batch) <= MaxBatchCount
       /\ ToSet(batch) \subseteq ToSet(whole)
       /\ Sorted(o, batch) /\ Ahead(o, ToSet(batch), ToSet(whole) \ ToSet(batch))
       /\ \A i \in 1..Len(whole) : i <= MaxBatchCount => whole[i] \in ToSet(batch)
  BY <1>8, TakeFacts
<1> HIDE DEF batch
<1>11. ToSet(batch) \subseteq ToSet(b) /\ (only => ToSet(batch) \subseteq Priority)
  BY <1>8, <1>10
<1>12. Ahead(o, ToSet(batch), ToSet(b) \ ToSet(batch))
  <2>1. CASE only
    BY <2>1, <1>11 DEF Ahead
  <2>2. CASE ~ only
    <3>1. ToSet(whole) = ToSet(b)
      BY <2>2, <1>2, <1>8
    <3> QED BY <3>1, <1>10
  <2> QED BY <2>1, <2>2
<1>13. ASSUME Cardinality(p \cap ToSet(b)) <= MaxBatchCount, only => p \cap ToSet(b) \subseteq Priority
       PROVE  p \cap ToSet(b) \subseteq ToSet(batch)
  <2>1. ToSet(first) = p \cap ToSet(b)
    BY <1>2, <1>3, <1>13
  <2>2. Len(first) <= MaxBatchCount
    BY <2>1, <1>3, <1>13, OnceLength
  <2>3. \A i \in 1..Len(first) : first[i] \in ToSet(batch)
    <3>1. \A i \in 1..Len(first) : i <= MaxBatchCount
      BY <2>2, <1>3, GroupCommitAssumption
    <3> QED BY <3>1, <1>9, <1>10
  <2>4. ToSet(first) \subseteq ToSet(batch)
    BY <2>3 DEF ToSet
  <2> QED BY <2>1, <2>4
<1> QED BY <1>1, <1>10, <1>11, <1>12, <1>13

-----------------------------------------------------------------------------
(* schedule() *)

Sane(b, L, p, R, oc, h, o) ==
  /\ Placed(b, L, oc, h)
  /\ Batches(L, R)
  /\ Truths(b, L, R, oc, receipts, applied, zombie, rogue)
  /\ Ordered(b, L, R, p, oc, o, applied, zombie)

LEMMA UnansweredBatch ==
  ASSUME NEW s \in Seq(Member)
  PROVE  Unrun(s, None) = ToSet(s) /\ Clean(s, None) = ToSet(s) /\ Enders(s, None) = {}
  BY DEF Unrun, Clean, Enders, Fresh, ToSet

\* One batch leaves the buffer for a free lane; b2 is what it leaves behind.
LEMMA SendKeeps ==
  ASSUME NEW b, NEW L, NEW p \in SUBSET Member, NEW R, NEW oc, NEW h, NEW o,
         Sane(b, L, p, R, oc, h, o),
         NEW l \in Lane, L[l] = <<>>, NEW aged \in BOOLEAN,
         NEW only \in BOOLEAN, only <=> l = "priority",
         NEW batch, batch = BatchOf(b, p, only, aged),
         NEW b2 \in Seq(Member), Once(b2), ToSet(b2) = ToSet(b) \ ToSet(batch),
         Sorted(o, b) => Sorted(o, b2),
         NEW L2, L2 = [L EXCEPT ![l] = batch],
         NEW p2 \in SUBSET p, p \cap ToSet(b2) \subseteq p2
  PROVE  Sane(b2, L2, p2, R, oc, h, o)
<1>0. /\ Placed(b, L, oc, h) /\ Batches(L, R)
      /\ Truths(b, L, R, oc, receipts, applied, zombie, rogue)
      /\ Ordered(b, L, R, p, oc, o, applied, zombie)
  BY DEF Sane
<1>1. /\ batch \in Seq(Member) /\ Once(batch) /\ Len(batch) <= MaxBatchCount
      /\ ToSet(batch) \subseteq ToSet(b) /\ (l = "priority" => ToSet(batch) \subseteq Priority)
      /\ Sorted(o, batch) /\ Ahead(o, ToSet(batch), ToSet(b) \ ToSet(batch))
  <2>1. /\ b \in Seq(Member) /\ Once(b) /\ Sorted(o, b)
        /\ Ahead(o, p \cap ToSet(b), ToSet(b) \ p)
    BY <1>0 DEF Placed, Ordered
  <2> QED BY <2>1, BatchFacts
<1>2. /\ L2 \in [Lane -> Seq(Member)] /\ L2[l] = batch
      /\ \A k \in Lane : k # l => L2[k] = L[k]
  BY <1>0, <1>1 DEF Placed
<1>3. ToSet(L[l]) = {} /\ Len(L[l]) = 0 /\ R[l] = None
  BY <1>0 DEF Batches, ToSet
<1>4. Lane = {"main", "priority"}
  BY DEF Lane
<1>5. Placed(b2, L2, oc, h)
  <2>1. \A k \in Lane : Once(L2[k]) /\ ToSet(L2[k]) \cap ToSet(b2) = {}
    <3>1. ASSUME NEW k \in Lane PROVE Once(L2[k]) /\ ToSet(L2[k]) \cap ToSet(b2) = {}
      <4>1. CASE k = l
        BY <4>1, <1>1, <1>2
      <4>2. CASE k # l
        BY <4>2, <1>0, <1>2 DEF Placed
      <4> QED BY <4>1, <4>2
    <3> QED BY <3>1
  <2>2. ToSet(L2["main"]) \cap ToSet(L2["priority"]) = {}
    BY <1>0, <1>1, <1>2, <1>4 DEF Placed
  <2>3. ToSet(b) \cup ToSet(L["main"]) \cup ToSet(L["priority"])
          = ToSet(b2) \cup ToSet(L2["main"]) \cup ToSet(L2["priority"])
    BY <1>1, <1>2, <1>3, <1>4
  <2>4. Len(b) = Len(b2) + Len(batch)
    <3>1. /\ IsFiniteSet(ToSet(b2)) /\ Cardinality(ToSet(b2)) = Len(b2)
          /\ IsFiniteSet(ToSet(batch)) /\ Cardinality(ToSet(batch)) = Len(batch)
          /\ Cardinality(ToSet(b)) = Len(b)
      BY <1>0, <1>1, OnceLength DEF Placed
    <3>2. ToSet(b) = ToSet(b2) \cup ToSet(batch) /\ ToSet(b2) \cap ToSet(batch) = {}
      BY <1>1
    <3>3. Cardinality(ToSet(b2) \cup ToSet(batch)) = Len(b2) + Len(batch) - Cardinality({})
      BY <3>1, <3>2, FS_Union
    <3>4. Cardinality(ToSet(b)) = Cardinality(ToSet(b2) \cup ToSet(batch))
      BY <3>2
    <3>5. Cardinality({}) = 0
      BY FS_EmptySet
    <3>6. Len(b2) \in Nat /\ Len(batch) \in Nat
      BY <1>1
    <3>7. Len(b) = Len(b2) + Len(batch) - Cardinality({})
      BY <3>1, <3>3, <3>4
    <3> QED BY <3>5, <3>6, <3>7
  <2>5. h = Len(b2) + Len(L2["main"]) + Len(L2["priority"])
    <3>1. h = Len(b) + Len(L["main"]) + Len(L["priority"])
      BY <1>0 DEF Placed
    <3>2. Len(L["main"]) \in Nat /\ Len(L["priority"]) \in Nat /\ Len(b2) \in Nat /\ Len(batch) \in Nat
      BY <1>0, <1>1, <1>4 DEF Placed
    <3>3. CASE l = "main"
      <4>1. Len(L["main"]) = 0 /\ L2["main"] = batch /\ L2["priority"] = L["priority"]
        BY <3>3, <1>2, <1>3, <1>4
      <4>2. h = (Len(b2) + Len(batch)) + 0 + Len(L["priority"])
        BY <4>1, <3>1, <2>4
      <4>3. h = Len(b2) + Len(batch) + Len(L["priority"])
        BY <4>2, <3>2
      <4> QED BY <4>1, <4>3
    <3>4. CASE l = "priority"
      <4>1. Len(L["priority"]) = 0 /\ L2["priority"] = batch /\ L2["main"] = L["main"]
        BY <3>4, <1>2, <1>3, <1>4
      <4>2. h = (Len(b2) + Len(batch)) + Len(L["main"]) + 0
        BY <4>1, <3>1, <2>4
      <4>3. h = Len(b2) + Len(L["main"]) + Len(batch)
        <5> DEFINE i == Len(b2)
                   j == Len(batch)
                   k == Len(L["main"])
        <5>1. i \in Nat /\ j \in Nat /\ k \in Nat /\ h = (i + j) + k + 0
          BY <4>2, <3>2
        <5> HIDE DEF i, j, k
        <5>2. h = i + k + j
          BY <5>1
        <5> QED BY <5>2 DEF i, j, k
      <4> QED BY <4>1, <4>3
    <3> QED BY <3>3, <3>4, <1>4
  <2> QED BY <2>1, <2>2, <2>3, <2>5, <1>0, <1>2 DEF Placed
<1>6. Batches(L2, R)
  <2>1. ASSUME NEW k \in Lane
        PROVE  /\ Len(L2[k]) <= MaxBatchCount
               /\ L2[k] = <<>> => R[k] = None
               /\ R[k] # None => Len(R[k].kinds) = Len(L2[k])
               /\ R[k] # None /\ R[k].batch = "committed" =>
                    \A i \in 1..Len(L2[k]) : R[k].kinds[i] \in {"ok", "failed", "deferred"}
    <3>1. CASE k = l
      BY <3>1, <1>1, <1>2, <1>3
    <3>2. CASE k # l
      BY <3>2, <1>0, <1>2 DEF Batches
    <3> QED BY <3>1, <3>2
  <2>2. ToSet(L2["priority"]) \subseteq Priority
    BY <1>0, <1>1, <1>2, <1>4 DEF Batches
  <2> QED BY <2>1, <2>2, <1>0 DEF Batches
<1>7. /\ Unrun(batch, R[l]) = ToSet(batch) /\ Clean(batch, R[l]) = ToSet(batch) /\ Enders(batch, R[l]) = {}
      /\ Unrun(L[l], R[l]) = {} /\ Clean(L[l], R[l]) = {} /\ Enders(L[l], R[l]) = {}
  BY <1>0, <1>1, <1>3, UnansweredBatch DEF Placed
<1>8. Truths(b2, L2, R, oc, receipts, applied, zombie, rogue)
  <2>1. Untouched(b2, L2, R, oc) \subseteq Untouched(b, L, R, oc)
    BY <1>1, <1>2, <1>4, <1>7 DEF Untouched
  <2>2. ASSUME NEW k \in Lane, NEW i \in 1..Len(L2[k]),
               R[k] # None, R[k].batch = "committed", R[k].kinds[i] = "ok"
        PROVE  receipts[Command[L2[k][i]]] = Digest[L2[k][i]]
    <3>1. k # l
      BY <2>2, <1>3
    <3> QED BY <3>1, <2>2, <1>0, <1>2 DEF Truths
  <2>3. \A k \in Lane : Enders(L2[k], R[k]) = Enders(L[k], R[k])
    BY <1>2, <1>7
  <2> QED BY <2>1, <2>2, <2>3, <1>0 DEF Truths
<1>9. Ordered(b2, L2, R, p2, oc, o, applied, zombie)
  <2>1. Sorted(o, L2["main"]) /\ Sorted(o, b2)
    BY <1>0, <1>1, <1>2, <1>4 DEF Ordered
  <2>2. Unrun(L2["main"], R["main"]) \cup ToSet(b2) \subseteq Unrun(L["main"], R["main"]) \cup ToSet(b)
    BY <1>1, <1>2, <1>4, <1>7
  <2>3. Ahead(o, ToSet(applied) \cup ToSet(zombie), Unrun(L2["main"], R["main"]) \cup ToSet(b2))
    <3>1. Ahead(o, ToSet(applied) \cup ToSet(zombie), Unrun(L["main"], R["main"]) \cup ToSet(b))
      BY <1>0 DEF Ordered
    <3> QED BY <3>1, <2>2 DEF Ahead
  <2>4. Ahead(o, ToSet(L2["main"]), ToSet(b2))
    <3>1. Ahead(o, ToSet(L["main"]), ToSet(b))
      BY <1>0 DEF Ordered
    <3>2. CASE l = "main"
      BY <3>2, <1>1, <1>2
    <3>3. CASE l # "main"
      BY <3>1, <3>3, <1>2, <1>4 DEF Ahead
    <3> QED BY <3>2, <3>3
  <2>5. Ahead(o, p2 \cap ToSet(b2), ToSet(b2) \ p2)
    <3>1. Ahead(o, p \cap ToSet(b), ToSet(b) \ p)
      BY <1>0 DEF Ordered
    <3>2. p2 \cap ToSet(b2) \subseteq p \cap ToSet(b) /\ ToSet(b2) \ p2 \subseteq ToSet(b) \ p
      OBVIOUS
    <3> QED BY <3>1, <3>2 DEF Ahead
  <2> QED BY <2>1, <2>3, <2>4, <2>5, <1>0 DEF Ordered
<1> QED BY <1>5, <1>6, <1>8, <1>9 DEF Sane

\* The buffer may be written anew as long as it holds the same members in this order.
LEMMA RewriteKeeps ==
  ASSUME NEW b, NEW L, NEW p \in SUBSET Member, NEW R, NEW oc, NEW h, NEW o,
         Sane(b, L, p, R, oc, h, o),
         NEW b2 \in Seq(Member), Once(b2), ToSet(b2) = ToSet(b), Sorted(o, b) => Sorted(o, b2)
  PROVE  Sane(b2, L, p, R, oc, h, o)
<1>0. /\ Placed(b, L, oc, h) /\ Batches(L, R)
      /\ Truths(b, L, R, oc, receipts, applied, zombie, rogue)
      /\ Ordered(b, L, R, p, oc, o, applied, zombie)
  BY DEF Sane
<1>1. Len(b2) = Len(b)
  <2>1. b \in Seq(Member) /\ Once(b)
    BY <1>0 DEF Placed
  <2>2. Cardinality(ToSet(b)) = Len(b) /\ Cardinality(ToSet(b2)) = Len(b2)
    BY <2>1, OnceLength
  <2> QED BY <2>2
<1>2. Placed(b2, L, oc, h)
  BY <1>0, <1>1 DEF Placed
<1>3. Truths(b2, L, R, oc, receipts, applied, zombie, rogue)
  <2>1. Untouched(b2, L, R, oc) = Untouched(b, L, R, oc)
    BY DEF Untouched
  <2> QED BY <2>1, <1>0, Zenon DEF Truths
<1>4. Ordered(b2, L, R, p, oc, o, applied, zombie)
  BY <1>0, Zenon DEF Ordered
<1> QED BY <1>0, <1>2, <1>3, <1>4 DEF Sane

\* Whatever schedule() was called with: it keeps what its caller kept, and leaves
\* nobody put off behind while a lane that could take it is free.
LEMMA ScheduleKeeps ==
  ASSUME NEW st, NEW b, NEW L, NEW p, NEW R, NEW oc, NEW h, NEW o,
         NEW force \in BOOLEAN, NEW w \in BOOLEAN, NEW elapsed, NEW aged \in BOOLEAN,
         Sane(b, L, p, R, oc, h, o), Fit(b, L, p, w),
         Schedule(st, b, L, p, force, w, elapsed, aged)
  PROVE  /\ Sane(buffer', lanes', deferred', R, oc, h, o)
         /\ PutOff(buffer', lanes', deferred', backoff')
         /\ backoff' \in BOOLEAN /\ forceFlush' \in BOOLEAN
<1> DEFINE sends == b # <<>> /\ ~ w /\ L["main"] = <<>> /\ Due(st, b, p, force, elapsed)
           main == IF sends THEN BatchOf(b, p, FALSE, aged) ELSE L["main"]
           left == IF sends THEN Without(b, ToSet(main)) ELSE b
           second == /\ b # <<>> /\ ~ w
                     /\ main # <<>> /\ L["priority"] = <<>> /\ Has(left, Priority)
           pri == IF second THEN BatchOf(left, p, TRUE, aged) ELSE L["priority"]
           gone == UNION {ToSet(lanes'[l]) : l \in {k \in Lane : L[k] = <<>>}}
<1>1. /\ lanes' = [L EXCEPT !["main"] = main, !["priority"] = pri]
      /\ buffer' = Without(b, gone) /\ deferred' = p \ gone /\ backoff' = w
      /\ forceFlush' = (force /\ ~ (b = <<>> /\ \A l \in Lane : lanes'[l] = <<>>))
  BY DEF Schedule
<1>2. Lane = {"main", "priority"}
  BY DEF Lane
<1>3. /\ Placed(b, L, oc, h) /\ Batches(L, R)
      /\ Ordered(b, L, R, p, oc, o, applied, zombie)
      /\ p \in SUBSET Member
  BY DEF Sane, Fit
<1>4. b \in Seq(Member) /\ Once(b) /\ L \in [Lane -> Seq(Member)] /\ Sorted(o, b)
  BY <1>3 DEF Placed, Ordered
<1>5. lanes'["main"] = main /\ lanes'["priority"] = pri
  BY <1>1, <1>2, <1>4
<1>6. gone = (IF L["main"] = <<>> THEN ToSet(main) ELSE {})
               \cup (IF L["priority"] = <<>> THEN ToSet(pri) ELSE {})
  BY <1>2, <1>5
<1>7. ToSet(<<>>) = {}
  BY DEF ToSet
<1>8. /\ buffer' \in Seq(Member) /\ Once(buffer') /\ ToSet(buffer') = ToSet(b) \ gone
      /\ (Sorted(o, b) => Sorted(o, buffer'))
  BY <1>1, <1>4, WithoutFacts
<1>9. CASE ~ sends /\ ~ second
  <2>1. main = L["main"] /\ pri = L["priority"]
    BY <1>9
  <2>2. lanes' = L
    BY <2>1, <1>1, <1>2, <1>4
  <2>3. gone = {}
    BY <2>1, <1>6, <1>7
  <2>4. Sane(buffer', L, p, R, oc, h, o)
    BY <2>3, <1>3, <1>8, RewriteKeeps
  <2>5. deferred' = p /\ p \cap ToSet(buffer') = p \cap ToSet(b)
    BY <2>3, <1>1, <1>8
  <2>6. p \cap ToSet(b) # {} => w
    <3>1. SUFFICES ASSUME p \cap ToSet(b) # {}, ~ w PROVE FALSE
      OBVIOUS
    <3>2. b # <<>> /\ Has(b, p)
      BY <3>1, <1>7 DEF Has
    <3>3. CASE L["main"] = <<>>
      BY <3>1, <3>2, <3>3, <1>9 DEF Due
    <3>4. CASE L["main"] # <<>>
      <4>1. L["priority"] = <<>> /\ p \cap ToSet(b) \subseteq Priority
        BY <3>1, <3>4 DEF Fit
      <4>2. left = b /\ Has(b, Priority)
        BY <3>1, <4>1, <1>9 DEF Has
      <4> QED BY <3>1, <3>2, <3>4, <4>1, <4>2, <2>1, <1>9
    <3> QED BY <3>3, <3>4
  <2> HIDE DEF sends, main, left, second, pri, gone
  <2>7. PutOff(buffer', L, p, w)
    BY <2>5, <2>6 DEF PutOff, Fit
  <2> QED BY <2>2, <2>4, <2>5, <2>7, <1>1
\* The batch that leaves first takes everyone put off, unless only the priority lane is free.
<1>10. ASSUME ~ w, p \cap ToSet(b) \cap gone = p \cap ToSet(b)
       PROVE  PutOff(buffer', lanes', deferred', backoff')
  <2>1. deferred' \cap ToSet(buffer') = {}
    BY <1>1, <1>8, <1>10
  <2>2. Cardinality({}) = 0 /\ MaxBatchCount \in Nat
    BY FS_EmptySet, GroupCommitAssumption
  <2>3. 0 <= MaxBatchCount
    BY <2>2
  <2>4. deferred' \subseteq Member /\ backoff' = FALSE
    BY <1>1, <1>3, <1>10
  <2> QED BY <2>1, <2>2, <2>3, <2>4 DEF PutOff, Fit
<1>11. CASE sends
  <2>1. /\ ~ w /\ L["main"] = <<>> /\ "main" \in Lane /\ "priority" \in Lane
        /\ main = BatchOf(b, p, FALSE, aged) /\ left = Without(b, ToSet(main))
    BY <1>11, <1>2
  <2>2. /\ left \in Seq(Member) /\ Once(left) /\ ToSet(left) = ToSet(b) \ ToSet(main)
        /\ (Sorted(o, b) => Sorted(o, left))
    BY <2>1, <1>4, WithoutFacts
  <2>3. p \cap ToSet(b) \subseteq ToSet(main)
    <3>1. /\ Ahead(o, p \cap ToSet(b), ToSet(b) \ p) /\ FALSE \in BOOLEAN
          /\ Cardinality(p \cap ToSet(b)) <= MaxBatchCount
      BY <1>3 DEF Ordered, Fit
    <3> QED BY <3>1, <2>1, <1>3, <1>4, BatchFacts
  <2>4. ToSet(main) \subseteq gone
    BY <2>1, <1>6
  <2>5. PutOff(buffer', lanes', deferred', backoff')
    BY <2>1, <2>3, <2>4, <1>10
  <2> DEFINE L2 == [L EXCEPT !["main"] = main]
  <2>6. ASSUME NEW b2 \in Seq(Member), Once(b2), ToSet(b2) = ToSet(b) \ ToSet(main),
               Sorted(o, b) => Sorted(o, b2),
               NEW p2 \in SUBSET p, p \cap ToSet(b2) \subseteq p2
        PROVE  Sane(b2, L2, p2, R, oc, h, o)
    <3>1. FALSE \in BOOLEAN /\ (FALSE <=> "main" = "priority")
      OBVIOUS
    <3> HIDE DEF main, sends, left, second, pri, gone
    <3> QED BY <3>1, <2>1, <2>6, <1>3, SendKeeps
  <2>7. CASE ~ second
    <3>1. pri = L["priority"]
      BY <2>7
    <3>2. gone = ToSet(main)
      BY <3>1, <2>1, <1>6, <1>7
    <3>3. lanes' = L2
      BY <3>1, <1>1, <1>2, <1>4
    <3>4. Sane(buffer', L2, deferred', R, oc, h, o)
      BY <3>2, <2>6, <1>1, <1>8
    <3> QED BY <3>3, <3>4, <2>5, <1>1
  <2>8. CASE second
    <3>1. L["priority"] = <<>> /\ pri = BatchOf(left, p, TRUE, aged)
      BY <2>8
    <3>2. gone = ToSet(main) \cup ToSet(pri)
      BY <3>1, <2>1, <1>6
    <3>3. Sane(left, L2, p, R, oc, h, o)
      BY <2>2, <2>6
    <3>4. /\ L2["priority"] = <<>> /\ lanes' = [L2 EXCEPT !["priority"] = pri]
          /\ TRUE \in BOOLEAN /\ (TRUE <=> "priority" = "priority")
      BY <3>1, <1>1, <1>2, <1>4
    <3>5. ToSet(buffer') = ToSet(left) \ ToSet(pri) /\ (Sorted(o, left) => Sorted(o, buffer'))
      BY <3>2, <2>2, <1>4, <1>8
    <3>6. deferred' \in SUBSET p /\ p \cap ToSet(buffer') \subseteq deferred'
      BY <1>1, <1>8
    <3>7. Sane(buffer', lanes', deferred', R, oc, h, o)
      <4> HIDE DEF main, sends, left, second, pri, gone, L2
      <4>1. /\ p \in SUBSET Member /\ "priority" \in Lane /\ L2["priority"] = <<>>
            /\ TRUE \in BOOLEAN /\ (TRUE <=> "priority" = "priority")
            /\ pri = BatchOf(left, p, TRUE, aged)
            /\ buffer' \in Seq(Member) /\ Once(buffer') /\ ToSet(buffer') = ToSet(left) \ ToSet(pri)
            /\ (Sorted(o, left) => Sorted(o, buffer'))
            /\ lanes' = [L2 EXCEPT !["priority"] = pri]
        BY <3>1, <3>4, <3>5, <2>1, <1>3, <1>8
      <4> QED BY <4>1, <3>3, <3>6, SendKeeps
    <3> QED BY <3>7, <2>5, <1>1
  <2> QED BY <2>7, <2>8
<1>12. CASE ~ sends /\ second
  <2>1. /\ ~ w /\ main = L["main"] /\ main # <<>> /\ left = b /\ L["priority"] = <<>> /\ "priority" \in Lane
        /\ pri = BatchOf(b, p, TRUE, aged) /\ TRUE \in BOOLEAN /\ (TRUE <=> "priority" = "priority")
    BY <1>12, <1>2
  <2>2. gone = ToSet(pri)
    BY <2>1, <1>6
  <2>3. lanes' = [L EXCEPT !["priority"] = pri]
    BY <2>1, <1>1, <1>2, <1>4
  <2>4. ToSet(buffer') = ToSet(b) \ ToSet(pri) /\ deferred' \in SUBSET p /\ p \cap ToSet(buffer') \subseteq deferred'
    BY <2>2, <1>1, <1>8
  <2> HIDE DEF main, sends, left, second, pri, gone
  <2>5. Sane(buffer', lanes', deferred', R, oc, h, o)
    BY <2>1, <2>3, <2>4, <1>3, <1>8, SendKeeps
  <2>6. p \cap ToSet(b) \subseteq ToSet(pri)
    <3>1. p \cap ToSet(b) \subseteq Priority
      BY <2>1 DEF Fit
    <3>2. /\ Ahead(o, p \cap ToSet(b), ToSet(b) \ p) /\ TRUE \in BOOLEAN
          /\ Cardinality(p \cap ToSet(b)) <= MaxBatchCount
      BY <1>3 DEF Ordered, Fit
    <3>3. pri = BatchOf(b, p, TRUE, aged)
      BY <2>1
    <3> QED BY <3>1, <3>2, <3>3, <1>3, <1>4, BatchFacts
  <2>7. PutOff(buffer', lanes', deferred', backoff')
    BY <2>1, <2>2, <2>6, <1>10
  <2> QED BY <2>5, <2>7, <1>1
<1> QED BY <1>9, <1>11, <1>12

LEMMA ElapsedFacts ==
  ASSUME NEW s
  PROVE  (\A t \in Elapsed(s) : t[2] \in BOOLEAN) /\ (\A aged \in Aged(s) : aged \in BOOLEAN)
<1>1. ASSUME NEW t \in Elapsed(s) PROVE t[2] \in BOOLEAN
  <2>1. t = <<FALSE, FALSE>> \/ t = <<TRUE, FALSE>> \/ t = <<TRUE, TRUE>>
    BY DEF Elapsed
  <2>2. \A u, v : <<u, v>>[2] = v
    OBVIOUS
  <2>3. t[2] = TRUE \/ t[2] = FALSE
    BY <2>1, <2>2, Zenon
  <2> QED BY <2>3
<1> QED BY <1>1 DEF Aged

\* What a handler that ends with schedule() has to show of the moment before it.
LEMMA ScheduleEnds ==
  ASSUME NEW st, NEW b, NEW L, NEW p, NEW force \in BOOLEAN, NEW w \in BOOLEAN,
         NEW elapsed, NEW aged \in BOOLEAN,
         Rest, Effects(applied, zombie),
         state' \in {"open", "closing", "closed"},
         attempts' \in [Member -> 0..(MaxFlushAttempts - 1)], stuck' \subseteq Commands,
         Sane(b, L, p, reply', outcome', heldCount', order'), Fit(b, L, p, w),
         Schedule(st, b, L, p, force, w, elapsed, aged),
         UNCHANGED <<zombie, receipts, applied, rogue>>
  PROVE  GroupInv'
<1> DEFINE R == reply'
           oc == outcome'
           h == heldCount'
           o == order'
<1>1. Sane(b, L, p, R, oc, h, o)
  OBVIOUS
<1> HIDE DEF R, oc, h, o
<1>2. /\ Sane(buffer', lanes', deferred', R, oc, h, o)
      /\ PutOff(buffer', lanes', deferred', backoff')
      /\ backoff' \in BOOLEAN /\ forceFlush' \in BOOLEAN
  BY <1>1, ScheduleKeeps
<1>3. Rest'
  BY <1>2 DEF Rest
<1>4. /\ Placed(buffer', lanes', oc, h) /\ Batches(lanes', R)
      /\ Truths(buffer', lanes', R, oc, receipts, applied, zombie, rogue)
      /\ Ordered(buffer', lanes', R, deferred', oc, o, applied, zombie)
  BY <1>2 DEF Sane
<1>5. receipts' = receipts /\ applied' = applied /\ zombie' = zombie /\ rogue' = rogue
  OBVIOUS
<1> QED BY <1>2, <1>3, <1>4, <1>5, Zenon DEF GroupInv, R, oc, h, o

LEMMA InvParts ==
  ASSUME GroupInv
  PROVE  /\ Rest /\ Effects(applied, zombie)
         /\ Sane(buffer, lanes, deferred, reply, outcome, heldCount, order)
         /\ Placed(buffer, lanes, outcome, heldCount)
         /\ Batches(lanes, reply)
         /\ PutOff(buffer, lanes, deferred, backoff)
         /\ Truths(buffer, lanes, reply, outcome, receipts, applied, zombie, rogue)
         /\ Ordered(buffer, lanes, reply, deferred, outcome, order, applied, zombie)
  BY DEF GroupInv, Sane

\* Nobody has to be let go for a pause to end.
LEMMA PauseEnds ==
  ASSUME NEW b, NEW L, NEW p, NEW w, PutOff(b, L, p, w)
  PROVE  Fit(b, L, p, w) /\ Fit(b, L, p, FALSE)
  BY DEF PutOff, Fit

\* Handlers that only change what schedule() reads: timers, flush() and close().
LEMMA JustSchedules ==
  ASSUME GroupInv, NEW st, NEW force \in BOOLEAN, NEW w \in {backoff, FALSE}, NEW elapsed,
         NEW aged \in BOOLEAN, state' \in {"open", "closing", "closed"},
         Schedule(st, buffer, lanes, deferred, force, w, elapsed, aged),
         UNCHANGED <<attempts, heldCount, outcome, stuck, store, order>>
  PROVE  GroupInv'
<1>1. /\ Rest /\ Effects(applied, zombie)
      /\ Sane(buffer, lanes, deferred, reply, outcome, heldCount, order)
      /\ PutOff(buffer, lanes, deferred, backoff)
  BY InvParts
<1>2. Fit(buffer, lanes, deferred, w) /\ w \in BOOLEAN
  BY <1>1, PauseEnds DEF Rest
<1>3. /\ reply' = reply /\ outcome' = outcome /\ heldCount' = heldCount /\ order' = order
      /\ attempts' = attempts /\ stuck' = stuck
      /\ UNCHANGED <<zombie, receipts, applied, rogue>>
  BY DEF store
<1>4. Sane(buffer, lanes, deferred, reply', outcome', heldCount', order')
  BY <1>1, <1>3, Zenon
<1>5. attempts' \in [Member -> 0..(MaxFlushAttempts - 1)] /\ stuck' \subseteq Commands
  BY <1>1, <1>3 DEF Rest
<1> QED BY <1>1, <1>2, <1>3, <1>4, <1>5, ScheduleEnds

LEMMA TimersKeep ==
  ASSUME GroupInv, NEW aged \in Aged(buffer), NEW t \in Elapsed(buffer),
         Flush(aged) \/ WindowTimer(aged) \/ RetryTimer(t) \/ Close(aged)
  PROVE  GroupInv'
<1>1. aged \in BOOLEAN /\ t[2] \in BOOLEAN
  BY ElapsedFacts
<1>2. state \in {"open", "closing", "closed"} /\ forceFlush \in BOOLEAN /\ backoff \in BOOLEAN
  BY DEF GroupInv, Rest
<1>3. CASE Flush(aged)
  BY <1>1, <1>2, <1>3, JustSchedules DEF Flush
<1>4. CASE WindowTimer(aged)
  BY <1>1, <1>2, <1>4, JustSchedules DEF WindowTimer
<1>5. CASE RetryTimer(t)
  BY <1>1, <1>2, <1>5, JustSchedules DEF RetryTimer
<1>6. CASE Close(aged)
  BY <1>1, <1>2, <1>6, JustSchedules DEF Close
<1> QED BY <1>3, <1>4, <1>5, <1>6

-----------------------------------------------------------------------------
(* submit() and the end of close() *)

LEMMA SubmitKeeps ==
  ASSUME GroupInv, NEW m \in Member, NEW t \in Elapsed(Append(buffer, m)), Submit(m, t)
  PROVE  GroupInv'
<1> DEFINE b == Append(buffer, m)
<1>0. /\ Rest /\ Effects(applied, zombie)
      /\ Placed(buffer, lanes, outcome, heldCount)
      /\ Batches(lanes, reply)
      /\ PutOff(buffer, lanes, deferred, backoff)
      /\ Truths(buffer, lanes, reply, outcome, receipts, applied, zombie, rogue)
      /\ Ordered(buffer, lanes, reply, deferred, outcome, order, applied, zombie)
  BY InvParts
<1>1. /\ outcome[m] = "new" /\ heldCount' = heldCount + 1
      /\ outcome' = [outcome EXCEPT ![m] = "held"]
      /\ order' = IF m \in Priority THEN order ELSE Append(order, m)
      /\ Schedule(state, b, lanes, deferred, forceFlush, backoff, t[1], t[2])
      /\ UNCHANGED <<state, attempts, stuck, reply, zombie, receipts, applied, rogue>>
  BY DEF Submit, IsPriority, store
<1>2. /\ buffer \in Seq(Member) /\ Once(buffer) /\ lanes \in [Lane -> Seq(Member)]
      /\ outcome \in [Member -> Outcomes]
      /\ {x \in Member : outcome[x] = "held"}
           = ToSet(buffer) \cup ToSet(lanes["main"]) \cup ToSet(lanes["priority"])
      /\ heldCount = Len(buffer) + Len(lanes["main"]) + Len(lanes["priority"])
      /\ \A l \in Lane : Once(lanes[l]) /\ ToSet(lanes[l]) \cap ToSet(buffer) = {}
      /\ ToSet(lanes["main"]) \cap ToSet(lanes["priority"]) = {}
  BY <1>0 DEF Placed
<1>3. Lane = {"main", "priority"}
  BY DEF Lane
<1>4. m \notin ToSet(buffer) \cup ToSet(lanes["main"]) \cup ToSet(lanes["priority"])
  <2>1. m \notin {x \in Member : outcome[x] = "held"}
    BY <1>1
  <2> QED BY <2>1, <1>2
<1>5. /\ b \in Seq(Member) /\ Len(b) = Len(buffer) + 1 /\ ToSet(b) = ToSet(buffer) \cup {m} /\ Once(b)
  BY <1>2, <1>4, AppendFacts
<1>6. /\ outcome' \in [Member -> Outcomes] /\ outcome'[m] = "held"
      /\ \A x \in Member : x # m => outcome'[x] = outcome[x]
  BY <1>1, <1>2 DEF Outcomes
<1> HIDE DEF b
<1>7. Placed(b, lanes, outcome', heldCount')
  <2>1. {x \in Member : outcome'[x] = "held"}
          = ToSet(b) \cup ToSet(lanes["main"]) \cup ToSet(lanes["priority"])
    BY <1>2, <1>5, <1>6
  <2>2. \A l \in Lane : Once(lanes[l]) /\ ToSet(lanes[l]) \cap ToSet(b) = {}
    BY <1>2, <1>3, <1>4, <1>5
  <2>3. heldCount' = Len(b) + Len(lanes["main"]) + Len(lanes["priority"])
    <3>1. Len(buffer) \in Nat /\ Len(lanes["main"]) \in Nat /\ Len(lanes["priority"]) \in Nat
      BY <1>2, <1>3
    <3> DEFINE i == Len(buffer)
               j == Len(lanes["main"])
               k == Len(lanes["priority"])
    <3>2. i \in Nat /\ j \in Nat /\ k \in Nat /\ heldCount' = (i + j + k) + 1 /\ Len(b) = i + 1
      BY <3>1, <1>1, <1>2, <1>5
    <3> HIDE DEF i, j, k
    <3>3. heldCount' = Len(b) + j + k
      BY <3>2
    <3> QED BY <3>3 DEF j, k
  <2> QED BY <2>1, <2>2, <2>3, <1>2, <1>5, <1>6 DEF Placed
<1>8. m \notin ToSet(applied) \cup ToSet(zombie)
  <2>1. m \in Untouched(buffer, lanes, reply, outcome)
    BY <1>1 DEF Untouched
  <2> QED BY <2>1, <1>0 DEF Truths
<1>9. Truths(b, lanes, reply, outcome', receipts, applied, zombie, rogue)
  <2>1. Untouched(b, lanes, reply, outcome') \subseteq Untouched(buffer, lanes, reply, outcome)
    <3>1. {x \in Member : outcome'[x] \in {"new", "not_committed"}}
            \subseteq {x \in Member : outcome[x] \in {"new", "not_committed"}}
      BY <1>6
    <3>2. m \in {x \in Member : outcome[x] \in {"new", "not_committed"}}
      BY <1>1
    <3> QED BY <3>1, <3>2, <1>5 DEF Untouched
  <2>2. \A x \in Member : outcome'[x] = "ok" => outcome[x] = "ok"
    BY <1>6
  <2>3. \A x \in ToSet(applied) : outcome[x] = "not_reconcilable" => outcome'[x] = "not_reconcilable"
    <3>1. ToSet(applied) \subseteq Member
      BY <1>0 DEF Rest, ToSet
    <3> QED BY <3>1, <1>6, <1>8
  <2> QED BY <2>1, <2>2, <2>3, <1>0 DEF Truths
<1>10. /\ order \in Seq(Member) /\ Once(order)
       /\ ToSet(order) = {x \in Member : x \notin Priority /\ outcome[x] # "new"}
  BY <1>0 DEF Ordered
<1>11. /\ order' \in Seq(Member) /\ Once(order')
       /\ ToSet(order') = {x \in Member : x \notin Priority /\ outcome'[x] # "new"}
  <2>1. {x \in Member : x \notin Priority /\ outcome'[x] # "new"}
          = ToSet(order) \cup (IF m \in Priority THEN {} ELSE {m})
    BY <1>6, <1>10
  <2>2. m \notin ToSet(order)
    BY <1>1, <1>10
  <2>3. CASE m \in Priority
    BY <2>1, <2>3, <1>1, <1>10
  <2>4. CASE m \notin Priority
    <3>1. order' = Append(order, m)
      BY <2>4, <1>1
    <3>2. order' \in Seq(Member) /\ Once(order') /\ ToSet(order') = ToSet(order) \cup {m}
      BY <3>1, <2>2, <1>10, AppendFacts
    <3> QED BY <3>2, <2>1, <2>4
  <2> QED BY <2>3, <2>4
<1>12. \A x, y : Before(order, x, y) => Before(order', x, y)
  <2>1. ASSUME NEW x, NEW y, Before(order, x, y) PROVE Before(order', x, y)
    <3>1. PICK i \in 1..Len(order), j \in 1..Len(order) : i < j /\ order[i] = x /\ order[j] = y
      BY <2>1 DEF Before
    <3>2. \A k \in 1..Len(order) : k \in 1..Len(order') /\ order'[k] = order[k]
      BY <1>1, <1>10
    <3> QED BY <3>1, <3>2 DEF Before
  <2> QED BY <2>1
<1>13. ASSUME NEW x \in Member, outcome[x] # "new", x \notin Priority, m \notin Priority
       PROVE  Before(order', x, m)
  <2>1. order' = Append(order, m) /\ x \in ToSet(order)
    BY <1>1, <1>10, <1>13
  <2>2. PICK i \in 1..Len(order) : order[i] = x
    BY <2>1 DEF ToSet
  <2>3. /\ i \in 1..Len(order') /\ order'[i] = x
        /\ Len(order) + 1 \in 1..Len(order') /\ order'[Len(order) + 1] = m /\ i < Len(order) + 1
    BY <2>1, <2>2, <1>10
  <2> QED BY <2>3 DEF Before
<1>14. /\ \A x \in ToSet(applied) \cup ToSet(zombie) : x \in Member /\ outcome[x] # "new"
       /\ \A x \in ToSet(lanes["main"]) \cup ToSet(buffer) : x \in Member /\ outcome[x] # "new"
  <2>1. ToSet(applied) \cup ToSet(zombie) \subseteq Member
    BY <1>0 DEF Rest, ToSet
  <2>2. \A x \in Member : outcome[x] = "new" => x \in Untouched(buffer, lanes, reply, outcome)
    BY DEF Untouched
  <2>3. \A x \in ToSet(applied) \cup ToSet(zombie) : outcome[x] # "new"
    BY <2>1, <2>2, <1>0 DEF Truths
  <2>4. ToSet(lanes["main"]) \cup ToSet(buffer) \subseteq {x \in Member : outcome[x] = "held"}
    BY <1>2
  <2> QED BY <2>1, <2>3, <2>4
<1>15. \A S, T : /\ Ahead(order, S, T) => Ahead(order', S, T)
                 /\ Ahead(order, S, T) /\ (\A x \in S : x \in Member /\ outcome[x] # "new")
                      => Ahead(order', S, T \cup {m})
  BY <1>12, <1>13 DEF Ahead
<1>16. \A s : Sorted(order, s) => Sorted(order', s)
  BY <1>12 DEF Sorted
<1>17. Ordered(b, lanes, reply, deferred, outcome', order', applied, zombie)
  <2>1. Sorted(order', applied) /\ Sorted(order', zombie) /\ Sorted(order', lanes["main"])
    BY <1>0, <1>16 DEF Ordered
  <2>2. Sorted(order', b)
    <3>1. \A i \in 1..Len(buffer) : b[i] = buffer[i] /\ buffer[i] \in ToSet(buffer)
      BY <1>2 DEF b, ToSet
    <3>2. b[Len(buffer) + 1] = m
      BY <1>2 DEF b
    <3>3. Sorted(order', buffer)
      BY <1>0, <1>16 DEF Ordered
    <3>4. SUFFICES ASSUME NEW i \in 1..Len(b), NEW j \in 1..Len(b), i < j,
                          b[i] \notin Priority, b[j] \notin Priority
                   PROVE  Before(order', b[i], b[j])
      BY DEF Sorted
    <3>5. i \in 1..Len(buffer) /\ (j \in 1..Len(buffer) \/ j = Len(buffer) + 1)
      <4>1. Len(buffer) \in Nat /\ Len(b) = Len(buffer) + 1 /\ i \in 1..Len(b) /\ j \in 1..Len(b) /\ i < j
        BY <3>4, <1>2, <1>5
      <4> DEFINE n == Len(buffer)
      <4>2. n \in Nat /\ i \in 1..(n + 1) /\ j \in 1..(n + 1) /\ i < j
        BY <4>1
      <4> HIDE DEF n
      <4>3. i \in 1..n /\ (j \in 1..n \/ j = n + 1)
        BY <4>2
      <4> QED BY <4>3 DEF n
    <3>6. CASE j \in 1..Len(buffer)
      BY <3>1, <3>3, <3>4, <3>5, <3>6 DEF Sorted
    <3>7. CASE j = Len(buffer) + 1
      BY <3>1, <3>2, <3>4, <3>5, <3>7, <1>13, <1>14
    <3> QED BY <3>5, <3>6, <3>7
  <2>3. Ahead(order', ToSet(applied), ToSet(zombie))
    BY <1>0, <1>15 DEF Ordered
  <2>4. Ahead(order', ToSet(applied) \cup ToSet(zombie), Unrun(lanes["main"], reply["main"]) \cup ToSet(b))
    <3>1. Ahead(order, ToSet(applied) \cup ToSet(zombie), Unrun(lanes["main"], reply["main"]) \cup ToSet(buffer))
      BY <1>0 DEF Ordered
    <3>2. Unrun(lanes["main"], reply["main"]) \cup ToSet(b)
            = (Unrun(lanes["main"], reply["main"]) \cup ToSet(buffer)) \cup {m}
      BY <1>5
    <3> QED BY <3>1, <3>2, <1>14, <1>15
  <2>5. Ahead(order', ToSet(lanes["main"]), ToSet(b))
    <3>1. Ahead(order, ToSet(lanes["main"]), ToSet(buffer))
      BY <1>0 DEF Ordered
    <3> QED BY <3>1, <1>5, <1>14, <1>15
  <2>6. m \notin deferred /\ \A x \in deferred : outcome'[x] # "new"
    <3>1. \A x \in deferred : x \in Member /\ outcome[x] # "new"
      BY <1>0 DEF Ordered, PutOff, Fit
    <3> QED BY <3>1, <1>1, <1>6
  <2>7. Ahead(order', deferred \cap ToSet(b), ToSet(b) \ deferred)
    <3>1. Ahead(order, deferred \cap ToSet(buffer), ToSet(buffer) \ deferred)
      BY <1>0 DEF Ordered
    <3>2. deferred \cap ToSet(b) = deferred \cap ToSet(buffer) /\ ToSet(b) \ deferred = (ToSet(buffer) \ deferred) \cup {m}
      BY <2>6, <1>5
    <3> QED BY <3>1, <3>2, <1>14, <1>15
  <2> QED BY <2>1, <2>2, <2>3, <2>4, <2>5, <2>6, <2>7, <1>11 DEF Ordered
<1>18. Fit(b, lanes, deferred, backoff)
  <2>1. deferred \cap ToSet(b) = deferred \cap ToSet(buffer)
    BY <1>0, <1>1, <1>5 DEF Ordered
  <2> QED BY <2>1, <1>0, Zenon DEF PutOff, Fit
<1>19. Sane(b, lanes, deferred, reply', outcome', heldCount', order')
  <2>1. reply' = reply
    BY <1>1
  <2> QED BY <2>1, <1>0, <1>7, <1>9, <1>17, Zenon DEF Sane
<1>20. t[2] \in BOOLEAN /\ forceFlush \in BOOLEAN /\ backoff \in BOOLEAN
  BY <1>0, ElapsedFacts DEF Rest, b
<1>21. /\ state' \in {"open", "closing", "closed"} /\ attempts' \in [Member -> 0..(MaxFlushAttempts - 1)]
       /\ stuck' \subseteq Commands
  BY <1>0, <1>1 DEF Rest
<1>22. Schedule(state, b, lanes, deferred, forceFlush, backoff, t[1], t[2])
  BY <1>1
<1>23. UNCHANGED <<zombie, receipts, applied, rogue>> /\ Rest /\ Effects(applied, zombie)
  BY <1>0, <1>1
<1> QED BY <1>18, <1>19, <1>20, <1>21, <1>22, <1>23, ScheduleEnds

LEMMA CloseEndsKeeps ==
  ASSUME GroupInv, CloseEnds
  PROVE  GroupInv'
<1>0. /\ Rest /\ Effects(applied, zombie)
      /\ Placed(buffer, lanes, outcome, heldCount)
      /\ Batches(lanes, reply)
      /\ PutOff(buffer, lanes, deferred, backoff)
      /\ Truths(buffer, lanes, reply, outcome, receipts, applied, zombie, rogue)
      /\ Ordered(buffer, lanes, reply, deferred, outcome, order, applied, zombie)
  BY InvParts
<1>1. /\ state' = "closed" /\ buffer' = <<>> /\ heldCount' = heldCount - Len(buffer)
      /\ outcome' = [m \in Member |-> IF m \in ToSet(buffer) THEN "not_committed" ELSE outcome[m]]
      /\ lanes' = lanes /\ deferred' = deferred /\ backoff' = backoff /\ reply' = reply
      /\ order' = order
      /\ UNCHANGED <<attempts, forceFlush, stuck, zombie, receipts, applied, rogue>>
  BY DEF CloseEnds, store
<1>2. ToSet(buffer') = {} /\ Once(buffer') /\ buffer' \in Seq(Member) /\ Len(buffer') = 0
  BY <1>1 DEF ToSet, Once
<1>3. /\ buffer \in Seq(Member) /\ lanes \in [Lane -> Seq(Member)] /\ outcome \in [Member -> Outcomes]
      /\ {x \in Member : outcome[x] = "held"}
           = ToSet(buffer) \cup ToSet(lanes["main"]) \cup ToSet(lanes["priority"])
      /\ heldCount = Len(buffer) + Len(lanes["main"]) + Len(lanes["priority"])
      /\ \A l \in Lane : Once(lanes[l]) /\ ToSet(lanes[l]) \cap ToSet(buffer) = {}
      /\ ToSet(lanes["main"]) \cap ToSet(lanes["priority"]) = {}
      /\ "main" \in Lane /\ "priority" \in Lane
  BY <1>0 DEF Placed, Lane
<1>4. Rest'
  <2>1. state' \in {"open", "closing", "closed"}
    BY <1>1
  <2>2. /\ backoff' \in BOOLEAN /\ forceFlush' \in BOOLEAN
        /\ attempts' \in [Member -> 0..(MaxFlushAttempts - 1)]
        /\ stuck' \subseteq Commands /\ rogue' \subseteq Commands
        /\ zombie' \in Seq(Member) /\ applied' \in Seq(Member)
        /\ receipts' \in [Commands -> {Digest[m] : m \in Member} \cup {None}]
    BY <1>0, <1>1 DEF Rest
  <2> QED BY <2>1, <2>2 DEF Rest
<1>5. outcome' \in [Member -> Outcomes]
  BY <1>1, <1>3 DEF Outcomes
<1>6. Placed(buffer', lanes', outcome', heldCount')
  <2>1. {x \in Member : outcome'[x] = "held"}
          = ToSet(buffer') \cup ToSet(lanes["main"]) \cup ToSet(lanes["priority"])
    BY <1>1, <1>2, <1>3
  <2>2. heldCount' = Len(buffer') + Len(lanes["main"]) + Len(lanes["priority"])
    <3> DEFINE i == Len(buffer)
               j == Len(lanes["main"])
               k == Len(lanes["priority"])
    <3>1. i \in Nat /\ j \in Nat /\ k \in Nat /\ heldCount' = (i + j + k) - i /\ Len(buffer') = 0
      BY <1>1, <1>2, <1>3
    <3> HIDE DEF i, j, k
    <3>2. heldCount' = Len(buffer') + j + k
      BY <3>1
    <3> QED BY <3>2 DEF j, k
  <2> QED BY <2>1, <2>2, <1>1, <1>2, <1>3, <1>5 DEF Placed
<1>7. PutOff(buffer', lanes', deferred', backoff')
  <2>1. Cardinality({}) = 0 /\ 0 <= MaxBatchCount
    BY FS_EmptySet, GroupCommitAssumption
  <2> QED BY <2>1, <1>0, <1>1, <1>2 DEF PutOff, Fit
<1>8. Truths(buffer', lanes', reply', outcome', receipts', applied', zombie', rogue')
  <2>1. Untouched(buffer', lanes', reply', outcome') \subseteq Untouched(buffer, lanes, reply, outcome)
    <3>1. {x \in Member : outcome'[x] \in {"new", "not_committed"}}
            \subseteq {x \in Member : outcome[x] \in {"new", "not_committed"}} \cup ToSet(buffer)
      BY <1>1
    <3> QED BY <3>1, <1>1, <1>2 DEF Untouched
  <2>2. \A x \in Member : outcome'[x] = "ok" => outcome[x] = "ok"
    BY <1>1
  <2>3. \A x \in ToSet(applied) : outcome[x] = "not_reconcilable" => outcome'[x] = "not_reconcilable"
    <3>1. ToSet(applied) \subseteq Member
      BY <1>0 DEF Rest, ToSet
    <3>2. \A x \in ToSet(buffer) : outcome[x] = "held"
      BY <1>3
    <3> QED BY <3>1, <3>2, <1>1
  <2>4. /\ UNCHANGED <<receipts, applied, zombie, rogue>> /\ lanes' = lanes /\ reply' = reply
    BY <1>1
  <2> QED BY <2>1, <2>2, <2>3, <2>4, <1>0 DEF Truths
<1>9. Ordered(buffer', lanes', reply', deferred', outcome', order', applied', zombie')
  <2>1. \A x \in Member : outcome'[x] = "new" <=> outcome[x] = "new"
    <3>1. \A x \in ToSet(buffer) : outcome[x] = "held"
      BY <1>3
    <3> QED BY <3>1, <1>1
  <2>2. {m \in Member : m \notin Priority /\ outcome'[m] # "new"} = {m \in Member : m \notin Priority /\ outcome[m] # "new"}
    BY <2>1
  <2>3. \A m \in deferred : outcome'[m] # "new"
    BY <2>1, <1>0 DEF Ordered, PutOff, Fit
  <2>4. Sorted(order, buffer')
    BY <1>2 DEF Sorted
  <2>5. /\ Ahead(order, ToSet(applied) \cup ToSet(zombie), Unrun(lanes["main"], reply["main"]) \cup ToSet(buffer'))
        /\ Ahead(order, ToSet(lanes["main"]), ToSet(buffer'))
        /\ Ahead(order, deferred \cap ToSet(buffer'), ToSet(buffer') \ deferred)
    BY <1>0, <1>2 DEF Ordered, Ahead
  <2>6. /\ lanes' = lanes /\ deferred' = deferred /\ reply' = reply /\ order' = order
        /\ applied' = applied /\ zombie' = zombie
    BY <1>1
  <2> QED BY <2>2, <2>3, <2>4, <2>5, <2>6, <1>0 DEF Ordered
<1>10. Batches(lanes', reply') /\ Effects(applied', zombie')
  BY <1>0, <1>1
<1> QED BY <1>4, <1>6, <1>7, <1>8, <1>9, <1>10 DEF GroupInv

-----------------------------------------------------------------------------
(* The worker: what a transaction leaves behind *)

\* The receipt of a member that replays or writes one carries its digest.
LEMMA StoredFacts ==
  ASSUME NEW batch \in Seq(Member), NEW ok \in SUBSET (1..Len(batch)),
         receipts \in [Commands -> {Digest[m] : m \in Member} \cup {None}]
  PROVE  /\ \A c \in Commands :
              /\ Stored(batch, ok, c) \in {Digest[m] : m \in Member} \cup {None}
              /\ receipts[c] # None => Stored(batch, ok, c) = receipts[c]
         /\ (\A i \in ok : ~ Conflicts(batch, ok, i)) =>
              \A i \in ok : Stored(batch, ok, Command[batch[i]]) = Digest[batch[i]]
<1> DEFINE IsFirst(j, S, c) == /\ Command[batch[j]] = c
                               /\ \A k \in S : Command[batch[k]] = c => j <= k
<1>0. \A i \in ok : i \in Nat /\ batch[i] \in Member /\ Command[batch[i]] \in Commands
  BY DEF Commands
<1>1. ASSUME NEW S \in SUBSET ok, NEW c, \E j \in S : Command[batch[j]] = c
      PROVE  \E j \in S : IsFirst(j, S, c)
  <2> DEFINE T == {j \in S : Command[batch[j]] = c}
  <2>1. T \in SUBSET Nat /\ T # {}
    BY <1>0, <1>1
  <2>2. PICK j \in T : \A k \in T : j <= k
    BY <2>1, LeastNumber
  <2> QED BY <2>2
<1>2. ASSUME NEW S \in SUBSET ok, NEW c, receipts[c] = None, NEW j \in S, IsFirst(j, S, c)
      PROVE  Stored(batch, S, c) = Digest[batch[j]]
  <2>1. \A k \in S : IsFirst(k, S, c) => k = j
    BY <1>0, <1>2
  <2>2. (CHOOSE k \in S : IsFirst(k, S, c)) = j
    BY <2>1, <1>2
  <2> QED BY <2>2, <1>2 DEF Stored
<1>3. ASSUME NEW S, NEW c, receipts[c] # None
      PROVE  Stored(batch, S, c) = receipts[c]
  BY <1>3 DEF Stored
<1>4. ASSUME NEW c \in Commands PROVE Stored(batch, ok, c) \in {Digest[m] : m \in Member} \cup {None}
  <2>1. CASE receipts[c] # None
    BY <2>1, <1>3
  <2>2. CASE receipts[c] = None /\ \E j \in ok : Command[batch[j]] = c
    <3>1. PICK j \in ok : IsFirst(j, ok, c)
      BY <2>2, <1>1
    <3>2. Stored(batch, ok, c) = Digest[batch[j]]
      BY <3>1, <2>2, <1>2
    <3> QED BY <3>2, <1>0
  <2>3. CASE receipts[c] = None /\ \A j \in ok : Command[batch[j]] # c
    BY <2>3 DEF Stored
  <2> QED BY <2>1, <2>2, <2>3
<1>5. ASSUME \A i \in ok : ~ Conflicts(batch, ok, i), NEW i \in ok
      PROVE  Stored(batch, ok, Command[batch[i]]) = Digest[batch[i]]
  <2> DEFINE c == Command[batch[i]]
             S == {j \in ok : j < i}
  <2>0. FindsReceipt(batch, ok, i) => Stored(batch, S, c) = Digest[batch[i]]
    BY <1>5 DEF Conflicts
  <2>1. CASE receipts[c] # None
    <3>1. FindsReceipt(batch, ok, i)
      BY <2>1 DEF FindsReceipt
    <3> QED BY <3>1, <2>0, <2>1, <1>3
  <2>2. CASE receipts[c] = None
    <3>1. PICK j \in ok : IsFirst(j, ok, c)
      BY <1>1
    <3>2. j <= i /\ Command[batch[j]] = c
      BY <3>1
    <3>3. Stored(batch, ok, c) = Digest[batch[j]]
      BY <3>1, <2>2, <1>2
    <3>4. CASE j = i
      BY <3>3, <3>4
    <3>5. CASE j # i
      <4>1. j \in S
        BY <3>2, <3>5, <1>0
      <4>2. FindsReceipt(batch, ok, i)
        BY <4>1, <3>2 DEF FindsReceipt
      <4>3. IsFirst(j, S, c)
        BY <3>1
      <4>4. S \in SUBSET ok
        OBVIOUS
      <4> HIDE DEF S, IsFirst, c
      <4>5. Stored(batch, S, c) = Digest[batch[j]]
        BY <4>1, <4>3, <4>4, <2>2, <1>2
      <4> QED BY <4>2, <4>5, <2>0, <3>3 DEF c
    <3> QED BY <3>4, <3>5
  <2> QED BY <2>1, <2>2
<1> QED BY <1>3, <1>4, <1>5

\* A transaction that commits the members at ok, and the handler at ender (one at
\* most) that ended it: what it adds to the receipts and to the effects.
LEMMA DurableFacts ==
  ASSUME Rest, NEW batch \in Seq(Member), Once(batch), NEW ok \in SUBSET (1..Len(batch)),
         \A i \in ok : ~ Conflicts(batch, ok, i),
         NEW ender \in SUBSET (1..Len(batch)),
         NEW rg, rogue \cup {Command[batch[e]] : e \in ender} \subseteq rg,
         Once(applied), ToSet(applied) \cap ToSet(batch) = {},
         \A m \in ToSet(applied) : receipts[Command[m]] # None \/ Command[m] \in rogue,
         \A m, n \in ToSet(applied) : m # n /\ Command[m] = Command[n] => Command[m] \in rogue,
         Durable(batch, ok, ender)
  PROVE  /\ receipts' \in [Commands -> {Digest[m] : m \in Member} \cup {None}]
         /\ \A m \in Member : receipts[Command[m]] = Digest[m] => receipts'[Command[m]] = Digest[m]
         /\ \A i \in ok : receipts'[Command[batch[i]]] = Digest[batch[i]]
         /\ applied' \in Seq(Member) /\ Once(applied')
         /\ ToSet(applied') = ToSet(applied) \cup {batch[i] : i \in Runs(batch, ok) \cup ender}
         /\ \A o : Sorted(o, applied) /\ Sorted(o, batch) /\ Ahead(o, ToSet(applied), ToSet(batch))
                     => Sorted(o, applied')
         /\ \A m \in ToSet(applied') : receipts'[Command[m]] # None \/ Command[m] \in rg
         /\ \A m, n \in ToSet(applied') : m # n /\ Command[m] = Command[n] => Command[m] \in rg
<1> DEFINE ran == {batch[i] : i \in Runs(batch, ok) \cup ender}
<1>1. /\ receipts' = [c \in Commands |-> Stored(batch, ok, c)]
      /\ applied' = applied \o Only(batch, ran)
  BY DEF Durable
<1>2. receipts \in [Commands -> {Digest[m] : m \in Member} \cup {None}] /\ applied \in Seq(Member)
  BY DEF Rest
<1>3. /\ \A c \in Commands :
           /\ Stored(batch, ok, c) \in {Digest[m] : m \in Member} \cup {None}
           /\ receipts[c] # None => Stored(batch, ok, c) = receipts[c]
      /\ \A i \in ok : Stored(batch, ok, Command[batch[i]]) = Digest[batch[i]]
  BY <1>2, StoredFacts
<1>4. \A m \in Member : Command[m] \in Commands /\ Digest[m] # None
  BY GroupCommitAssumption DEF Commands
<1>5. receipts' \in [Commands -> {Digest[m] : m \in Member} \cup {None}]
  BY <1>1, <1>3
<1>6. \A c \in Commands : receipts[c] # None => receipts'[c] = receipts[c]
  BY <1>1, <1>3
<1>7. \A m \in Member : receipts[Command[m]] = Digest[m] => receipts'[Command[m]] = Digest[m]
  BY <1>4, <1>6
<1>8. \A i \in ok \cup ender : batch[i] \in Member /\ batch[i] \in ToSet(batch)
  BY DEF ToSet
<1>9. \A i \in ok : receipts'[Command[batch[i]]] = Digest[batch[i]]
  BY <1>1, <1>3, <1>4, <1>8
<1>10. Runs(batch, ok) \subseteq ok
  BY DEF Runs
<1>11. ran \subseteq ToSet(batch) /\ ToSet(applied) \subseteq Member
  BY <1>2, <1>8, <1>10 DEF ToSet
<1> HIDE DEF ran
<1>12. /\ Only(batch, ran) \in Seq(Member) /\ Once(Only(batch, ran)) /\ ToSet(Only(batch, ran)) = ran
       /\ \A o : Sorted(o, batch) => Sorted(o, Only(batch, ran))
  <2>1. ToSet(batch) \cap ran = ran
    BY <1>11
  <2> QED BY <2>1, OnlyFacts
<1>13. applied' \in Seq(Member) /\ Once(applied') /\ ToSet(applied') = ToSet(applied) \cup ran
  <2>1. ToSet(applied) \cap ToSet(Only(batch, ran)) = {}
    BY <1>11, <1>12
  <2> QED BY <2>1, <1>1, <1>2, <1>12, ConcatFacts
<1>14. ASSUME NEW o, Sorted(o, applied), Sorted(o, batch), Ahead(o, ToSet(applied), ToSet(batch))
       PROVE  Sorted(o, applied')
  <2>1. Ahead(o, ToSet(applied), ToSet(Only(batch, ran)))
    BY <1>11, <1>12, <1>14 DEF Ahead
  <2>2. Sorted(o, Only(batch, ran))
    BY <1>12, <1>14
  <2> QED BY <2>1, <2>2, <1>1, <1>2, <1>12, <1>14, SortedConcat
<1>15. ASSUME NEW m \in ran
       PROVE  \/ Command[m] \in rg
              \/ \E i \in Runs(batch, ok) : m = batch[i]
  <2>1. PICK i \in Runs(batch, ok) \cup ender : m = batch[i]
    BY DEF ran
  <2> QED BY <2>1
<1>16. ASSUME NEW m \in ToSet(applied')
       PROVE  receipts'[Command[m]] # None \/ Command[m] \in rg
  <2>1. CASE m \in ToSet(applied)
    BY <2>1, <1>4, <1>6, <1>11
  <2>2. CASE m \in ran
    <3>1. ASSUME NEW i \in Runs(batch, ok), m = batch[i] PROVE receipts'[Command[m]] # None
      <4>1. i \in ok /\ m \in Member
        BY <3>1, <1>8, <1>10
      <4>2. receipts'[Command[m]] = Digest[m]
        BY <4>1, <3>1, <1>9
      <4> QED BY <4>1, <4>2, <1>4
    <3> QED BY <3>1, <2>2, <1>15
  <2> QED BY <2>1, <2>2, <1>13
\* A handler runs only where there is no receipt yet.
<1>17. ASSUME NEW m \in ran, NEW n \in ToSet(applied), Command[m] = Command[n]
       PROVE  Command[m] \in rg
  <2>1. ASSUME NEW i \in Runs(batch, ok), m = batch[i] PROVE Command[m] \in rg
    <3>1. receipts[Command[n]] = None
      BY <2>1, <1>17 DEF Runs, FindsReceipt
    <3> QED BY <3>1, <1>17
  <2> QED BY <2>1, <1>15
<1>18. ASSUME NEW m \in ran, NEW n \in ran, m # n, Command[m] = Command[n]
       PROVE  Command[m] \in rg
  <2>1. SUFFICES ASSUME NEW i \in Runs(batch, ok), NEW j \in Runs(batch, ok), m = batch[i], n = batch[j]
                 PROVE  FALSE
    BY <1>15, <1>18
  <2>2. i \in ok /\ j \in ok /\ i # j
    BY <2>1, <1>10, <1>18
  <2>5. i \in 1..Len(batch) /\ j \in 1..Len(batch)
    BY <2>2
  <2>3. CASE i < j
    BY <2>1, <2>2, <2>3, <1>18 DEF Runs, FindsReceipt
  <2>4. CASE j < i
    BY <2>1, <2>2, <2>4, <1>18 DEF Runs, FindsReceipt
  <2> QED BY <2>2, <2>5, <2>3, <2>4
<1>19. ASSUME NEW m \in ToSet(applied'), NEW n \in ToSet(applied'), m # n, Command[m] = Command[n]
       PROVE  Command[m] \in rg
  BY <1>13, <1>17, <1>18, <1>19
<1> QED BY <1>5, <1>7, <1>9, <1>13, <1>14, <1>16, <1>19 DEF ran

-----------------------------------------------------------------------------
(* The worker: answers *)

\* An answer to a busy lane: who counts as untouched before and after it.
LEMMA AnswerFacts ==
  ASSUME GroupInv, NEW l \in Lane, Busy(l), NEW r \in Reply, Len(r.kinds) = Len(lanes[l]),
         r.batch = "committed" =>
           \A i \in 1..Len(lanes[l]) : r.kinds[i] \in {"ok", "failed", "deferred"},
         reply' = [reply EXCEPT ![l] = r], buffer' = buffer, lanes' = lanes, outcome' = outcome
  PROVE  /\ Batches(lanes', reply') /\ r # None
         /\ reply'[l] = r /\ \A k \in Lane : k # l => reply'[k] = reply[k]
         /\ Untouched(buffer', lanes', reply', outcome')
              \subseteq (Untouched(buffer, lanes, reply, outcome) \ ToSet(lanes[l])) \cup Clean(lanes[l], r)
         /\ ToSet(lanes[l]) \subseteq Untouched(buffer, lanes, reply, outcome)
         /\ Clean(lanes[l], r) \subseteq ToSet(lanes[l])
         /\ Unrun(lanes[l], reply[l]) = ToSet(lanes[l]) /\ Unrun(lanes[l], r) \subseteq ToSet(lanes[l])
         /\ \A m : (\E k \in Lane : m \in Enders(lanes[k], reply[k]))
                     => \E k \in Lane : m \in Enders(lanes'[k], reply'[k])
<1>0. Placed(buffer, lanes, outcome, heldCount) /\ Batches(lanes, reply)
  BY InvParts
<1>1. reply[l] = None /\ lanes[l] # <<>> /\ lanes[l] \in Seq(Member)
  BY <1>0 DEF Busy, Placed
<1>2. r # None
  BY GroupCommitAssumption
<1>3. reply' \in [Lane -> Reply \cup {None}] /\ reply'[l] = r /\ \A k \in Lane : k # l => reply'[k] = reply[k]
  BY <1>0 DEF Batches
<1>4. Batches(lanes', reply')
  <2>1. ASSUME NEW k \in Lane
        PROVE  /\ Len(lanes[k]) <= MaxBatchCount
               /\ lanes[k] = <<>> => reply'[k] = None
               /\ reply'[k] # None => Len(reply'[k].kinds) = Len(lanes[k])
               /\ reply'[k] # None /\ reply'[k].batch = "committed" =>
                    \A i \in 1..Len(lanes[k]) : reply'[k].kinds[i] \in {"ok", "failed", "deferred"}
    <3>1. CASE k = l
      BY <3>1, <1>0, <1>1, <1>3 DEF Batches
    <3>2. CASE k # l
      BY <3>2, <1>0, <1>3 DEF Batches
    <3> QED BY <3>1, <3>2
  <2> QED BY <2>1, <1>0, <1>3 DEF Batches
<1>5. Clean(lanes[l], reply[l]) = ToSet(lanes[l]) /\ Unrun(lanes[l], reply[l]) = ToSet(lanes[l]) /\ Enders(lanes[l], reply[l]) = {}
  BY <1>1, UnansweredBatch
<1>6. \A k \in Lane : Clean(lanes[k], reply[k]) \subseteq ToSet(lanes[k])
  <2>1. ASSUME NEW k \in Lane PROVE Clean(lanes[k], reply[k]) \subseteq ToSet(lanes[k])
    BY DEF Clean, ToSet
  <2> QED BY <2>1
<1>7. Clean(lanes[l], r) \subseteq ToSet(lanes[l]) /\ Unrun(lanes[l], r) \subseteq ToSet(lanes[l])
  BY DEF Clean, Unrun, ToSet
<1>8. Lane = {"main", "priority"}
  BY DEF Lane
<1>9. ToSet(lanes[l]) \subseteq Untouched(buffer, lanes, reply, outcome)
  BY <1>5, <1>8 DEF Untouched
<1>10. /\ ToSet(lanes[l]) \cap ToSet(buffer) = {}
       /\ ToSet(lanes[l]) \cap {m \in Member : outcome[m] \in {"new", "not_committed"}} = {}
       /\ \A k \in Lane : k # l => ToSet(lanes[l]) \cap ToSet(lanes[k]) = {}
  <2>1. ToSet(lanes[l]) \subseteq {m \in Member : outcome[m] = "held"}
    BY <1>0, <1>8 DEF Placed
  <2> QED BY <2>1, <1>0, <1>8 DEF Placed
<1>11. Untouched(buffer', lanes', reply', outcome')
         \subseteq (Untouched(buffer, lanes, reply, outcome) \ ToSet(lanes[l])) \cup Clean(lanes[l], r)
  <2> DEFINE idle == {m \in Member : outcome[m] \in {"new", "not_committed"}} \cup ToSet(buffer)
             Cl(k) == Clean(lanes[k], reply[k])
  <2>1. \A k \in Lane : k # l => ToSet(lanes[l]) \cap Cl(k) = {} /\ Clean(lanes[k], reply'[k]) = Cl(k)
    BY <1>3, <1>6, <1>10
  <2>2. idle \cap ToSet(lanes[l]) = {}
    BY <1>10
  <2>3. Untouched(buffer, lanes, reply, outcome) = idle \cup Cl("main") \cup Cl("priority")
    BY DEF Untouched
  <2>4. Untouched(buffer', lanes', reply', outcome')
          = idle \cup Clean(lanes["main"], reply'["main"]) \cup Clean(lanes["priority"], reply'["priority"])
    BY DEF Untouched
  <2> HIDE DEF idle, Cl
  <2>5. CASE l = "main"
    <3>1. /\ Clean(lanes["main"], reply'["main"]) = Clean(lanes[l], r)
          /\ Clean(lanes["priority"], reply'["priority"]) = Cl("priority")
          /\ Cl("priority") \cap ToSet(lanes[l]) = {}
      BY <2>1, <2>5, <1>3, <1>8
    <3> QED BY <3>1, <2>2, <2>3, <2>4
  <2>6. CASE l = "priority"
    <3>1. /\ Clean(lanes["priority"], reply'["priority"]) = Clean(lanes[l], r)
          /\ Clean(lanes["main"], reply'["main"]) = Cl("main")
          /\ Cl("main") \cap ToSet(lanes[l]) = {}
      BY <2>1, <2>6, <1>3, <1>8
    <3> QED BY <3>1, <2>2, <2>3, <2>4
  <2> QED BY <2>5, <2>6, <1>8
<1>12. ASSUME NEW m, NEW k \in Lane, m \in Enders(lanes[k], reply[k])
       PROVE  m \in Enders(lanes'[k], reply'[k])
  <2>1. k # l
    BY <1>5, <1>12
  <2> QED BY <2>1, <1>3, <1>12
<1> QED BY <1>2, <1>3, <1>4, <1>5, <1>7, <1>9, <1>11, <1>12

\* An answer to a batch of which nothing has become durable.
LEMMA AnswerKeeps ==
  ASSUME GroupInv, NEW l \in Lane, Busy(l), NEW r \in Reply, Len(r.kinds) = Len(lanes[l]),
         r.batch # "committed", rogue \subseteq rogue', rogue' \subseteq Commands,
         reply' = [reply EXCEPT ![l] = r],
         UNCHANGED <<committer, zombie, receipts, applied, order>>
  PROVE  GroupInv'
<1>0. /\ Rest /\ Effects(applied, zombie)
      /\ Placed(buffer, lanes, outcome, heldCount)
      /\ PutOff(buffer, lanes, deferred, backoff)
      /\ Truths(buffer, lanes, reply, outcome, receipts, applied, zombie, rogue)
      /\ Ordered(buffer, lanes, reply, deferred, outcome, order, applied, zombie)
  BY InvParts
<1>1. /\ state' = state /\ buffer' = buffer /\ lanes' = lanes /\ deferred' = deferred
      /\ attempts' = attempts /\ heldCount' = heldCount /\ forceFlush' = forceFlush
      /\ backoff' = backoff /\ outcome' = outcome /\ stuck' = stuck
      /\ zombie' = zombie /\ receipts' = receipts /\ applied' = applied /\ order' = order
  BY DEF committer
<1>2. /\ Batches(lanes', reply') /\ r # None
      /\ reply'[l] = r /\ \A k \in Lane : k # l => reply'[k] = reply[k]
      /\ Untouched(buffer', lanes', reply', outcome')
           \subseteq (Untouched(buffer, lanes, reply, outcome) \ ToSet(lanes[l])) \cup Clean(lanes[l], r)
      /\ ToSet(lanes[l]) \subseteq Untouched(buffer, lanes, reply, outcome)
      /\ Clean(lanes[l], r) \subseteq ToSet(lanes[l])
      /\ Unrun(lanes[l], reply[l]) = ToSet(lanes[l]) /\ Unrun(lanes[l], r) \subseteq ToSet(lanes[l])
      /\ \A m : (\E k \in Lane : m \in Enders(lanes[k], reply[k]))
                  => \E k \in Lane : m \in Enders(lanes'[k], reply'[k])
  BY <1>1, AnswerFacts
<1>3. Rest'
  BY <1>0, <1>1 DEF Rest
<1>4. Truths(buffer', lanes', reply', outcome', receipts', applied', zombie', rogue')
  <2>1. Untouched(buffer', lanes', reply', outcome') \subseteq Untouched(buffer, lanes, reply, outcome)
    BY <1>2
  <2>2. ASSUME NEW k \in Lane, NEW i \in 1..Len(lanes[k]),
               reply'[k] # None, reply'[k].batch = "committed", reply'[k].kinds[i] = "ok"
        PROVE  receipts[Command[lanes[k][i]]] = Digest[lanes[k][i]]
    <3>1. reply'[k] = reply[k]
      BY <2>2, <1>2
    <3> QED BY <3>1, <2>2, <1>0 DEF Truths
  <2>3. Untouched(buffer', lanes', reply', outcome') \cap (ToSet(applied) \cup ToSet(zombie)) = {}
    BY <2>1, <1>0 DEF Truths
  <2>4. \A m \in ToSet(applied) :
           \/ receipts[Command[m]] = Digest[m]
           \/ outcome[m] = "not_reconcilable"
           \/ \E k \in Lane : m \in Enders(lanes'[k], reply'[k])
    BY <1>0, <1>2 DEF Truths
  <2>5. /\ \A m \in ToSet(applied) : receipts[Command[m]] # None \/ Command[m] \in rogue'
        /\ \A m, n \in ToSet(applied) : m # n /\ Command[m] = Command[n] => Command[m] \in rogue'
        /\ \A m \in Member : outcome[m] = "ok" => receipts[Command[m]] = Digest[m]
    BY <1>0 DEF Truths
  <2> QED BY <2>2, <2>3, <2>4, <2>5, <1>1 DEF Truths
<1>5. Ordered(buffer', lanes', reply', deferred', outcome', order', applied', zombie')
  <2>1. Unrun(lanes["main"], reply'["main"]) \subseteq Unrun(lanes["main"], reply["main"])
    BY <1>2 DEF Lane
  <2>2. Ahead(order, ToSet(applied) \cup ToSet(zombie), Unrun(lanes["main"], reply'["main"]) \cup ToSet(buffer))
    BY <2>1, <1>0 DEF Ordered, Ahead
  <2> QED BY <2>2, <1>0, <1>1 DEF Ordered
<1> QED BY <1>0, <1>1, <1>2, <1>3, <1>4, <1>5 DEF GroupInv

LEMMA BatchRefusedKeeps ==
  ASSUME GroupInv, NEW l \in Lane, NEW retryable \in BOOLEAN, BatchRefused(l, retryable)
  PROVE  GroupInv'
<1> DEFINE r == [batch |-> "not_committed", retryable |-> retryable,
                 kinds |-> [i \in DOMAIN lanes[l] |-> "notRun"]]
<1>1. lanes[l] \in Seq(Member)
  BY DEF GroupInv, Placed
<1>2. r.kinds \in Seq(Kinds) /\ Len(r.kinds) = Len(lanes[l])
  BY <1>1 DEF Kinds
<1>3. r \in Reply /\ r.batch # "committed"
  BY <1>2 DEF Reply
<1>4. /\ Busy(l) /\ reply' = [reply EXCEPT ![l] = r]
      /\ UNCHANGED <<committer, zombie, receipts, applied, rogue, order>>
  BY DEF BatchRefused
<1>5. rogue \subseteq rogue' /\ rogue' \subseteq Commands
  BY <1>4 DEF GroupInv, Rest
<1> HIDE DEF r
<1> QED BY <1>2, <1>3, <1>4, <1>5, AnswerKeeps

\* The batch of a lost worker is unknown to its callers and may still commit.
LEMMA WorkerLostKeeps ==
  ASSUME GroupInv, NEW l \in Lane, WorkerLost(l)
  PROVE  GroupInv'
<1> DEFINE r == [batch |-> "unknown", retryable |-> FALSE, kinds |-> [i \in DOMAIN lanes[l] |-> "ok"]]
<1>0. /\ Rest /\ Effects(applied, zombie)
      /\ Placed(buffer, lanes, outcome, heldCount) /\ Batches(lanes, reply)
      /\ PutOff(buffer, lanes, deferred, backoff)
      /\ Truths(buffer, lanes, reply, outcome, receipts, applied, zombie, rogue)
      /\ Ordered(buffer, lanes, reply, deferred, outcome, order, applied, zombie)
  BY InvParts
<1>1. lanes[l] \in Seq(Member) /\ Once(lanes[l])
  BY <1>0 DEF Placed
<1>2. /\ r.kinds \in Seq(Kinds) /\ Len(r.kinds) = Len(lanes[l]) /\ r.batch = "unknown"
      /\ \A i \in 1..Len(lanes[l]) : r.kinds[i] = "ok"
  BY <1>1 DEF Kinds
<1>3. r \in Reply /\ r.batch # "committed"
  BY <1>2 DEF Reply
<1>4. /\ Busy(l) /\ reply' = [reply EXCEPT ![l] = r] /\ zombie = <<>> /\ zombie' = lanes[l]
      /\ state' = state /\ buffer' = buffer /\ lanes' = lanes /\ deferred' = deferred
      /\ attempts' = attempts /\ heldCount' = heldCount /\ forceFlush' = forceFlush
      /\ backoff' = backoff /\ outcome' = outcome /\ stuck' = stuck
      /\ receipts' = receipts /\ applied' = applied /\ order' = order /\ rogue' = rogue
  BY DEF WorkerLost, committer
<1> HIDE DEF r
<1>5. /\ Batches(lanes', reply') /\ r # None
      /\ reply'[l] = r /\ \A k \in Lane : k # l => reply'[k] = reply[k]
      /\ Untouched(buffer', lanes', reply', outcome')
           \subseteq (Untouched(buffer, lanes, reply, outcome) \ ToSet(lanes[l])) \cup Clean(lanes[l], r)
      /\ ToSet(lanes[l]) \subseteq Untouched(buffer, lanes, reply, outcome)
      /\ Unrun(lanes[l], reply[l]) = ToSet(lanes[l])
      /\ \A m : (\E k \in Lane : m \in Enders(lanes[k], reply[k]))
                  => \E k \in Lane : m \in Enders(lanes'[k], reply'[k])
  BY <1>2, <1>3, <1>4, AnswerFacts
<1>6. Clean(lanes[l], r) = {} /\ Unrun(lanes[l], r) = {}
  BY <1>2, <1>5 DEF Clean, Unrun, Fresh
<1>7. Rest'
  BY <1>0, <1>1, <1>4 DEF Rest
<1>8. ToSet(applied) \cap ToSet(lanes[l]) = {}
  BY <1>0, <1>5 DEF Truths
<1>9. Effects(applied', zombie')
  BY <1>0, <1>1, <1>4, <1>8 DEF Effects
<1>10. Truths(buffer', lanes', reply', outcome', receipts', applied', zombie', rogue')
  <2>1. Untouched(buffer', lanes', reply', outcome') \cap (ToSet(applied) \cup ToSet(lanes[l])) = {}
    BY <1>0, <1>5, <1>6 DEF Truths
  <2>2. ASSUME NEW k \in Lane, NEW i \in 1..Len(lanes[k]),
               reply'[k] # None, reply'[k].batch = "committed", reply'[k].kinds[i] = "ok"
        PROVE  receipts[Command[lanes[k][i]]] = Digest[lanes[k][i]]
    <3>1. reply'[k] = reply[k]
      BY <2>2, <1>2, <1>5
    <3> QED BY <3>1, <2>2, <1>0 DEF Truths
  <2> QED BY <2>1, <2>2, <1>0, <1>4, <1>5 DEF Truths
<1>11. Ordered(buffer', lanes', reply', deferred', outcome', order', applied', zombie')
  <2>1. Lane = {"main", "priority"}
    BY DEF Lane
  <2>2. CASE l = "main"
    <3>1. Unrun(lanes["main"], reply'["main"]) = {} /\ Unrun(lanes["main"], reply["main"]) = ToSet(lanes["main"])
      BY <2>2, <1>5, <1>6
    <3>2. /\ Ahead(order, ToSet(applied), ToSet(lanes["main"]))
          /\ Ahead(order, ToSet(applied) \cup ToSet(lanes["main"]), ToSet(buffer))
      BY <3>1, <1>0 DEF Ordered, Ahead
    <3>3. Sorted(order, lanes["main"])
      BY <1>0 DEF Ordered
    <3>4. Unrun(lanes["main"], reply'["main"]) \cup ToSet(buffer) = ToSet(buffer)
      BY <3>1
    <3> QED BY <3>2, <3>3, <3>4, <2>2, <1>0, <1>4 DEF Ordered
  <2>3. CASE l = "priority"
    <3>1. ToSet(lanes["priority"]) \subseteq Priority
      BY <1>0 DEF Batches
    <3>2. Unrun(lanes["main"], reply'["main"]) = Unrun(lanes["main"], reply["main"])
      BY <2>1, <2>3, <1>5
    <3>3. /\ Ahead(order, ToSet(applied), ToSet(lanes["priority"]))
          /\ Ahead(order, ToSet(applied) \cup ToSet(lanes["priority"]),
                   Unrun(lanes["main"], reply'["main"]) \cup ToSet(buffer))
      BY <3>1, <3>2, <1>0 DEF Ordered, Ahead
    <3>4. Sorted(order, lanes["priority"])
      BY <3>1 DEF Sorted, ToSet
    <3> QED BY <3>3, <3>4, <2>3, <1>0, <1>4 DEF Ordered
  <2> QED BY <2>1, <2>2, <2>3
<1> QED BY <1>0, <1>4, <1>5, <1>7, <1>9, <1>10, <1>11 DEF GroupInv

\* An answer to a batch whose transaction has committed, known to the caller or not.
LEMMA CommitKeeps ==
  ASSUME GroupInv, NEW l \in Lane, Busy(l), zombie = <<>>,
         NEW r \in Reply, Len(r.kinds) = Len(lanes[l]), r.batch # "not_committed",
         NEW ok \in SUBSET (1..Len(lanes[l])), \A i \in ok : ~ Conflicts(lanes[l], ok, i),
         NEW ender \in SUBSET (1..Len(lanes[l])),
         r.batch = "committed" =>
           \A i \in 1..Len(lanes[l]) : /\ r.kinds[i] \in {"ok", "failed", "deferred"}
                                       /\ r.kinds[i] = "ok" => i \in ok,
         \A i \in ok \cup ender : r.kinds[i] \in {"ok", "ender"},
         \A i \in ender : r.kinds[i] = "ender",
         \A i \in 1..Len(lanes[l]) :
           r.kinds[i] \in {"deferred", "notRun"} => \A j \in ok \cup ender : j < i,
         rogue \cup {Command[lanes[l][e]] : e \in ender} \subseteq rogue', rogue' \subseteq Commands,
         reply' = [reply EXCEPT ![l] = r], Durable(lanes[l], ok, ender),
         UNCHANGED <<committer, zombie, order>>
  PROVE  GroupInv'
<1> DEFINE batch == lanes[l]
           ran == {batch[i] : i \in Runs(batch, ok) \cup ender}
<1>0. /\ Rest /\ Effects(applied, zombie)
      /\ Placed(buffer, lanes, outcome, heldCount) /\ Batches(lanes, reply)
      /\ PutOff(buffer, lanes, deferred, backoff)
      /\ Truths(buffer, lanes, reply, outcome, receipts, applied, zombie, rogue)
      /\ Ordered(buffer, lanes, reply, deferred, outcome, order, applied, zombie)
  BY InvParts
<1>1. /\ state' = state /\ buffer' = buffer /\ lanes' = lanes /\ deferred' = deferred
      /\ attempts' = attempts /\ heldCount' = heldCount /\ forceFlush' = forceFlush
      /\ backoff' = backoff /\ outcome' = outcome /\ stuck' = stuck
      /\ zombie' = <<>> /\ order' = order
  BY DEF committer
<1>2. batch \in Seq(Member) /\ Once(batch)
  BY <1>0 DEF Placed
<1>3. /\ Batches(lanes', reply') /\ r # None
      /\ reply'[l] = r /\ \A k \in Lane : k # l => reply'[k] = reply[k]
      /\ Untouched(buffer', lanes', reply', outcome')
           \subseteq (Untouched(buffer, lanes, reply, outcome) \ ToSet(batch)) \cup Clean(batch, r)
      /\ ToSet(batch) \subseteq Untouched(buffer, lanes, reply, outcome)
      /\ Unrun(batch, reply[l]) = ToSet(batch) /\ Unrun(batch, r) \subseteq ToSet(batch)
      /\ \A m : (\E k \in Lane : m \in Enders(lanes[k], reply[k]))
                  => \E k \in Lane : m \in Enders(lanes'[k], reply'[k])
  BY <1>1, AnswerFacts
<1>4. ToSet(zombie) = {} /\ ToSet(zombie') = {} /\ Once(zombie') /\ zombie' \in Seq(Member)
  BY <1>1 DEF ToSet, Once
<1>5. ToSet(applied) \cap ToSet(batch) = {}
  BY <1>0, <1>3 DEF Truths
<1> HIDE DEF batch
<1>6. /\ receipts' \in [Commands -> {Digest[m] : m \in Member} \cup {None}]
      /\ \A m \in Member : receipts[Command[m]] = Digest[m] => receipts'[Command[m]] = Digest[m]
      /\ \A i \in ok : receipts'[Command[batch[i]]] = Digest[batch[i]]
      /\ applied' \in Seq(Member) /\ Once(applied')
      /\ ToSet(applied') = ToSet(applied) \cup ran
      /\ \A o : Sorted(o, applied) /\ Sorted(o, batch) /\ Ahead(o, ToSet(applied), ToSet(batch))
                  => Sorted(o, applied')
      /\ \A m \in ToSet(applied') : receipts'[Command[m]] # None \/ Command[m] \in rogue'
      /\ \A m, n \in ToSet(applied') : m # n /\ Command[m] = Command[n] => Command[m] \in rogue'
  <2>1. /\ Once(applied)
        /\ \A m \in ToSet(applied) : receipts[Command[m]] # None \/ Command[m] \in rogue
        /\ \A m, n \in ToSet(applied) : m # n /\ Command[m] = Command[n] => Command[m] \in rogue
    BY <1>0 DEF Effects, Truths
  <2>2. /\ ok \in SUBSET (1..Len(batch)) /\ \A i \in ok : ~ Conflicts(batch, ok, i)
        /\ ender \in SUBSET (1..Len(batch)) /\ Durable(batch, ok, ender)
        /\ rogue \cup {Command[batch[e]] : e \in ender} \subseteq rogue'
    BY DEF batch
  <2> QED BY <2>1, <2>2, <1>0, <1>2, <1>5, DurableFacts
<1>7. ran \subseteq {batch[i] : i \in ok \cup ender} /\ ran \subseteq ToSet(batch)
  BY DEF Runs, ToSet, batch
<1>8. Rest'
  BY <1>0, <1>1, <1>4, <1>6 DEF Rest
<1>9. Effects(applied', zombie')
  BY <1>4, <1>6 DEF Effects
<1>10. ran \cap Clean(batch, r) = {}
  <2>1. SUFFICES ASSUME NEW z \in ran, z \in Clean(batch, r) PROVE FALSE
    OBVIOUS
  <2>2. PICK i \in ok \cup ender : z = batch[i]
    BY <1>7
  <2>3. PICK j \in 1..Len(batch) : z = batch[j] /\ (Fresh(r, j) \/ r.kinds[j] = "failed")
    BY <2>1 DEF Clean
  <2>4. i \in 1..Len(batch)
    BY DEF batch
  <2>5. i = j
    BY <2>2, <2>3, <2>4, <1>2 DEF Once
  <2>6. r.kinds[j] \in {"ok", "ender"}
    BY <2>5
  <2> QED BY <2>3, <2>6, <1>3 DEF Fresh
<1>11. ASSUME NEW m \in ToSet(applied')
       PROVE  \/ receipts'[Command[m]] = Digest[m]
              \/ outcome[m] = "not_reconcilable"
              \/ \E k \in Lane : m \in Enders(lanes'[k], reply'[k])
  <2>1. CASE m \in ToSet(applied)
    <3>1. m \in Member
      BY <2>1, <1>0 DEF Rest, ToSet
    <3> QED BY <3>1, <2>1, <1>0, <1>3, <1>6 DEF Truths
  <2>2. ASSUME NEW i \in ok, m = batch[i] PROVE receipts'[Command[m]] = Digest[m]
    BY <2>2, <1>6
  <2>3. ASSUME NEW i \in ender, m = batch[i] PROVE \E k \in Lane : m \in Enders(lanes'[k], reply'[k])
    <3>1. m \in Enders(batch, r)
      BY <2>3, <1>3 DEF Enders, batch
    <3> QED BY <3>1, <1>1, <1>3 DEF batch
  <2>4. CASE m \in ran
    <3>1. PICK i \in ok \cup ender : m = batch[i]
      BY <2>4, <1>7
    <3> QED BY <3>1, <2>2, <2>3
  <2> QED BY <2>1, <2>4, <1>6
<1>12. Truths(buffer', lanes', reply', outcome', receipts', applied', zombie', rogue')
  <2>1. Untouched(buffer', lanes', reply', outcome') \cap (ToSet(applied') \cup ToSet(zombie')) = {}
    <3>1. Untouched(buffer, lanes, reply, outcome) \cap ToSet(applied) = {}
      BY <1>0 DEF Truths
    <3>2. Clean(batch, r) \subseteq ToSet(batch)
      BY DEF Clean, ToSet
    <3>3. ToSet(applied') \cup ToSet(zombie') = ToSet(applied) \cup ran
      BY <1>4, <1>6
    <3> QED BY <3>1, <3>2, <3>3, <1>3, <1>5, <1>7, <1>10
  <2>2. ASSUME NEW k \in Lane, NEW i \in 1..Len(lanes[k]),
               reply'[k] # None, reply'[k].batch = "committed", reply'[k].kinds[i] = "ok"
        PROVE  receipts'[Command[lanes[k][i]]] = Digest[lanes[k][i]]
    <3>1. CASE k = l
      BY <3>1, <2>2, <1>3, <1>6 DEF batch
    <3>2. CASE k # l
      <4>1. receipts[Command[lanes[k][i]]] = Digest[lanes[k][i]]
        BY <3>2, <2>2, <1>0, <1>3 DEF Truths
      <4>2. lanes[k][i] \in Member
        BY <1>0 DEF Placed
      <4> QED BY <4>1, <4>2, <1>6
    <3> QED BY <3>1, <3>2
  <2>3. \A m \in Member : outcome[m] = "ok" => receipts'[Command[m]] = Digest[m]
    BY <1>0, <1>6 DEF Truths
  <2> QED BY <2>1, <2>2, <2>3, <1>1, <1>6, <1>11 DEF Truths
<1>13. Ordered(buffer', lanes', reply', deferred', outcome', order', applied', zombie')
  <2>1. Lane = {"main", "priority"}
    BY DEF Lane
  <2>2. Ahead(order, ToSet(applied), Unrun(lanes["main"], reply["main"]) \cup ToSet(buffer))
    BY <1>0 DEF Ordered, Ahead
  <2>3. /\ Sorted(order, applied')
        /\ Ahead(order, ToSet(applied'), Unrun(lanes["main"], reply'["main"]) \cup ToSet(buffer))
    <3>1. CASE l = "main"
      <4>1. Sorted(order, batch) /\ Ahead(order, ToSet(batch), ToSet(buffer)) /\ Sorted(order, applied)
        BY <3>1, <1>0 DEF Ordered, batch
      <4>2. Ahead(order, ToSet(applied), ToSet(batch) \cup ToSet(buffer))
        BY <3>1, <2>2, <1>3 DEF batch
      <4>3. Sorted(order, applied')
        BY <4>1, <4>2, <1>6 DEF Ahead
      <4>4. ASSUME NEW x \in ran, NEW y \in Unrun(batch, r), x \notin Priority, y \notin Priority
            PROVE  Before(order, x, y)
        <5>1. PICK i \in ok \cup ender : x = batch[i]
          BY <4>4, <1>7
        <5>2. PICK j \in 1..Len(batch) : y = batch[j] /\ Fresh(r, j)
          BY <4>4 DEF Unrun
        <5>3. r.kinds[j] \in {"deferred", "notRun"}
          BY <5>2, <1>3 DEF Fresh
        <5>4. i < j /\ i \in 1..Len(batch)
          BY <5>3 DEF batch
        <5> QED BY <5>1, <5>2, <5>4, <4>1, <4>4 DEF Sorted
      <4>5. reply'["main"] = r /\ lanes["main"] = batch
        BY <3>1, <1>3 DEF batch
      <4>6. Ahead(order, ran, ToSet(buffer))
        BY <4>1, <1>7 DEF Ahead
      <4>7. Ahead(order, ToSet(applied), Unrun(batch, r) \cup ToSet(buffer))
        BY <4>2, <1>3 DEF Ahead
      <4>8. Ahead(order, ToSet(applied'), Unrun(batch, r) \cup ToSet(buffer))
        BY <4>4, <4>6, <4>7, <1>6 DEF Ahead
      <4> QED BY <4>3, <4>5, <4>8
    <3>2. CASE l = "priority"
      <4>1. ToSet(batch) \subseteq Priority
        BY <3>2, <1>0 DEF Batches, batch
      <4>2. Sorted(order, batch) /\ Ahead(order, ToSet(applied), ToSet(batch)) /\ Sorted(order, applied)
        BY <4>1, <1>0 DEF Sorted, Ahead, ToSet, Ordered
      <4>3. Sorted(order, applied')
        BY <4>2, <1>6
      <4>4. reply'["main"] = reply["main"]
        BY <3>2, <2>1, <1>3
      <4>5. Ahead(order, ran, Unrun(lanes["main"], reply["main"]) \cup ToSet(buffer))
        BY <4>1, <1>7 DEF Ahead
      <4>6. Ahead(order, ToSet(applied'), Unrun(lanes["main"], reply["main"]) \cup ToSet(buffer))
        BY <4>5, <2>2, <1>6 DEF Ahead
      <4> QED BY <4>3, <4>4, <4>6
    <3> QED BY <2>1, <3>1, <3>2
  <2>4. /\ Sorted(order, zombie') /\ Ahead(order, ToSet(applied'), ToSet(zombie'))
        /\ ToSet(applied') \cup ToSet(zombie') = ToSet(applied')
    BY <1>1, <1>4 DEF Sorted, Ahead
  <2> QED BY <2>3, <2>4, <1>0, <1>1 DEF Ordered
<1> QED BY <1>0, <1>1, <1>3, <1>8, <1>9, <1>12, <1>13 DEF GroupInv

LEMMA ZombieExitsKeeps ==
  ASSUME GroupInv, NEW ok \in SUBSET (DOMAIN zombie), ZombieExits(ok)
  PROVE  GroupInv'
<1>0. /\ Rest /\ Effects(applied, zombie)
      /\ Placed(buffer, lanes, outcome, heldCount) /\ Batches(lanes, reply)
      /\ PutOff(buffer, lanes, deferred, backoff)
      /\ Truths(buffer, lanes, reply, outcome, receipts, applied, zombie, rogue)
      /\ Ordered(buffer, lanes, reply, deferred, outcome, order, applied, zombie)
  BY InvParts
<1>1. /\ state' = state /\ buffer' = buffer /\ lanes' = lanes /\ deferred' = deferred
      /\ attempts' = attempts /\ heldCount' = heldCount /\ forceFlush' = forceFlush
      /\ backoff' = backoff /\ outcome' = outcome /\ stuck' = stuck
      /\ zombie' = <<>> /\ order' = order /\ reply' = reply /\ rogue' = rogue
      /\ Durable(zombie, ok, {}) /\ \A i \in ok : ~ Conflicts(zombie, ok, i)
  BY DEF ZombieExits, committer
<1>2. zombie \in Seq(Member) /\ Once(zombie) /\ ToSet(applied) \cap ToSet(zombie) = {}
  BY <1>0 DEF Rest, Effects
<1>3. ToSet(zombie') = {} /\ Once(zombie') /\ zombie' \in Seq(Member)
  BY <1>1 DEF ToSet, Once
<1> DEFINE ran == {zombie[i] : i \in Runs(zombie, ok) \cup {}}
<1>4. /\ receipts' \in [Commands -> {Digest[m] : m \in Member} \cup {None}]
      /\ \A m \in Member : receipts[Command[m]] = Digest[m] => receipts'[Command[m]] = Digest[m]
      /\ \A i \in ok : receipts'[Command[zombie[i]]] = Digest[zombie[i]]
      /\ applied' \in Seq(Member) /\ Once(applied')
      /\ ToSet(applied') = ToSet(applied) \cup ran
      /\ \A o : Sorted(o, applied) /\ Sorted(o, zombie) /\ Ahead(o, ToSet(applied), ToSet(zombie))
                  => Sorted(o, applied')
      /\ \A m \in ToSet(applied') : receipts'[Command[m]] # None \/ Command[m] \in rogue
      /\ \A m, n \in ToSet(applied') : m # n /\ Command[m] = Command[n] => Command[m] \in rogue
  <2>1. /\ Once(applied)
        /\ \A m \in ToSet(applied) : receipts[Command[m]] # None \/ Command[m] \in rogue
        /\ \A m, n \in ToSet(applied) : m # n /\ Command[m] = Command[n] => Command[m] \in rogue
    BY <1>0 DEF Effects, Truths
  <2>2. /\ ok \in SUBSET (1..Len(zombie)) /\ {} \in SUBSET (1..Len(zombie))
        /\ rogue \cup {Command[zombie[e]] : e \in {}} \subseteq rogue
    BY <1>2
  <2> QED BY <2>1, <2>2, <1>0, <1>1, <1>2, DurableFacts
<1>5. ran \subseteq {zombie[i] : i \in ok} /\ ran \subseteq ToSet(zombie)
  BY <1>2 DEF Runs, ToSet
<1> HIDE DEF ran
<1>6. Rest'
  BY <1>0, <1>1, <1>3, <1>4 DEF Rest
<1>7. Effects(applied', zombie')
  BY <1>3, <1>4 DEF Effects
<1>8. ASSUME NEW m \in ToSet(applied')
      PROVE  \/ receipts'[Command[m]] = Digest[m]
             \/ outcome[m] = "not_reconcilable"
             \/ \E k \in Lane : m \in Enders(lanes[k], reply[k])
  <2>1. CASE m \in ToSet(applied)
    <3>1. m \in Member
      BY <2>1, <1>0 DEF Rest, ToSet
    <3> QED BY <3>1, <2>1, <1>0, <1>4 DEF Truths
  <2>2. CASE m \in ran
    BY <2>2, <1>4, <1>5
  <2> QED BY <2>1, <2>2, <1>4
<1>9. Truths(buffer', lanes', reply', outcome', receipts', applied', zombie', rogue')
  <2>1. Untouched(buffer, lanes, reply, outcome) \cap (ToSet(applied') \cup ToSet(zombie')) = {}
    BY <1>0, <1>3, <1>4, <1>5 DEF Truths
  <2>2. ASSUME NEW k \in Lane, NEW i \in 1..Len(lanes[k]),
               reply[k] # None, reply[k].batch = "committed", reply[k].kinds[i] = "ok"
        PROVE  receipts'[Command[lanes[k][i]]] = Digest[lanes[k][i]]
    <3>1. receipts[Command[lanes[k][i]]] = Digest[lanes[k][i]] /\ lanes[k][i] \in Member
      BY <2>2, <1>0 DEF Truths, Placed
    <3> QED BY <3>1, <1>4
  <2>3. \A m \in Member : outcome[m] = "ok" => receipts'[Command[m]] = Digest[m]
    BY <1>0, <1>4 DEF Truths
  <2> QED BY <2>1, <2>2, <2>3, <1>1, <1>4, <1>8 DEF Truths
<1>10. Ordered(buffer', lanes', reply', deferred', outcome', order', applied', zombie')
  <2>1. Sorted(order, applied')
    BY <1>0, <1>4 DEF Ordered
  <2>2. Sorted(order, zombie') /\ Ahead(order, ToSet(applied'), ToSet(zombie'))
    BY <1>1, <1>3 DEF Sorted, Ahead
  <2>3. Ahead(order, ToSet(applied') \cup ToSet(zombie'), Unrun(lanes["main"], reply["main"]) \cup ToSet(buffer))
    <3>1. ToSet(applied') \cup ToSet(zombie') \subseteq ToSet(applied) \cup ToSet(zombie)
      BY <1>3, <1>4, <1>5
    <3> QED BY <3>1, <1>0 DEF Ordered, Ahead
  <2> QED BY <2>1, <2>2, <2>3, <1>0, <1>1 DEF Ordered
<1> QED BY <1>0, <1>1, <1>6, <1>7, <1>9, <1>10 DEF GroupInv

LEMMA RunBatchKeeps ==
  ASSUME GroupInv, NEW l \in Lane, NEW stop \in 1..(Len(lanes[l]) + 1),
         NEW ok \in SUBSET (1..(stop - 1)), RunBatch(l, stop, ok)
  PROVE  GroupInv'
<1> DEFINE batch == lanes[l]
           R(batchState, retryable, at, later) ==
             [batch |-> batchState, retryable |-> retryable, kinds |-> Answer(batch, stop, ok, at, later)]
           Replies(batchState, at, later) ==
             \E retryable \in {batchState = "not_committed", FALSE} :
               reply' = [reply EXCEPT ![l] = R(batchState, retryable, at, later)]
<1>1. batch \in Seq(Member) /\ rogue \subseteq Commands
  BY DEF GroupInv, Placed, Rest
<1>2. Len(batch) \in Nat /\ stop \in Nat /\ ok \in SUBSET (1..Len(batch)) /\ \A i \in ok : i < stop
  BY <1>1
<1>3. /\ Busy(l) /\ zombie = <<>> /\ \A i \in ok : ~ Conflicts(batch, ok, i)
      /\ \/ /\ \/ Durable(batch, ok, {}) /\ Replies("committed", "deferred", "deferred")
               \/ Nothing /\ Replies("not_committed", "deferred", "deferred")
               \/ (Durable(batch, ok, {}) \/ Nothing) /\ Replies("unknown", "deferred", "deferred")
            /\ rogue' = rogue
         \/ Nothing /\ Replies("not_committed", "failed", "notRun") /\ rogue' = rogue
         \/ /\ stop <= Len(batch)
            /\ Durable(batch, ok, {stop}) \/ Nothing
            /\ Replies("unknown", "ender", "notRun")
            /\ rogue' = rogue \cup {Command[batch[stop]]}
      /\ UNCHANGED <<committer, zombie, order>>
  BY DEF RunBatch
<1>4. ASSUME NEW batchState \in {"committed", "not_committed", "unknown"}, NEW retryable \in BOOLEAN,
             NEW at \in Kinds, NEW later \in Kinds
      PROVE  LET r == R(batchState, retryable, at, later)
             IN /\ r \in Reply /\ Len(r.kinds) = Len(batch) /\ r.batch = batchState
                /\ \A i \in 1..Len(batch) :
                     r.kinds[i] = IF i < stop THEN IF i \in ok THEN "ok" ELSE "failed"
                                  ELSE IF i = stop THEN at ELSE later
  <2> DEFINE r == R(batchState, retryable, at, later)
  <2>1. /\ DOMAIN r.kinds = 1..Len(batch)
        /\ \A i \in 1..Len(batch) :
             r.kinds[i] = IF i < stop THEN IF i \in ok THEN "ok" ELSE "failed"
                          ELSE IF i = stop THEN at ELSE later
    BY <1>1 DEF Answer
  <2>2. \A i \in 1..Len(batch) : r.kinds[i] \in Kinds
    BY <2>1 DEF Kinds
  <2>3. r.kinds \in [1..Len(batch) -> Kinds]
    BY <2>1, <2>2, <1>1 DEF Answer
  <2>4. r.kinds \in Seq(Kinds) /\ Len(r.kinds) = Len(batch)
    BY <2>3, <1>2
  <2>5. r \in Reply
    BY <2>4 DEF Reply
  <2> QED BY <2>1, <2>4, <2>5
<1>5. {"ok", "failed", "ender", "notRun", "deferred"} = Kinds
  BY DEF Kinds
<1> HIDE DEF R
<1>6. \* nothing is durable
      ASSUME NEW batchState \in {"not_committed", "unknown"}, NEW at \in Kinds, NEW later \in Kinds,
             Nothing, Replies(batchState, at, later), rogue \subseteq rogue', rogue' \subseteq Commands
      PROVE  GroupInv'
  <2>1. PICK retryable \in BOOLEAN : reply' = [reply EXCEPT ![l] = R(batchState, retryable, at, later)]
    BY <1>6
  <2> DEFINE r == R(batchState, retryable, at, later)
  <2>2. r \in Reply /\ Len(r.kinds) = Len(batch) /\ r.batch = batchState
    BY <1>4
  <2>3. UNCHANGED <<committer, zombie, receipts, applied, order>>
    BY <1>3, <1>6 DEF Nothing
  <2>4. r.batch # "committed" /\ reply' = [reply EXCEPT ![l] = r]
    BY <2>1, <2>2
  <2> HIDE DEF r
  <2> QED BY <2>2, <2>3, <2>4, <1>3, <1>6, AnswerKeeps
<1>7. \* the transaction has committed
      ASSUME NEW batchState \in {"committed", "unknown"}, NEW at \in Kinds, NEW later \in Kinds,
             NEW ender \in SUBSET (1..Len(batch)), ender \subseteq {stop},
             ender # {} => at = "ender", ender = {} => at = "deferred", later \in {"deferred", "notRun"},
             batchState = "committed" => at = "deferred" /\ later = "deferred",
             Durable(batch, ok, ender), Replies(batchState, at, later),
             rogue \cup {Command[batch[e]] : e \in ender} \subseteq rogue', rogue' \subseteq Commands
      PROVE  GroupInv'
  <2>1. PICK retryable \in BOOLEAN : reply' = [reply EXCEPT ![l] = R(batchState, retryable, at, later)]
    BY <1>7
  <2> DEFINE r == R(batchState, retryable, at, later)
  <2>2. /\ r \in Reply /\ Len(r.kinds) = Len(batch) /\ r.batch = batchState
        /\ \A i \in 1..Len(batch) :
             r.kinds[i] = IF i < stop THEN IF i \in ok THEN "ok" ELSE "failed"
                          ELSE IF i = stop THEN at ELSE later
    BY <1>4
  <2>3. r.batch # "not_committed" /\ reply' = [reply EXCEPT ![l] = r]
    BY <2>1, <2>2
  <2> HIDE DEF r
  <2>4. r.batch = "committed" =>
          \A i \in 1..Len(batch) : /\ r.kinds[i] \in {"ok", "failed", "deferred"}
                                   /\ r.kinds[i] = "ok" => i \in ok
    BY <2>2, <1>7
  <2>5. \A i \in ok : r.kinds[i] = "ok"
    BY <2>2, <1>2
  <2>6. \A i \in ender : r.kinds[i] = "ender"
    BY <2>2, <1>2, <1>7
  <2>7. \A i \in ok \cup ender : r.kinds[i] \in {"ok", "ender"}
    BY <2>5, <2>6
  <2>8. ASSUME NEW i \in 1..Len(batch), r.kinds[i] \in {"deferred", "notRun"}, NEW j \in ok \cup ender
        PROVE  j < i
    <3>1. ~ i < stop
      BY <2>2, <2>8
    <3>2. i = stop => ender = {}
      BY <2>2, <2>8, <1>2, <1>7
    <3>3. j \in ok => j < stop /\ j \in Nat
      BY <1>2
    <3>4. j \in ender => j = stop
      BY <1>7
    <3> QED BY <3>1, <3>2, <3>3, <3>4, <1>2
  <2>9. UNCHANGED <<committer, zombie, order>> /\ Busy(l) /\ zombie = <<>> /\ \A i \in ok : ~ Conflicts(batch, ok, i)
    BY <1>3
  <2> QED BY <2>2, <2>3, <2>4, <2>6, <2>7, <2>8, <2>9, <1>2, <1>7, CommitKeeps
<1> HIDE DEF Replies, batch
<1>8. CASE /\ \/ Durable(batch, ok, {}) /\ Replies("committed", "deferred", "deferred")
              \/ Nothing /\ Replies("not_committed", "deferred", "deferred")
              \/ (Durable(batch, ok, {}) \/ Nothing) /\ Replies("unknown", "deferred", "deferred")
           /\ rogue' = rogue
  <2>1. {} \in SUBSET (1..Len(batch)) /\ rogue \cup {Command[batch[e]] : e \in {}} \subseteq rogue' /\ rogue' \subseteq Commands
    BY <1>1, <1>8
  <2>2. "deferred" \in Kinds /\ rogue \subseteq rogue'
    BY <1>5, <1>8
  <2>3. CASE Nothing /\ (Replies("not_committed", "deferred", "deferred") \/ Replies("unknown", "deferred", "deferred"))
    BY <2>1, <2>2, <2>3, <1>6
  <2>4. CASE Durable(batch, ok, {}) /\ (Replies("committed", "deferred", "deferred") \/ Replies("unknown", "deferred", "deferred"))
    BY <2>1, <2>2, <2>4, <1>7
  <2> QED BY <2>3, <2>4, <1>8
<1>9. CASE Nothing /\ Replies("not_committed", "failed", "notRun") /\ rogue' = rogue
  <2>1. "failed" \in Kinds /\ "notRun" \in Kinds /\ rogue \subseteq rogue' /\ rogue' \subseteq Commands
    BY <1>1, <1>5, <1>9
  <2> QED BY <2>1, <1>6, <1>9
<1>10. CASE /\ stop <= Len(batch)
            /\ Durable(batch, ok, {stop}) \/ Nothing
            /\ Replies("unknown", "ender", "notRun")
            /\ rogue' = rogue \cup {Command[batch[stop]]}
  <2>1. {stop} \in SUBSET (1..Len(batch)) /\ batch[stop] \in Member
    BY <1>1, <1>2, <1>10
  <2>2. rogue \cup {Command[batch[e]] : e \in {stop}} \subseteq rogue' /\ rogue' \subseteq Commands /\ rogue \subseteq rogue'
    BY <2>1, <1>1, <1>10 DEF Commands
  <2>3. "ender" \in Kinds /\ "notRun" \in Kinds
    BY <1>5
  <2>4. CASE Nothing
    BY <2>2, <2>3, <2>4, <1>6, <1>10
  <2>5. CASE Durable(batch, ok, {stop})
    BY <2>1, <2>2, <2>3, <2>5, <1>7, <1>10
  <2> QED BY <2>4, <2>5, <1>10
<1> QED BY <1>3, <1>8, <1>9, <1>10, Zenon

-----------------------------------------------------------------------------
(* resolveUnknown() *)

LEMMA ResolveUnknownKeeps ==
  ASSUME GroupInv, NEW m \in Member, ResolveUnknown(m)
  PROVE  GroupInv'
<1>0. /\ Rest /\ Effects(applied, zombie)
      /\ Placed(buffer, lanes, outcome, heldCount) /\ Batches(lanes, reply)
      /\ PutOff(buffer, lanes, deferred, backoff)
      /\ Truths(buffer, lanes, reply, outcome, receipts, applied, zombie, rogue)
      /\ Ordered(buffer, lanes, reply, deferred, outcome, order, applied, zombie)
  BY InvParts
<1> DEFINE answer == IF receipts[Command[m]] = Digest[m] THEN "ok" ELSE "not_committed"
<1>1. /\ state' = state /\ buffer' = buffer /\ lanes' = lanes /\ deferred' = deferred
      /\ attempts' = attempts /\ heldCount' = heldCount /\ forceFlush' = forceFlush
      /\ backoff' = backoff /\ stuck' = stuck /\ reply' = reply /\ receipts' = receipts
      /\ zombie' = zombie /\ applied' = applied /\ rogue' = rogue /\ order' = order
      /\ outcome[m] = "unknown" /\ zombie = <<>>
      /\ outcome' = [outcome EXCEPT ![m] = answer]
  BY DEF ResolveUnknown, store
<1>2. outcome \in [Member -> Outcomes]
  BY <1>0 DEF Placed
<1>3. /\ outcome' \in [Member -> Outcomes] /\ outcome'[m] = answer
      /\ \A x \in Member : x # m => outcome'[x] = outcome[x]
  BY <1>1, <1>2 DEF Outcomes
<1>4. Placed(buffer', lanes', outcome', heldCount')
  <2>1. {x \in Member : outcome'[x] = "held"} = {x \in Member : outcome[x] = "held"}
    BY <1>1, <1>3
  <2> QED BY <2>1, <1>0, <1>1, <1>3 DEF Placed
<1>5. m \notin ToSet(zombie) /\ \A l \in Lane : m \notin Enders(lanes[l], reply[l])
  <2>1. ToSet(zombie) = {}
    BY <1>1 DEF ToSet
  <2>2. ASSUME NEW l \in Lane PROVE m \notin ToSet(lanes[l])
    BY <1>0, <1>1 DEF Placed, Lane
  <2>3. \A l \in Lane : Enders(lanes[l], reply[l]) \subseteq ToSet(lanes[l])
    BY DEF Enders, ToSet
  <2> QED BY <2>1, <2>2, <2>3
<1>6. Truths(buffer', lanes', reply', outcome', receipts', applied', zombie', rogue')
  <2>1. answer = "not_committed" => m \notin ToSet(applied)
    BY <1>0, <1>1, <1>5 DEF Truths
  <2>2. Untouched(buffer, lanes, reply, outcome')
          \subseteq Untouched(buffer, lanes, reply, outcome) \cup {x \in {m} : answer = "not_committed"}
    BY <1>3 DEF Untouched
  <2>3. Untouched(buffer, lanes, reply, outcome') \cap (ToSet(applied) \cup ToSet(zombie)) = {}
    BY <2>1, <2>2, <1>0, <1>5 DEF Truths
  <2>4. \A x \in Member : outcome'[x] = "ok" => receipts[Command[x]] = Digest[x]
    BY <1>0, <1>3 DEF Truths
  <2>5. \A x \in ToSet(applied) : outcome[x] = "not_reconcilable" => outcome'[x] = "not_reconcilable"
    <3>1. ToSet(applied) \subseteq Member
      BY <1>0 DEF Rest, ToSet
    <3> QED BY <3>1, <1>1, <1>3
  <2> QED BY <2>3, <2>4, <2>5, <1>0, <1>1 DEF Truths
<1>7. Ordered(buffer', lanes', reply', deferred', outcome', order', applied', zombie')
  <2>1. \A x \in Member : outcome'[x] = "new" <=> outcome[x] = "new"
    BY <1>1, <1>3
  <2>2. {x \in Member : x \notin Priority /\ outcome'[x] # "new"} = {x \in Member : x \notin Priority /\ outcome[x] # "new"}
    BY <2>1
  <2>3. \A x \in deferred : outcome'[x] # "new"
    BY <2>1, <1>0 DEF Ordered, PutOff, Fit
  <2> QED BY <2>2, <2>3, <1>0, <1>1 DEF Ordered
<1> QED BY <1>0, <1>1, <1>4, <1>6, <1>7 DEF GroupInv, Rest

-----------------------------------------------------------------------------
(* Settling a batch *)

\* What settling makes of the member at position i of the batch of lane l, the
\* members it makes that of, and those that go back to the buffer.
Fate(l, i) == Verdict(reply[l], lanes[l][i], reply[l].kinds[i])
Given(l, v) == {lanes[l][i] : i \in {j \in 1..Len(lanes[l]) : Fate(l, j) = v}}
Back(l) == Given(l, "retry") \cup Given(l, "defer")

LEMMA FateFacts ==
  ASSUME GroupInv, NEW l \in Lane, reply[l] # None, NEW i \in 1..Len(lanes[l])
  PROVE  /\ Fate(l, i) \in {"ok", "not_committed", "unknown", "not_reconcilable", "retry", "defer"}
         /\ Fate(l, i) \in {"retry", "defer", "not_committed"} =>
              \/ Fresh(reply[l], i)
              \/ reply[l].kinds[i] = "failed" /\ Fate(l, i) = "not_committed"
         /\ Fate(l, i) = "retry" =>
              reply[l].batch # "committed" /\ attempts[lanes[l][i]] + 1 < MaxFlushAttempts
         /\ Fate(l, i) = "defer" => reply[l].batch = "committed"
         /\ Fate(l, i) = "ok" => reply[l].kinds[i] = "ok" /\ reply[l].batch = "committed"
         /\ reply[l].kinds[i] = "ender" <=> Fate(l, i) = "not_reconcilable"
<1> DEFINE r == reply[l]
           kind == r.kinds[i]
           m == lanes[l][i]
<1>1. r \in Reply /\ Len(r.kinds) = Len(lanes[l])
      /\ (r.batch = "committed" => kind \in {"ok", "failed", "deferred"})
  BY DEF GroupInv, Batches
<1>2. kind \in Kinds /\ r.batch \in {"committed", "not_committed", "unknown"}
  BY <1>1 DEF Reply
<1>3. r # None
  OBVIOUS
<1> HIDE DEF m, kind, r
<1>4. /\ Verdict(r, m, kind) \in {"ok", "not_committed", "unknown", "not_reconcilable", "retry", "defer"}
      /\ Verdict(r, m, kind) \in {"retry", "defer"} =>
           kind \in {"deferred", "notRun"} \/ (kind = "ok" /\ r.batch = "not_committed")
      /\ Verdict(r, m, kind) = "not_committed" =>
           kind \in {"deferred", "notRun", "failed"} \/ (kind = "ok" /\ r.batch = "not_committed")
      /\ Verdict(r, m, kind) = "retry" => r.batch # "committed" /\ attempts[m] + 1 < MaxFlushAttempts
      /\ Verdict(r, m, kind) = "defer" => r.batch = "committed"
      /\ Verdict(r, m, kind) = "ok" => kind = "ok" /\ r.batch = "committed"
      /\ kind = "ender" <=> Verdict(r, m, kind) = "not_reconcilable"
  <2>1. CASE kind = "failed"
    <3>1. Verdict(r, m, kind) = "not_committed"
      BY <2>1 DEF Verdict
    <3> QED BY <3>1, <2>1
  <2>2. CASE kind = "ender"
    <3>1. Verdict(r, m, kind) = "not_reconcilable"
      BY <2>2 DEF Verdict
    <3> QED BY <3>1, <2>2
  <2>3. CASE kind = "ok" /\ r.batch = "committed"
    <3>1. Verdict(r, m, kind) = "ok"
      BY <2>3 DEF Verdict
    <3> QED BY <3>1, <2>3
  <2>4. CASE kind = "ok" /\ r.batch = "unknown"
    <3>1. Verdict(r, m, kind) = "unknown"
      BY <2>4 DEF Verdict
    <3> QED BY <3>1, <2>4
  <2>5. CASE kind = "deferred" /\ r.batch = "committed"
    <3>1. Verdict(r, m, kind) = IF state = "closed" THEN "not_committed" ELSE "defer"
      BY <2>5 DEF Verdict
    <3> QED BY <3>1, <2>5
  <2>6. CASE r.batch # "committed" /\ (kind \in {"notRun", "deferred"} \/ (kind = "ok" /\ r.batch = "not_committed"))
    <3>1. Verdict(r, m, kind) =
            IF Retries(m, r.retryable \/ r.batch = "unknown") THEN "retry" ELSE "not_committed"
      BY <2>6 DEF Verdict
    <3>2. Verdict(r, m, kind) = "retry" => attempts[m] + 1 < MaxFlushAttempts
      BY <3>1 DEF Retries
    <3>3. Verdict(r, m, kind) \in {"retry", "not_committed"}
      BY <3>1
    <3> QED BY <3>2, <3>3, <2>6
  <2> QED BY <2>1, <2>2, <2>3, <2>4, <2>5, <2>6, <1>1, <1>2 DEF Kinds
<1>5. Fate(l, i) = Verdict(r, m, kind)
  BY DEF Fate, r, m, kind
<1>6. Fresh(r, i) <=> kind \in {"deferred", "notRun"} \/ (kind = "ok" /\ r.batch = "not_committed")
  BY <1>3 DEF Fresh, kind
<1> QED BY <1>4, <1>5, <1>6 DEF kind, m, r

LEMMA SettleParts ==
  ASSUME GroupInv, NEW l \in Lane, Settle(l)
  PROVE  /\ reply[l] # None
         /\ outcome' = [m \in Member |->
              IF m \in ToSet(lanes[l]) \ Back(l) THEN CHOOSE v \in Outcomes : m \in Given(l, v)
              ELSE outcome[m]]
         /\ heldCount' = heldCount - Cardinality(ToSet(lanes[l]) \ Back(l))
         /\ attempts' = [m \in Member |->
              IF m \in Given(l, "retry") THEN attempts[m] + 1 ELSE attempts[m]]
         /\ stuck' = stuck \cup {Command[m] : m \in Given(l, "not_reconcilable")}
         /\ reply' = [reply EXCEPT ![l] = None]
         /\ UNCHANGED <<state, zombie, receipts, applied, rogue, order>>
         /\ \E t \in Elapsed(Only(lanes[l], {m \in Member : outcome'[m] = "held"}) \o buffer) :
              Schedule(state, Only(lanes[l], {m \in Member : outcome'[m] = "held"}) \o buffer,
                       [lanes EXCEPT ![l] = <<>>], (deferred \ ToSet(lanes[l])) \cup Given(l, "defer"),
                       forceFlush, backoff \/ Given(l, "retry") # {}, t[1], t[2])
<1> DEFINE verdict == [i \in DOMAIN lanes[l] |-> Verdict(reply[l], lanes[l][i], reply[l].kinds[i])]
           With(v) == {lanes[l][i] : i \in {j \in DOMAIN lanes[l] : verdict[j] = v}}
<1>1. DOMAIN lanes[l] = 1..Len(lanes[l])
  BY DEF GroupInv, Placed
<1>2. \A j \in DOMAIN lanes[l] : verdict[j] = Fate(l, j)
  BY DEF Fate
<1>3. ASSUME NEW v PROVE With(v) = Given(l, v)
  <2> HIDE DEF verdict
  <2> QED BY <1>1, <1>2 DEF Given
<1>4. /\ reply[l] # None
      /\ outcome' = [m \in Member |->
           IF m \in ToSet(lanes[l]) \ (With("retry") \cup With("defer"))
           THEN CHOOSE v \in Outcomes : m \in With(v) ELSE outcome[m]]
      /\ heldCount' = heldCount - Cardinality(ToSet(lanes[l]) \ (With("retry") \cup With("defer")))
      /\ attempts' = [m \in Member |-> IF m \in With("retry") THEN attempts[m] + 1 ELSE attempts[m]]
      /\ stuck' = stuck \cup {Command[m] : m \in With("not_reconcilable")}
      /\ reply' = [reply EXCEPT ![l] = None]
      /\ UNCHANGED <<state, zombie, receipts, applied, rogue, order>>
      /\ \E t \in Elapsed(Only(lanes[l], {m \in Member : outcome'[m] = "held"}) \o buffer) :
           Schedule(state, Only(lanes[l], {m \in Member : outcome'[m] = "held"}) \o buffer,
                    [lanes EXCEPT ![l] = <<>>], (deferred \ ToSet(lanes[l])) \cup With("defer"),
                    forceFlush, backoff \/ With("retry") # {}, t[1], t[2])
  BY Zenon DEF Settle, Requeue
<1> HIDE DEF With
<1>5. /\ With("retry") \cup With("defer") = Back(l) /\ With("retry") = Given(l, "retry")
      /\ With("defer") = Given(l, "defer") /\ With("not_reconcilable") = Given(l, "not_reconcilable")
  BY <1>3, Zenon DEF Back
<1>6. \A m : (CHOOSE v \in Outcomes : m \in With(v)) = (CHOOSE v \in Outcomes : m \in Given(l, v))
  BY <1>3, Zenon
<1>7. outcome' = [m \in Member |->
        IF m \in ToSet(lanes[l]) \ Back(l) THEN CHOOSE v \in Outcomes : m \in Given(l, v)
        ELSE outcome[m]]
  <2> DEFINE One(m) == CHOOSE v \in Outcomes : m \in With(v)
             Other(m) == CHOOSE v \in Outcomes : m \in Given(l, v)
  <2>1. outcome' = [m \in Member |->
          IF m \in ToSet(lanes[l]) \ (With("retry") \cup With("defer")) THEN One(m) ELSE outcome[m]]
    BY <1>4, Zenon
  <2>2. \A m : One(m) = Other(m)
    BY <1>6, Zenon
  <2> HIDE DEF One, Other
  <2>3. outcome' = [m \in Member |-> IF m \in ToSet(lanes[l]) \ Back(l) THEN Other(m) ELSE outcome[m]]
    BY <2>1, <2>2, <1>5
  <2> QED BY <2>3, Zenon DEF Other
<1> QED BY <1>4, <1>5, <1>7, Zenon


\* Each member of the batch gets exactly what its own answer makes of it.
LEMMA GivenFacts ==
  ASSUME GroupInv, NEW l \in Lane, reply[l] # None
  PROVE  /\ \A i \in 1..Len(lanes[l]) : \A v : lanes[l][i] \in Given(l, v) <=> Fate(l, i) = v
         /\ \A i \in 1..Len(lanes[l]) : lanes[l][i] \in Back(l) <=> Fate(l, i) \in {"retry", "defer"}
         /\ Back(l) \subseteq Unrun(lanes[l], reply[l])
         /\ Unrun(lanes[l], reply[l]) \subseteq Clean(lanes[l], reply[l])
         /\ Clean(lanes[l], reply[l]) \subseteq ToSet(lanes[l])
         /\ Enders(lanes[l], reply[l]) = Given(l, "not_reconcilable")
         /\ Given(l, "not_committed") \subseteq Clean(lanes[l], reply[l])
<1>1. \A i, j \in 1..Len(lanes[l]) : lanes[l][i] = lanes[l][j] => i = j
  BY DEF GroupInv, Placed, Once
<1>2. \A i \in 1..Len(lanes[l]) : \A v : lanes[l][i] \in Given(l, v) <=> Fate(l, i) = v
  BY <1>1 DEF Given
<1>3. \A i \in 1..Len(lanes[l]) : lanes[l][i] \in Back(l) <=> Fate(l, i) \in {"retry", "defer"}
  BY <1>2 DEF Back
<1>4. Back(l) \subseteq Unrun(lanes[l], reply[l])
  <2>1. SUFFICES ASSUME NEW m \in Back(l) PROVE m \in Unrun(lanes[l], reply[l])
    OBVIOUS
  <2>2. PICK i \in 1..Len(lanes[l]) : m = lanes[l][i]
    BY <2>1 DEF Back, Given
  <2>3. Fresh(reply[l], i)
    <3>1. Fate(l, i) \in {"retry", "defer"}
      BY <2>1, <2>2, <1>3
    <3>2. Fate(l, i) # "not_committed"
      BY <3>1
    <3> QED BY <3>1, <3>2, FateFacts
  <2> QED BY <2>2, <2>3 DEF Unrun
<1>5. Given(l, "not_committed") \subseteq Clean(lanes[l], reply[l])
  <2>1. SUFFICES ASSUME NEW m \in Given(l, "not_committed") PROVE m \in Clean(lanes[l], reply[l])
    OBVIOUS
  <2>2. PICK i \in 1..Len(lanes[l]) : m = lanes[l][i] /\ Fate(l, i) = "not_committed"
    BY <2>1 DEF Given
  <2>3. Fresh(reply[l], i) \/ reply[l].kinds[i] = "failed"
    BY <2>2, FateFacts
  <2> QED BY <2>2, <2>3 DEF Clean
<1>6. Enders(lanes[l], reply[l]) = Given(l, "not_reconcilable")
  <2>1. \A i \in 1..Len(lanes[l]) : reply[l].kinds[i] = "ender" <=> Fate(l, i) = "not_reconcilable"
    BY FateFacts
  <2> QED BY <2>1 DEF Enders, Given
<1>7. ToSet(lanes[l]) = {lanes[l][i] : i \in 1..Len(lanes[l])}
  BY DEF GroupInv, Placed, ToSet
<1>8. /\ Unrun(lanes[l], reply[l]) \subseteq Clean(lanes[l], reply[l])
      /\ Clean(lanes[l], reply[l]) \subseteq ToSet(lanes[l])
  BY <1>7 DEF Unrun, Clean
<1> QED BY <1>2, <1>3, <1>4, <1>5, <1>6, <1>8

\* A settled member learns its own verdict, the others stay as they are; those that
\* go back to the buffer are still held.
LEMMA SettledOutcomes ==
  ASSUME GroupInv, NEW l \in Lane, Settle(l)
  PROVE  /\ outcome' \in [Member -> Outcomes]
         /\ \A m \in Member \ ToSet(lanes[l]) : outcome'[m] = outcome[m]
         /\ \A m \in ToSet(lanes[l]) : outcome[m] = "held"
         /\ \A m \in Back(l) : outcome'[m] = "held"
         /\ \A i \in 1..Len(lanes[l]) : lanes[l][i] \notin Back(l) =>
              /\ outcome'[lanes[l][i]] = Fate(l, i)
              /\ outcome'[lanes[l][i]] \notin {"held", "new"}
<1>1. /\ reply[l] # None
      /\ outcome' = [m \in Member |->
           IF m \in ToSet(lanes[l]) \ Back(l) THEN CHOOSE v \in Outcomes : m \in Given(l, v)
           ELSE outcome[m]]
  BY SettleParts
<1>2. outcome \in [Member -> Outcomes] /\ lanes[l] \in Seq(Member)
  BY DEF GroupInv, Placed
<1>3. \A m \in ToSet(lanes[l]) : m \in Member /\ outcome[m] = "held"
  <2>1. ToSet(lanes[l]) \subseteq {m \in Member : outcome[m] = "held"}
    BY DEF GroupInv, Placed, Lane
  <2> QED BY <2>1
<1>4. \A i \in 1..Len(lanes[l]) : lanes[l][i] \in ToSet(lanes[l])
  BY <1>2 DEF ToSet
<1>5. ASSUME NEW i \in 1..Len(lanes[l]), lanes[l][i] \notin Back(l)
      PROVE  outcome'[lanes[l][i]] = Fate(l, i) /\ Fate(l, i) \in Outcomes \ {"held", "new"}
  <2>1. \A v : lanes[l][i] \in Given(l, v) <=> Fate(l, i) = v
    BY <1>1, GivenFacts
  <2>2. Fate(l, i) \in Outcomes \ {"held", "new"}
    <3>1. Fate(l, i) \in {"ok", "not_committed", "unknown", "not_reconcilable", "retry", "defer"}
      BY <1>1, FateFacts
    <3>2. Fate(l, i) \notin {"retry", "defer"}
      BY <1>1, <1>5, GivenFacts
    <3> QED BY <3>1, <3>2 DEF Outcomes
  <2>3. (CHOOSE v \in Outcomes : lanes[l][i] \in Given(l, v)) = Fate(l, i)
    BY <2>1, <2>2, Zenon
  <2>4. outcome'[lanes[l][i]] = CHOOSE v \in Outcomes : lanes[l][i] \in Given(l, v)
    BY <1>1, <1>3, <1>4, <1>5, Zenon
  <2> QED BY <2>2, <2>3, <2>4
<1>6. \A m \in Member \ ToSet(lanes[l]) : outcome'[m] = outcome[m]
  BY <1>1, Zenon
<1>7. \A m \in Back(l) : m \in ToSet(lanes[l]) /\ outcome'[m] = "held"
  <2>1. SUFFICES ASSUME NEW m \in Back(l) PROVE m \in ToSet(lanes[l]) /\ outcome'[m] = "held"
    OBVIOUS
  <2>2. m \in ToSet(lanes[l])
    BY <1>4 DEF Back, Given
  <2>3. m \in Member /\ outcome[m] = "held" /\ m \notin ToSet(lanes[l]) \ Back(l)
    BY <2>2, <1>3
  <2>4. outcome'[m] = outcome[m]
    BY <2>3, <1>1, Zenon
  <2> QED BY <2>2, <2>3, <2>4
<1>8. outcome' \in [Member -> Outcomes]
  <2>1. ASSUME NEW m \in Member PROVE outcome'[m] \in Outcomes
    <3>1. CASE m \notin ToSet(lanes[l])
      BY <3>1, <1>2, <1>6
    <3>2. CASE m \in Back(l)
      BY <3>2, <1>7 DEF Outcomes
    <3>3. CASE m \in ToSet(lanes[l]) /\ m \notin Back(l)
      <4>1. PICK i \in 1..Len(lanes[l]) : m = lanes[l][i]
        BY <3>3, <1>2 DEF ToSet
      <4> QED BY <4>1, <3>3, <1>5
    <3> QED BY <3>1, <3>2, <3>3
  <2>2. DOMAIN outcome' = Member /\ outcome' = [m \in Member |-> outcome'[m]]
    BY <1>1
  <2> QED BY <2>1, <2>2
<1> QED BY <1>3, <1>5, <1>6, <1>7, <1>8


LEMMA JoinFacts ==
  ASSUME NEW s \in Seq(Member), NEW t \in Seq(Member), Once(s), Once(t), ToSet(s) \cap ToSet(t) = {}
  PROVE  /\ s \o t \in Seq(Member) /\ Once(s \o t)
         /\ ToSet(s \o t) = ToSet(s) \cup ToSet(t)
         /\ Len(s \o t) = Len(s) + Len(t)
  BY ConcatFacts

\* The members that go back, in the order of their batch, in front of the buffer.
LEMMA RequeuedFacts ==
  ASSUME GroupInv, NEW l \in Lane, Settle(l),
         NEW again, again = Only(lanes[l], {m \in Member : outcome'[m] = "held"})
  PROVE  /\ again \in Seq(Member) /\ Once(again) /\ ToSet(again) = Back(l)
         /\ \A o : Sorted(o, lanes[l]) => Sorted(o, again)
         /\ again \o buffer \in Seq(Member) /\ Once(again \o buffer)
         /\ ToSet(again \o buffer) = Back(l) \cup ToSet(buffer)
         /\ Len(again \o buffer) = Len(again) + Len(buffer)
         /\ Len(again) \in Nat
         /\ Cardinality(ToSet(lanes[l]) \ Back(l)) = Len(lanes[l]) - Len(again)
<1>1. /\ lanes[l] \in Seq(Member) /\ Once(lanes[l]) /\ buffer \in Seq(Member) /\ Once(buffer)
      /\ ToSet(lanes[l]) \cap ToSet(buffer) = {}
  BY DEF GroupInv, Placed
<1>2. /\ again \in Seq(Member) /\ Once(again)
      /\ ToSet(again) = ToSet(lanes[l]) \cap {m \in Member : outcome'[m] = "held"}
      /\ \A o : Sorted(o, lanes[l]) => Sorted(o, again)
  BY <1>1, OnlyFacts
<1>3. ToSet(again) = Back(l) /\ Back(l) \subseteq ToSet(lanes[l])
  <2>1. ToSet(lanes[l]) \subseteq Member /\ \A m \in ToSet(lanes[l]) : \E i \in 1..Len(lanes[l]) : m = lanes[l][i]
    BY <1>1 DEF ToSet
  <2>2. Back(l) \subseteq ToSet(lanes[l])
    BY <1>1 DEF Back, Given, ToSet
  <2>3. \A m \in Back(l) : outcome'[m] = "held"
    BY SettledOutcomes
  <2>4. \A i \in 1..Len(lanes[l]) : lanes[l][i] \notin Back(l) => outcome'[lanes[l][i]] # "held"
    BY SettledOutcomes
  <2>5. \A m \in ToSet(lanes[l]) : m \notin Back(l) => outcome'[m] # "held"
    BY <2>1, <2>4
  <2> QED BY <2>1, <2>2, <2>3, <2>5, <1>2
<1>4. /\ again \o buffer \in Seq(Member) /\ Once(again \o buffer)
      /\ ToSet(again \o buffer) = Back(l) \cup ToSet(buffer)
      /\ Len(again \o buffer) = Len(again) + Len(buffer)
  <2>1. /\ ToSet(again) \cap ToSet(buffer) = {} /\ Once(again) /\ Once(buffer)
        /\ again \in Seq(Member) /\ buffer \in Seq(Member)
    BY <1>1, <1>2, <1>3
  <2>2. /\ again \o buffer \in Seq(Member) /\ Once(again \o buffer)
        /\ ToSet(again \o buffer) = ToSet(again) \cup ToSet(buffer)
        /\ Len(again \o buffer) = Len(again) + Len(buffer)
    BY <2>1, JoinFacts
  <2> QED BY <2>2, <1>3
<1>5. Cardinality(ToSet(lanes[l]) \ Back(l)) = Len(lanes[l]) - Len(again)
  <2> DEFINE whole == ToSet(lanes[l])
             done == whole \ Back(l)
  <2>1. /\ IsFiniteSet(whole) /\ Cardinality(whole) = Len(lanes[l])
        /\ IsFiniteSet(Back(l)) /\ Cardinality(Back(l)) = Len(again)
    BY <1>1, <1>2, <1>3, OnceLength
  <2>2. whole = done \cup Back(l) /\ done \cap Back(l) = {}
    BY <1>3
  <2>3. IsFiniteSet(done) /\ Cardinality(done) \in Nat
    BY <2>1, FS_Subset, FS_CardinalityType
  <2> HIDE DEF whole, done
  <2>4. Cardinality(whole) = Cardinality(done) + Cardinality(Back(l)) - Cardinality({})
    BY <2>1, <2>2, <2>3, FS_Union
  <2>5. Cardinality({}) = 0
    BY FS_EmptySet
  <2>6. Len(lanes[l]) = Cardinality(done) + Len(again)
    BY <2>1, <2>3, <2>4, <2>5, <1>2
  <2>7. Cardinality(done) = Len(lanes[l]) - Len(again)
    BY <2>3, <2>6, <1>1, <1>2
  <2> QED BY <2>7 DEF done, whole
<1> QED BY <1>2, <1>3, <1>4, <1>5

LEMMA SettledPlaces ==
  ASSUME GroupInv, NEW l \in Lane, Settle(l),
         NEW b, b = Only(lanes[l], {m \in Member : outcome'[m] = "held"}) \o buffer,
         NEW L, L = [lanes EXCEPT ![l] = <<>>]
  PROVE  Placed(b, L, outcome', heldCount') /\ Batches(L, reply')
<1> DEFINE again == Only(lanes[l], {m \in Member : outcome'[m] = "held"})
<1>1. /\ Len(again) \in Nat /\ b \in Seq(Member) /\ Once(b) /\ ToSet(b) = Back(l) \cup ToSet(buffer)
      /\ Len(b) = Len(again) + Len(buffer)
      /\ Cardinality(ToSet(lanes[l]) \ Back(l)) = Len(lanes[l]) - Len(again)
  BY RequeuedFacts
<1>2. /\ outcome' \in [Member -> Outcomes]
      /\ \A m \in Member \ ToSet(lanes[l]) : outcome'[m] = outcome[m]
      /\ \A m \in Back(l) : outcome'[m] = "held"
      /\ \A i \in 1..Len(lanes[l]) : lanes[l][i] \notin Back(l) => outcome'[lanes[l][i]] # "held"
  BY SettledOutcomes
<1>3. /\ buffer \in Seq(Member) /\ lanes \in [Lane -> Seq(Member)]
      /\ \A k \in Lane : Once(lanes[k]) /\ ToSet(lanes[k]) \cap ToSet(buffer) = {}
      /\ ToSet(lanes["main"]) \cap ToSet(lanes["priority"]) = {}
      /\ {m \in Member : outcome[m] = "held"}
           = ToSet(buffer) \cup ToSet(lanes["main"]) \cup ToSet(lanes["priority"])
      /\ heldCount = Len(buffer) + Len(lanes["main"]) + Len(lanes["priority"])
  BY DEF GroupInv, Placed
<1>4. heldCount' = heldCount - (Len(lanes[l]) - Len(again)) /\ reply' = [reply EXCEPT ![l] = None]
  BY <1>1, SettleParts
<1> HIDE DEF again
<1>5. Lane = {"main", "priority"}
  BY DEF Lane
<1>6. /\ L \in [Lane -> Seq(Member)] /\ L[l] = <<>> /\ ToSet(L[l]) = {} /\ Len(L[l]) = 0 /\ Once(L[l])
      /\ \A k \in Lane : k # l => L[k] = lanes[k]
  <2>1. <<>> \in Seq(Member) /\ Len(<<>>) = 0 /\ ToSet(<<>>) = {} /\ Once(<<>>)
    BY DEF ToSet, Once
  <2> QED BY <2>1, <1>3
<1>7. Back(l) \subseteq ToSet(lanes[l]) /\ ToSet(lanes[l]) \subseteq Member
      /\ \A m \in ToSet(lanes[l]) : \E i \in 1..Len(lanes[l]) : m = lanes[l][i]
  BY <1>3 DEF Back, Given, ToSet
<1>8. \A k \in Lane : k # l => ToSet(lanes[k]) \cap ToSet(lanes[l]) = {}
  BY <1>3, <1>5
<1>9. \A k \in Lane : Once(L[k]) /\ ToSet(L[k]) \cap ToSet(b) = {}
  BY <1>1, <1>3, <1>6, <1>7, <1>8
<1>10. {m \in Member : outcome'[m] = "held"} = ToSet(b) \cup ToSet(L["main"]) \cup ToSet(L["priority"])
  <2>1. \A m \in ToSet(lanes[l]) : m \notin Back(l) => outcome'[m] # "held"
    BY <1>2, <1>7
  <2>2. {m \in Member : outcome'[m] = "held"} = Back(l) \cup ({m \in Member : outcome[m] = "held"} \ ToSet(lanes[l]))
    BY <2>1, <1>2, <1>7
  <2>3. ToSet(L["main"]) \cup ToSet(L["priority"])
          = (ToSet(lanes["main"]) \cup ToSet(lanes["priority"])) \ ToSet(lanes[l])
    BY <1>3, <1>5, <1>6, <1>8
  <2> QED BY <2>2, <2>3, <1>1, <1>3
<1>11. heldCount' = Len(b) + Len(L["main"]) + Len(L["priority"])
  <2> DEFINE i == Len(buffer)
             j == Len(lanes["main"])
             k == Len(lanes["priority"])
             n == Len(again)
  <2>1. i \in Nat /\ j \in Nat /\ k \in Nat /\ n \in Nat /\ heldCount = i + j + k /\ Len(b) = n + i
    BY <1>1, <1>3, <1>5
  <2>2. CASE l = "main"
    <3>1. heldCount' = heldCount - (j - n) /\ Len(L["main"]) = 0 /\ Len(L["priority"]) = k
      BY <2>2, <1>4, <1>5, <1>6
    <3> HIDE DEF i, j, k, n
    <3>2. heldCount' = (n + i) + 0 + k
      BY <3>1, <2>1
    <3> QED BY <3>1, <3>2, <2>1
  <2>3. CASE l = "priority"
    <3>1. heldCount' = heldCount - (k - n) /\ Len(L["main"]) = j /\ Len(L["priority"]) = 0
      BY <2>3, <1>4, <1>5, <1>6
    <3> HIDE DEF i, j, k, n
    <3>2. heldCount' = (n + i) + j + 0
      BY <3>1, <2>1
    <3> QED BY <3>1, <3>2, <2>1
  <2> QED BY <2>2, <2>3, <1>5
<1>12. ToSet(L["main"]) \cap ToSet(L["priority"]) = {}
  BY <1>3, <1>5, <1>6
<1>13. Batches(L, reply')
  <2>1. Batches(lanes, reply)
    BY DEF GroupInv
  <2>2. reply' \in [Lane -> Reply \cup {None}] /\ reply'[l] = None /\ \A k \in Lane : k # l => reply'[k] = reply[k]
    BY <2>1, <1>4 DEF Batches
  <2>3. 0 <= MaxBatchCount
    BY GroupCommitAssumption
  <2>4. ASSUME NEW k \in Lane
        PROVE  /\ Len(L[k]) <= MaxBatchCount
               /\ L[k] = <<>> => reply'[k] = None
               /\ reply'[k] # None => Len(reply'[k].kinds) = Len(L[k])
               /\ reply'[k] # None /\ reply'[k].batch = "committed" =>
                    \A i \in 1..Len(L[k]) : reply'[k].kinds[i] \in {"ok", "failed", "deferred"}
    <3>1. CASE k = l
      BY <3>1, <2>2, <2>3, <1>6
    <3>2. CASE k # l
      <4>1. L[k] = lanes[k] /\ reply'[k] = reply[k]
        BY <3>2, <2>2, <1>6
      <4> QED BY <4>1, <2>1 DEF Batches
    <3> QED BY <3>1, <3>2
  <2>5. ToSet(L["priority"]) \subseteq Priority
    BY <2>1, <1>5, <1>6 DEF Batches
  <2> QED BY <2>2, <2>4, <2>5 DEF Batches
<1>14. Placed(b, L, outcome', heldCount')
  BY <1>1, <1>2, <1>6, <1>9, <1>10, <1>11, <1>12 DEF Placed
<1> QED BY <1>13, <1>14


LEMMA SettledTruths ==
  ASSUME GroupInv, NEW l \in Lane, Settle(l),
         NEW b, b = Only(lanes[l], {m \in Member : outcome'[m] = "held"}) \o buffer,
         NEW L, L = [lanes EXCEPT ![l] = <<>>]
  PROVE  Truths(b, L, reply', outcome', receipts, applied, zombie, rogue)
<1>0. /\ Truths(buffer, lanes, reply, outcome, receipts, applied, zombie, rogue)
      /\ lanes \in [Lane -> Seq(Member)] /\ reply \in [Lane -> Reply \cup {None}]
      /\ ToSet(applied) \subseteq Member
  BY DEF GroupInv, Placed, Batches, Rest, ToSet
<1>1. ToSet(b) = Back(l) \cup ToSet(buffer)
  BY RequeuedFacts
<1>2. /\ \A m \in Member \ ToSet(lanes[l]) : outcome'[m] = outcome[m]
      /\ \A m \in ToSet(lanes[l]) : outcome[m] = "held"
      /\ \A m \in Back(l) : outcome'[m] = "held"
      /\ \A i \in 1..Len(lanes[l]) : lanes[l][i] \notin Back(l) =>
           outcome'[lanes[l][i]] = Fate(l, i) /\ outcome'[lanes[l][i]] \notin {"held", "new"}
  BY SettledOutcomes
<1>3. reply[l] # None /\ reply' = [reply EXCEPT ![l] = None]
  BY SettleParts
<1>4. /\ Back(l) \subseteq Unrun(lanes[l], reply[l])
      /\ Unrun(lanes[l], reply[l]) \subseteq Clean(lanes[l], reply[l])
      /\ Enders(lanes[l], reply[l]) = Given(l, "not_reconcilable")
      /\ Given(l, "not_committed") \subseteq Clean(lanes[l], reply[l])
      /\ \A i \in 1..Len(lanes[l]) : \A v : lanes[l][i] \in Given(l, v) <=> Fate(l, i) = v
      /\ \A i \in 1..Len(lanes[l]) : lanes[l][i] \in Back(l) <=> Fate(l, i) \in {"retry", "defer"}
  BY <1>3, GivenFacts
<1>5. Lane = {"main", "priority"}
  BY DEF Lane
<1>6. /\ L[l] = <<>> /\ reply'[l] = None
      /\ \A k \in Lane : k # l => L[k] = lanes[k] /\ reply'[k] = reply[k]
  BY <1>0, <1>3
<1>7. Clean(<<>>, None) = {}
  BY DEF Clean
<1>8. \A m \in ToSet(lanes[l]) : \E i \in 1..Len(lanes[l]) : m = lanes[l][i]
  BY <1>0 DEF ToSet
<1>9. Untouched(b, L, reply', outcome') \subseteq Untouched(buffer, lanes, reply, outcome)
  <2>1. ASSUME NEW m \in Member, outcome'[m] \in {"new", "not_committed"}
        PROVE  m \in Untouched(buffer, lanes, reply, outcome)
    <3>1. CASE m \notin ToSet(lanes[l])
      <4>1. outcome[m] \in {"new", "not_committed"}
        BY <3>1, <2>1, <1>2
      <4> QED BY <4>1, <2>1 DEF Untouched
    <3>2. CASE m \in ToSet(lanes[l])
      <4>1. PICK i \in 1..Len(lanes[l]) : m = lanes[l][i]
        BY <3>2, <1>8
      <4>2. m \notin Back(l)
        BY <2>1, <1>2
      <4>3. Fate(l, i) = "not_committed"
        BY <4>1, <4>2, <2>1, <1>2
      <4>4. m \in Clean(lanes[l], reply[l])
        BY <4>1, <4>3, <1>4
      <4> QED BY <4>4, <1>5 DEF Untouched
    <3> QED BY <3>1, <3>2
  <2>2. ToSet(b) \subseteq Untouched(buffer, lanes, reply, outcome)
    BY <1>1, <1>4, <1>5 DEF Untouched
  <2>3. \A k \in Lane : Clean(L[k], reply'[k]) \subseteq Clean(lanes[k], reply[k])
    BY <1>6, <1>7
  <2>4. \A k \in Lane : Clean(lanes[k], reply[k]) \subseteq Untouched(buffer, lanes, reply, outcome)
    BY <1>5 DEF Untouched
  <2>5. Untouched(b, L, reply', outcome') = {m \in Member : outcome'[m] \in {"new", "not_committed"}}
          \cup ToSet(b) \cup Clean(L["main"], reply'["main"]) \cup Clean(L["priority"], reply'["priority"])
    BY Zenon DEF Untouched
  <2> QED BY <2>1, <2>2, <2>3, <2>4, <2>5, <1>5
<1>10. ASSUME NEW m \in Member, outcome'[m] = "ok" PROVE receipts[Command[m]] = Digest[m]
  <2>1. CASE m \notin ToSet(lanes[l])
    BY <2>1, <1>0, <1>2, <1>10 DEF Truths
  <2>2. CASE m \in ToSet(lanes[l])
    <3>1. PICK i \in 1..Len(lanes[l]) : m = lanes[l][i]
      BY <2>2, <1>8
    <3>2. Fate(l, i) = "ok"
      BY <3>1, <1>2, <1>10
    <3>3. reply[l].kinds[i] = "ok" /\ reply[l].batch = "committed"
      BY <3>2, <1>3, FateFacts
    <3> QED BY <3>1, <3>3, <1>0, <1>3 DEF Truths
  <2> QED BY <2>1, <2>2
<1>11. ASSUME NEW k \in Lane, NEW i \in 1..Len(L[k]),
              reply'[k] # None, reply'[k].batch = "committed", reply'[k].kinds[i] = "ok"
       PROVE  receipts[Command[L[k][i]]] = Digest[L[k][i]]
  <2>1. L[k] = lanes[k] /\ reply'[k] = reply[k]
    BY <1>6, <1>11
  <2> QED BY <2>1, <1>0, <1>11 DEF Truths
<1>12. ASSUME NEW m \in ToSet(applied), receipts[Command[m]] # Digest[m]
       PROVE  \/ outcome'[m] = "not_reconcilable"
              \/ \E k \in Lane : m \in Enders(L[k], reply'[k])
  <2>1. m \in Member /\ (outcome[m] = "not_reconcilable" \/ \E k \in Lane : m \in Enders(lanes[k], reply[k]))
    BY <1>0, <1>12 DEF Truths
  <2>2. CASE outcome[m] = "not_reconcilable"
    <3>1. m \notin ToSet(lanes[l])
      BY <2>2, <1>2
    <3> QED BY <3>1, <2>1, <2>2, <1>2
  <2>3. CASE \E k \in Lane : m \in Enders(lanes[k], reply[k])
    <3>1. PICK k \in Lane : m \in Enders(lanes[k], reply[k])
      BY <2>3
    <3>2. CASE k # l
      BY <3>1, <3>2, <1>6
    <3>3. CASE k = l
      <4>1. m \in Given(l, "not_reconcilable")
        BY <3>1, <3>3, <1>4
      <4>2. PICK i \in 1..Len(lanes[l]) : m = lanes[l][i] /\ Fate(l, i) = "not_reconcilable"
        BY <4>1 DEF Given
      <4>3. m \notin Back(l)
        BY <4>2, <1>4
      <4> QED BY <4>2, <4>3, <1>2
    <3> QED BY <3>2, <3>3
  <2> QED BY <2>1, <2>2, <2>3
<1>13. Untouched(b, L, reply', outcome') \cap (ToSet(applied) \cup ToSet(zombie)) = {}
  BY <1>0, <1>9 DEF Truths
<1>14. \A m \in ToSet(applied) :
         \/ receipts[Command[m]] = Digest[m]
         \/ outcome'[m] = "not_reconcilable"
         \/ \E k \in Lane : m \in Enders(L[k], reply'[k])
  BY <1>12
<1>15. /\ \A m \in ToSet(applied) : receipts[Command[m]] # None \/ Command[m] \in rogue
       /\ \A m, n \in ToSet(applied) : m # n /\ Command[m] = Command[n] => Command[m] \in rogue
  BY <1>0, Zenon DEF Truths
<1> QED BY <1>10, <1>11, <1>13, <1>14, <1>15, Zenon DEF Truths


\* No member is put off in the buffer while a batch is in flight: after settling the
\* members put off there are those of this batch, and then they are all that go back.
LEMMA SettledPutOff ==
  ASSUME GroupInv, NEW l \in Lane, Settle(l),
         NEW b, b = Only(lanes[l], {m \in Member : outcome'[m] = "held"}) \o buffer,
         NEW p, p = (deferred \ ToSet(lanes[l])) \cup Given(l, "defer")
  PROVE  /\ p \subseteq Member
         /\ p \cap ToSet(b) = Given(l, "defer")
         /\ Given(l, "defer") # {} => Given(l, "retry") = {} /\ ToSet(b) \ p = ToSet(buffer)
<1>1. /\ lanes[l] \in Seq(Member) /\ PutOff(buffer, lanes, deferred, backoff)
      /\ ToSet(lanes[l]) \cap ToSet(buffer) = {} /\ (lanes[l] = <<>> => reply[l] = None)
  BY DEF GroupInv, Placed, Batches
<1>2. reply[l] # None
  BY SettleParts
<1>3. deferred \cap ToSet(buffer) = {}
  <2>1. lanes["main"] # <<>> \/ lanes["priority"] # <<>>
    BY <1>1, <1>2 DEF Lane
  <2> QED BY <2>1, <1>1 DEF PutOff, Fit
<1>4. Back(l) \subseteq ToSet(lanes[l]) /\ ToSet(lanes[l]) \subseteq Member
  BY <1>1 DEF Back, Given, ToSet
<1>5. ToSet(b) = Back(l) \cup ToSet(buffer)
  BY RequeuedFacts
<1>6. Given(l, "defer") \subseteq Back(l)
  BY DEF Back
<1>7. p \cap ToSet(b) = Given(l, "defer")
  BY <1>1, <1>3, <1>4, <1>5, <1>6
<1>8. p \subseteq Member
  BY <1>1, <1>4, <1>6 DEF PutOff, Fit
<1>9. ASSUME Given(l, "defer") # {} PROVE Given(l, "retry") = {}
  <2>1. PICK i \in 1..Len(lanes[l]) : Fate(l, i) = "defer"
    BY <1>9 DEF Given
  <2>2. reply[l].batch = "committed"
    BY <2>1, <1>2, FateFacts
  <2>3. \A j \in 1..Len(lanes[l]) : Fate(l, j) # "retry"
    BY <2>2, <1>2, FateFacts
  <2> QED BY <2>3 DEF Given
<1>10. ASSUME Given(l, "defer") # {} PROVE ToSet(b) \ p = ToSet(buffer)
  <2>1. Back(l) = Given(l, "defer")
    BY <1>9, <1>10 DEF Back
  <2> QED BY <2>1, <1>1, <1>3, <1>4, <1>5
<1> QED BY <1>7, <1>8, <1>9, <1>10

LEMMA SettledOrder ==
  ASSUME GroupInv, NEW l \in Lane, Settle(l),
         NEW b, b = Only(lanes[l], {m \in Member : outcome'[m] = "held"}) \o buffer,
         NEW L, L = [lanes EXCEPT ![l] = <<>>],
         NEW p, p = (deferred \ ToSet(lanes[l])) \cup Given(l, "defer")
  PROVE  Ordered(b, L, reply', p, outcome', order, applied, zombie)
<1> DEFINE again == Only(lanes[l], {m \in Member : outcome'[m] = "held"})
<1>0. /\ Ordered(buffer, lanes, reply, deferred, outcome, order, applied, zombie)
      /\ lanes \in [Lane -> Seq(Member)] /\ reply \in [Lane -> Reply \cup {None}]
      /\ ToSet(lanes["priority"]) \subseteq Priority /\ buffer \in Seq(Member)
      /\ Lane = {"main", "priority"}
  BY DEF GroupInv, Placed, Batches, Lane
<1>1. /\ again \in Seq(Member) /\ ToSet(again) = Back(l) /\ b = again \o buffer
      /\ ToSet(b) = Back(l) \cup ToSet(buffer)
      /\ \A o : Sorted(o, lanes[l]) => Sorted(o, again)
  BY RequeuedFacts
<1> HIDE DEF again
<1>2. /\ \A m \in Member \ ToSet(lanes[l]) : outcome'[m] = outcome[m]
      /\ \A m \in ToSet(lanes[l]) : outcome[m] = "held"
      /\ \A m \in Back(l) : outcome'[m] = "held"
      /\ \A i \in 1..Len(lanes[l]) : lanes[l][i] \notin Back(l) => outcome'[lanes[l][i]] # "new"
  BY SettledOutcomes
<1>3. reply[l] # None /\ reply' = [reply EXCEPT ![l] = None]
  BY SettleParts
<1>4. /\ L[l] = <<>> /\ reply'[l] = None
      /\ \A k \in Lane : k # l => L[k] = lanes[k] /\ reply'[k] = reply[k]
  BY <1>0, <1>3
<1>5. /\ Back(l) \subseteq Unrun(lanes[l], reply[l]) /\ Back(l) \subseteq ToSet(lanes[l])
      /\ Unrun(<<>>, None) = {}
  <2>1. /\ Back(l) \subseteq Unrun(lanes[l], reply[l])
        /\ Unrun(lanes[l], reply[l]) \subseteq Clean(lanes[l], reply[l])
        /\ Clean(lanes[l], reply[l]) \subseteq ToSet(lanes[l])
    BY <1>3, GivenFacts
  <2>2. Unrun(<<>>, None) = {}
    BY DEF Unrun
  <2> QED BY <2>1, <2>2
<1>6. ToSet(lanes[l]) \subseteq Member /\ \A m \in ToSet(lanes[l]) : \E i \in 1..Len(lanes[l]) : m = lanes[l][i]
  BY <1>0 DEF ToSet
<1>7. \A m \in Member : outcome'[m] = "new" <=> outcome[m] = "new"
  <2>1. \A m \in ToSet(lanes[l]) : outcome'[m] # "new" /\ outcome[m] # "new"
    BY <1>2, <1>6
  <2> QED BY <2>1, <1>2
<1>8. Sorted(order, lanes[l]) /\ Ahead(order, ToSet(lanes[l]), ToSet(buffer))
  <2>1. CASE l = "main"
    BY <2>1, <1>0, Zenon DEF Ordered
  <2>2. CASE l = "priority"
    <3>1. \A i \in 1..Len(lanes[l]) : lanes[l][i] \in Priority
      BY <2>2, <1>0 DEF ToSet
    <3> QED BY <3>1, <2>2, <1>0 DEF Sorted, Ahead
  <2> QED BY <2>1, <2>2, <1>0
<1>9. Sorted(order, b)
  <2>1. Sorted(order, again) /\ Sorted(order, buffer)
    BY <1>0, <1>1, <1>8 DEF Ordered
  <2>2. Ahead(order, ToSet(again), ToSet(buffer))
    BY <1>1, <1>5, <1>8 DEF Ahead
  <2>3. again \in Seq(Member) /\ buffer \in Seq(Member)
    BY <1>0, <1>1
  <2>4. Sorted(order, again \o buffer)
    BY <2>1, <2>2, <2>3, SortedConcat, Zenon
  <2> QED BY <2>4, <1>1
<1>10. Sorted(order, L["main"]) /\ Ahead(order, ToSet(L["main"]), ToSet(b))
  <2>1. CASE l = "main"
    <3>1. L["main"] = <<>> /\ ToSet(L["main"]) = {}
      BY <2>1, <1>4 DEF ToSet
    <3> QED BY <3>1 DEF Sorted, Ahead
  <2>2. CASE l = "priority"
    <3>1. L["main"] = lanes["main"] /\ Back(l) \subseteq Priority
      BY <2>2, <1>0, <1>4, <1>5
    <3>2. Sorted(order, lanes["main"]) /\ Ahead(order, ToSet(lanes["main"]), ToSet(buffer))
      BY <1>0, Zenon DEF Ordered
    <3> QED BY <3>1, <3>2, <1>1 DEF Ahead
  <2> QED BY <2>1, <2>2, <1>0
<1>11. Ahead(order, ToSet(applied) \cup ToSet(zombie), Unrun(L["main"], reply'["main"]) \cup ToSet(b))
  <2>1. Ahead(order, ToSet(applied) \cup ToSet(zombie), Unrun(lanes["main"], reply["main"]) \cup ToSet(buffer))
    BY <1>0, Zenon DEF Ordered
  <2>2. CASE l = "main"
    <3>1. Unrun(L["main"], reply'["main"]) = {} /\ Back(l) \subseteq Unrun(lanes["main"], reply["main"])
      BY <2>2, <1>4, <1>5
    <3> QED BY <3>1, <2>1, <1>1 DEF Ahead
  <2>3. CASE l = "priority"
    <3>1. L["main"] = lanes["main"] /\ reply'["main"] = reply["main"] /\ Back(l) \subseteq Priority
      BY <2>3, <1>0, <1>4, <1>5
    <3> QED BY <3>1, <2>1, <1>1 DEF Ahead
  <2> QED BY <2>2, <2>3, <1>0
<1>12. Ahead(order, p \cap ToSet(b), ToSet(b) \ p)
  <2>1. /\ p \cap ToSet(b) = Given(l, "defer")
        /\ Given(l, "defer") # {} => ToSet(b) \ p = ToSet(buffer)
    BY SettledPutOff
  <2>2. Given(l, "defer") \subseteq ToSet(lanes[l])
    BY <1>5 DEF Back
  <2> QED BY <2>1, <2>2, <1>8 DEF Ahead
<1>13. {m \in Member : m \notin Priority /\ outcome'[m] # "new"}
         = {m \in Member : m \notin Priority /\ outcome[m] # "new"}
  BY <1>7
<1>14. \A m \in p : outcome'[m] # "new"
  <2>1. \A m \in deferred : m \in Member /\ outcome[m] # "new"
    BY <1>0 DEF GroupInv, PutOff, Fit, Ordered
  <2>2. \A m \in Given(l, "defer") : outcome'[m] # "new"
    BY <1>2 DEF Back
  <2> QED BY <2>1, <2>2, <1>7
<1>15. /\ order \in Seq(Member) /\ Once(order) /\ Sorted(order, applied) /\ Sorted(order, zombie)
       /\ ToSet(order) = {m \in Member : m \notin Priority /\ outcome'[m] # "new"}
       /\ Ahead(order, ToSet(applied), ToSet(zombie))
  BY <1>0, <1>13 DEF Ordered
<1> QED BY <1>9, <1>10, <1>11, <1>12, <1>14, <1>15, Zenon DEF Ordered

\* What the batch puts off fits the next one, and a free lane takes it; a member is
\* only sent again while it has attempts left.
LEMMA SettledFit ==
  ASSUME GroupInv, NEW l \in Lane, Settle(l),
         NEW b, b = Only(lanes[l], {m \in Member : outcome'[m] = "held"}) \o buffer,
         NEW L, L = [lanes EXCEPT ![l] = <<>>],
         NEW p, p = (deferred \ ToSet(lanes[l])) \cup Given(l, "defer"),
         NEW w, w <=> backoff \/ Given(l, "retry") # {}
  PROVE  /\ Fit(b, L, p, w)
         /\ attempts' \in [Member -> 0..(MaxFlushAttempts - 1)] /\ stuck' \subseteq Commands
<1>0. /\ PutOff(buffer, lanes, deferred, backoff) /\ Rest /\ Lane = {"main", "priority"}
      /\ lanes \in [Lane -> Seq(Member)] /\ ToSet(lanes["priority"]) \subseteq Priority
      /\ lanes[l] \in Seq(Member) /\ Once(lanes[l]) /\ Len(lanes[l]) <= MaxBatchCount
      /\ (lanes[l] = <<>> => reply[l] = None)
  BY DEF GroupInv, Placed, Batches, Lane
<1>1. /\ reply[l] # None
      /\ attempts' = [m \in Member |-> IF m \in Given(l, "retry") THEN attempts[m] + 1 ELSE attempts[m]]
      /\ stuck' = stuck \cup {Command[m] : m \in Given(l, "not_reconcilable")}
  BY SettleParts
<1>2. /\ p \subseteq Member /\ p \cap ToSet(b) = Given(l, "defer")
      /\ Given(l, "defer") # {} => Given(l, "retry") = {}
  BY SettledPutOff
<1>3. ToSet(lanes[l]) \subseteq Member /\ \A v : Given(l, v) \subseteq ToSet(lanes[l])
  BY <1>0 DEF Given, ToSet
<1>4. /\ L[l] = <<>> /\ \A k \in Lane : k # l => L[k] = lanes[k]
  BY <1>0
<1>5. Cardinality(p \cap ToSet(b)) <= MaxBatchCount
  <2>1. IsFiniteSet(ToSet(lanes[l])) /\ Cardinality(ToSet(lanes[l])) = Len(lanes[l])
    BY <1>0, OnceLength
  <2>2. /\ IsFiniteSet(Given(l, "defer")) /\ Cardinality(Given(l, "defer")) \in Nat
        /\ Cardinality(Given(l, "defer")) <= Len(lanes[l])
    BY <2>1, <1>3, FS_Subset, FS_CardinalityType
  <2>3. MaxBatchCount \in Nat /\ Len(lanes[l]) \in Nat
    BY <1>0, GroupCommitAssumption
  <2>4. Cardinality(Given(l, "defer")) <= MaxBatchCount
    BY <2>2, <2>3, <1>0
  <2> QED BY <2>4, <1>2
<1>6. backoff => \A k \in Lane : k # l => lanes[k] = <<>>
  <2>1. backoff => \E k \in Lane : lanes[k] = <<>>
    BY <1>0 DEF PutOff, Fit
  <2>2. lanes[l] # <<>>
    BY <1>0, <1>1
  <2> QED BY <2>1, <2>2, <1>0
<1>7. ASSUME p \cap ToSet(b) # {}
      PROVE  \/ L["main"] = <<>> /\ (w => L["priority"] = <<>>)
             \/ ~ w /\ L["priority"] = <<>> /\ p \cap ToSet(b) \subseteq Priority
  <2>1. w => backoff
    BY <1>2, <1>7
  <2>2. CASE l = "main"
    BY <2>1, <2>2, <1>0, <1>4, <1>6
  <2>3. CASE l = "priority"
    <3>1. p \cap ToSet(b) \subseteq Priority
      BY <2>3, <1>0, <1>2, <1>3
    <3> QED BY <3>1, <2>1, <2>3, <1>0, <1>4, <1>6
  <2> QED BY <2>2, <2>3, <1>0
<1>8. Fit(b, L, p, w)
  BY <1>2, <1>4, <1>5, <1>7 DEF Fit
<1>9. attempts' \in [Member -> 0..(MaxFlushAttempts - 1)]
  <2>1. MaxFlushAttempts \in Nat /\ attempts \in [Member -> 0..(MaxFlushAttempts - 1)]
    BY <1>0, GroupCommitAssumption DEF Rest
  <2>2. ASSUME NEW m \in Given(l, "retry") PROVE attempts[m] + 1 < MaxFlushAttempts
    <3>1. PICK i \in 1..Len(lanes[l]) : m = lanes[l][i] /\ Fate(l, i) = "retry"
      BY <2>2 DEF Given
    <3> QED BY <3>1, <1>1, FateFacts
  <2> QED BY <2>1, <2>2, <1>1
<1>10. stuck' \subseteq Commands
  BY <1>0, <1>1, <1>3 DEF Rest, Commands
<1> QED BY <1>8, <1>9, <1>10

LEMMA SettleKeeps ==
  ASSUME GroupInv, NEW l \in Lane, Settle(l)
  PROVE  GroupInv'
<1> DEFINE b == Only(lanes[l], {m \in Member : outcome'[m] = "held"}) \o buffer
           L == [lanes EXCEPT ![l] = <<>>]
           p == (deferred \ ToSet(lanes[l])) \cup Given(l, "defer")
           w == backoff \/ Given(l, "retry") # {}
<1>1. /\ UNCHANGED <<state, zombie, receipts, applied, rogue, order>>
      /\ \E t \in Elapsed(b) : Schedule(state, b, L, p, forceFlush, w, t[1], t[2])
  BY SettleParts
<1>2. PICK t \in Elapsed(b) : Schedule(state, b, L, p, forceFlush, w, t[1], t[2])
  BY <1>1
<1>3. Placed(b, L, outcome', heldCount') /\ Batches(L, reply')
  BY SettledPlaces
<1>4. Truths(b, L, reply', outcome', receipts, applied, zombie, rogue)
  BY SettledTruths
<1>5. Ordered(b, L, reply', p, outcome', order, applied, zombie)
  BY SettledOrder
<1>6. w \in BOOLEAN /\ forceFlush \in BOOLEAN /\ state \in {"open", "closing", "closed"}
  BY DEF GroupInv, Rest
<1>7. /\ Fit(b, L, p, w)
      /\ attempts' \in [Member -> 0..(MaxFlushAttempts - 1)] /\ stuck' \subseteq Commands
  BY SettledFit
<1> HIDE DEF b, L, p, w
<1>8. Sane(b, L, p, reply', outcome', heldCount', order')
  BY <1>1, <1>3, <1>4, <1>5 DEF Sane
<1>9. t[2] \in BOOLEAN
  BY <1>2, ElapsedFacts
<1>10. /\ Rest /\ Effects(applied, zombie) /\ state' \in {"open", "closing", "closed"}
       /\ UNCHANGED <<zombie, receipts, applied, rogue>>
  BY <1>1, <1>6 DEF GroupInv
<1> QED BY <1>2, <1>6, <1>7, <1>8, <1>9, <1>10, ScheduleEnds


-----------------------------------------------------------------------------
(* The invariant holds in every state *)

LEMMA InitInv ==
  ASSUME Init
  PROVE  GroupInv
<1>0. /\ state = "open" /\ buffer = <<>> /\ lanes = [l \in Lane |-> <<>>] /\ deferred = {}
      /\ attempts = [m \in Member |-> 0] /\ heldCount = 0 /\ forceFlush = FALSE /\ backoff = FALSE
      /\ outcome = [m \in Member |-> "new"] /\ stuck = {} /\ reply = [l \in Lane |-> None]
      /\ zombie = <<>> /\ receipts = [c \in Commands |-> None] /\ applied = <<>> /\ rogue = {}
      /\ order = <<>>
  BY DEF Init
<1>1. /\ <<>> \in Seq(Member) /\ Len(<<>>) = 0 /\ ToSet(<<>>) = {} /\ Once(<<>>)
      /\ \A o : Sorted(o, <<>>)
  BY DEF ToSet, Once, Sorted
<1>2. /\ MaxBatchCount \in Nat /\ MaxFlushAttempts \in Nat /\ MaxFlushAttempts > 0 /\ 0 <= MaxBatchCount
  BY GroupCommitAssumption
<1>3. \A l \in Lane : lanes[l] = <<>> /\ reply[l] = None
  BY <1>0
<1>4. "main" \in Lane /\ "priority" \in Lane
  BY DEF Lane
<1>5. Rest
  <2>1. 0 \in 0..(MaxFlushAttempts - 1)
    BY <1>2
  <2>2. attempts \in [Member -> 0..(MaxFlushAttempts - 1)]
    BY <2>1, <1>0
  <2>3. receipts \in [Commands -> {Digest[m] : m \in Member} \cup {None}]
    BY <1>0
  <2> QED BY <2>2, <2>3, <1>0, <1>1 DEF Rest
<1>6. Placed(buffer, lanes, outcome, heldCount)
  <2>1. outcome \in [Member -> Outcomes] /\ {m \in Member : outcome[m] = "held"} = {}
    BY <1>0 DEF Outcomes
  <2>2. lanes \in [Lane -> Seq(Member)]
    BY <1>0, <1>1
  <2>3. heldCount = Len(buffer) + Len(lanes["main"]) + Len(lanes["priority"])
    BY <1>0, <1>1, <1>3, <1>4
  <2> QED BY <2>1, <2>2, <2>3, <1>0, <1>1, <1>3, <1>4 DEF Placed
<1>7. Batches(lanes, reply)
  <2>1. reply \in [Lane -> Reply \cup {None}]
    BY <1>0
  <2> QED BY <2>1, <1>1, <1>2, <1>3, <1>4 DEF Batches
<1>8. PutOff(buffer, lanes, deferred, backoff)
  <2>1. Cardinality({}) = 0
    BY FS_EmptySet
  <2> QED BY <2>1, <1>0, <1>2 DEF PutOff, Fit
<1>9. Effects(applied, zombie)
  BY <1>0, <1>1 DEF Effects
<1>10. Truths(buffer, lanes, reply, outcome, receipts, applied, zombie, rogue)
  <2>1. ToSet(applied) = {} /\ ToSet(zombie) = {} /\ \A m \in Member : outcome[m] # "ok"
    BY <1>0, <1>1
  <2> QED BY <2>1, <1>3 DEF Truths
<1>11. Ordered(buffer, lanes, reply, deferred, outcome, order, applied, zombie)
  <2>1. ToSet(order) = {m \in Member : m \notin Priority /\ outcome[m] # "new"}
    BY <1>0, <1>1
  <2>2. /\ ToSet(applied) = {} /\ ToSet(zombie) = {} /\ ToSet(buffer) = {} /\ ToSet(lanes["main"]) = {}
        /\ deferred = {}
    BY <1>0, <1>1, <1>3, <1>4
  <2> QED BY <2>1, <2>2, <1>0, <1>1, <1>3, <1>4 DEF Ordered, Ahead
<1> QED BY <1>5, <1>6, <1>7, <1>8, <1>9, <1>10, <1>11 DEF GroupInv

LEMMA StutterKeeps ==
  ASSUME GroupInv, UNCHANGED vars
  PROVE  GroupInv'
<1>1. /\ state' = state /\ buffer' = buffer /\ lanes' = lanes /\ deferred' = deferred
      /\ attempts' = attempts /\ heldCount' = heldCount /\ forceFlush' = forceFlush
      /\ backoff' = backoff /\ outcome' = outcome /\ stuck' = stuck /\ reply' = reply
      /\ zombie' = zombie /\ receipts' = receipts /\ applied' = applied /\ rogue' = rogue
      /\ order' = order
  BY DEF vars, committer, store
<1>2. Rest'
  BY <1>1 DEF GroupInv, Rest
<1> QED BY <1>1, <1>2, Zenon DEF GroupInv

LEMMA NextKeeps ==
  ASSUME GroupInv, [Next]_vars
  PROVE  GroupInv'
<1>1. CASE Caller
  <2>1. CASE \E m \in Member : \E t \in Elapsed(Append(buffer, m)) : Submit(m, t)
    BY <2>1, SubmitKeeps
  <2>2. CASE \E aged \in Aged(buffer) : Flush(aged) \/ Close(aged)
    <3>1. <<FALSE, FALSE>> \in Elapsed(buffer)
      BY DEF Elapsed
    <3> QED BY <3>1, <2>2, TimersKeep
  <2>3. CASE \E m \in Member : ResolveUnknown(m)
    BY <2>3, ResolveUnknownKeeps
  <2> QED BY <2>1, <2>2, <2>3, <1>1 DEF Caller
<1>2. CASE Timers
  <2>1. <<FALSE, FALSE>> \in Elapsed(buffer) /\ Aged(buffer) # {}
    BY DEF Elapsed, Aged
  <2>2. CASE \E aged \in Aged(buffer) : WindowTimer(aged)
    BY <2>1, <2>2, TimersKeep
  <2>3. CASE \E t \in Elapsed(buffer) : RetryTimer(t)
    BY <2>1, <2>3, TimersKeep
  <2>4. CASE CloseEnds
    BY <2>4, CloseEndsKeeps
  <2> QED BY <2>2, <2>3, <2>4, <1>2 DEF Timers
<1>3. CASE Exit
  BY <1>3, ZombieExitsKeeps DEF Exit
<1>4. ASSUME NEW l \in Lane, Serve(l) PROVE GroupInv'
  <2>1. CASE \E retryable \in BOOLEAN : BatchRefused(l, retryable)
    BY <2>1, BatchRefusedKeeps
  <2>2. CASE \E stop \in 1..(Len(lanes[l]) + 1) : \E ok \in SUBSET (1..(stop - 1)) : RunBatch(l, stop, ok)
    BY <2>2, RunBatchKeeps
  <2>3. CASE WorkerLost(l)
    BY <2>3, WorkerLostKeeps
  <2> QED BY <2>1, <2>2, <2>3, <1>4 DEF Serve
<1>5. ASSUME NEW l \in Lane, Settle(l) PROVE GroupInv'
  BY <1>5, SettleKeeps
<1>6. CASE UNCHANGED vars
  BY <1>6, StutterKeeps
<1> QED BY <1>1, <1>2, <1>3, <1>4, <1>5, <1>6 DEF Next

\* Every state of the committer: members are placed and counted, answers and receipts
\* account for effects, and no place they pass through changes the order of the normal.
THEOREM GroupInvariant == Spec => []GroupInv
<1>1. Init => GroupInv
  BY InitInv
<1>2. GroupInv /\ [Next]_vars => GroupInv'
  BY NextKeeps
<1> QED BY <1>1, <1>2, PTL DEF Spec

\* Backpressure counts exactly the members that wait or are in flight, whatever way
\* members leave (settleMember, failBatch, requeue, the end of close()).
THEOREM BackpressureIsExact == Spec => []HeldIsExact
<1>1. GroupInv => HeldIsExact
  <2> SUFFICES ASSUME GroupInv PROVE HeldIsExact
    OBVIOUS
  <2>1. /\ Rest /\ Placed(buffer, lanes, outcome, heldCount) /\ Batches(lanes, reply)
        /\ PutOff(buffer, lanes, deferred, backoff)
        /\ Ordered(buffer, lanes, reply, deferred, outcome, order, applied, zombie)
    BY DEF GroupInv
  <2>2. /\ buffer \in Seq(Member) /\ lanes \in [Lane -> Seq(Member)] /\ outcome \in [Member -> Outcomes]
        /\ heldCount = Len(buffer) + Len(lanes["main"]) + Len(lanes["priority"])
    BY <2>1 DEF Placed
  <2>3. heldCount \in Nat
    <3> DEFINE i == Len(buffer)
               j == Len(lanes["main"])
               k == Len(lanes["priority"])
    <3>1. i \in Nat /\ j \in Nat /\ k \in Nat /\ heldCount = i + j + k
      BY <2>2 DEF Lane
    <3> HIDE DEF i, j, k
    <3> QED BY <3>1
  <2>4. deferred \subseteq Member /\ reply \in [Lane -> Reply \cup {None}] /\ order \in Seq(Member)
    BY <2>1 DEF PutOff, Fit, Batches, Ordered
  <2>5. TypeOK
    BY <2>1, <2>2, <2>3, <2>4 DEF TypeOK, Rest
  <2> QED BY <2>2, <2>5 DEF HeldIsExact
<1> QED BY <1>1, GroupInvariant, PTL

\* A durable acknowledgement is true: "ok" has its receipt, "not_committed" left no
\* effect and no earlier dispatch of it can still commit.
THEOREM AcknowledgedIsTrue == Spec => []AnswersAreTrue
<1>1. GroupInv => AnswersAreTrue
  <2> SUFFICES ASSUME GroupInv, NEW m \in Member
               PROVE  /\ outcome[m] = "ok" => receipts[Command[m]] = Digest[m]
                      /\ outcome[m] = "not_committed" => m \notin ToSet(applied) \cup ToSet(zombie)
    BY DEF AnswersAreTrue
  <2>1. Truths(buffer, lanes, reply, outcome, receipts, applied, zombie, rogue)
    BY DEF GroupInv
  <2>2. outcome[m] = "not_committed" => m \in Untouched(buffer, lanes, reply, outcome)
    BY DEF Untouched
  <2> QED BY <2>1, <2>2 DEF Truths
<1> QED BY <1>1, GroupInvariant, PTL

\* A command takes effect once, however often its members are dispatched, unless a
\* handler of it ended the transaction by itself.
THEOREM TakesEffectOnce == Spec => []AppliedOnce
<1>1. GroupInv => AppliedOnce
  <2> SUFFICES ASSUME GroupInv, NEW i \in DOMAIN applied, NEW j \in DOMAIN applied,
                      i # j, Command[applied[i]] = Command[applied[j]]
               PROVE  Command[applied[i]] \in rogue
    BY DEF AppliedOnce
  <2>1. applied \in Seq(Member) /\ Once(applied)
    BY DEF GroupInv, Rest, Effects
  <2>2. applied[i] # applied[j] /\ applied[i] \in ToSet(applied) /\ applied[j] \in ToSet(applied)
    BY <2>1 DEF Once, ToSet
  <2> QED BY <2>2 DEF GroupInv, Truths
<1> QED BY <1>1, GroupInvariant, PTL

LEMMA PlaceOf ==
  ASSUME NEW s \in Seq(Member), NEW m \in ToSet(s)
  PROVE  LET i == CHOOSE k \in DOMAIN s : s[k] = m IN i \in 1..Len(s) /\ s[i] = m
<1>1. \E k \in DOMAIN s : s[k] = m
  BY DEF ToSet
<1> QED BY <1>1

\* Two normal members take effect in the order of their submission, through batches
\* that alternate with priority members, retries, put-off members and lost workers.
THEOREM NormalOrderKept == Spec => []NormalOrder
<1>1. GroupInv => NormalOrder
  <2> DEFINE At(s, m) == CHOOSE i \in DOMAIN s : s[i] = m
  <2> SUFFICES ASSUME GroupInv, NEW m \in ToSet(applied) \ Priority, NEW n \in ToSet(applied) \ Priority,
                      At(order, m) < At(order, n)
               PROVE  At(applied, m) < At(applied, n)
    BY DEF NormalOrder
  <2>1. /\ applied \in Seq(Member) /\ Sorted(order, applied) /\ order \in Seq(Member) /\ Once(order)
        /\ ToSet(order) = {x \in Member : x \notin Priority /\ outcome[x] # "new"}
        /\ Truths(buffer, lanes, reply, outcome, receipts, applied, zombie, rogue)
    BY DEF GroupInv, Rest, Ordered
  <2>2. m \in ToSet(order) /\ n \in ToSet(order)
    <3>1. m \in Member /\ n \in Member
      BY <2>1 DEF ToSet
    <3>2. m \notin Untouched(buffer, lanes, reply, outcome) /\ n \notin Untouched(buffer, lanes, reply, outcome)
      BY <2>1 DEF Truths
    <3>3. outcome[m] # "new" /\ outcome[n] # "new"
      BY <3>1, <3>2 DEF Untouched
    <3> QED BY <3>1, <3>3, <2>1
  <2>3. /\ At(order, m) \in 1..Len(order) /\ order[At(order, m)] = m
        /\ At(order, n) \in 1..Len(order) /\ order[At(order, n)] = n
        /\ At(applied, m) \in 1..Len(applied) /\ applied[At(applied, m)] = m
        /\ At(applied, n) \in 1..Len(applied) /\ applied[At(applied, n)] = n
    BY <2>1, <2>2, PlaceOf
  <2> HIDE DEF At
  <2>4. Before(order, m, n)
    BY <2>3 DEF Before
  <2>5. m # n /\ ~ Before(order, n, m)
    BY <2>1, <2>4, BeforeIsStrict
  <2>6. ASSUME At(applied, n) < At(applied, m) PROVE FALSE
    <3>1. Before(order, n, m)
      BY <2>1, <2>3, <2>6 DEF Sorted
    <3> QED BY <3>1, <2>5
  <2> QED BY <2>3, <2>5, <2>6
<1> QED BY <1>1, GroupInvariant, PTL
=============================================================================

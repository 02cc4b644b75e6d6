--------------------------- MODULE FairQueueProofs ---------------------------
(* The fair queue for every number of classes, every limit and every K: exact   *)
(* accounting, the bound on the wait of an aged request, and one bypass for a    *)
(* stop request at most.                                                         *)
EXTENDS FairQueue, FilteringProofs

\* Who came earlier is at least as old, and nobody waits before it is aged.
Ordered(q) ==
  /\ \A i, j \in 1..Len(q) : i < j => q[i].age >= q[j].age
  /\ \A i \in 1..Len(q) : q[i].age < Aging => q[i].waited = 0

\* The dispatches a request may see in all: its limit, and K + 1 more for every
\* bypass to a younger one.
Budget(entry) == entry.limit + entry.outrun * (BypassEvery + 1)

\* The dispatches an aged lower request may still see: K + 1 for every one ahead
\* of it, and what is left of its own turn. With those it has seen they stay in
\* its budget.
Waits(q) ==
  \A i \in 1..Len(q) :
    q[i].class > 1 /\ q[i].age = Aging =>
      q[i].waited + Ahead(q, i) * (BypassEvery + 1) + (BypassEvery + 1 - passedOver)
        <= Budget(q[i])

\* A request of the first class that was bypassed once is at the head, and the
\* counter has not started again.
Bypasses(q) ==
  \A i \in 1..Len(q) :
    q[i].class = 1 =>
      /\ q[i].bypassed <= 1
      /\ q[i].bypassed = 1 => i \in Heads(q) /\ passedOver = 0

GoodQueue(q) == q \in Seq(Entry) /\ Ordered(q) /\ Waits(q) /\ Bypasses(q)

FairInv == Accounted /\ GoodQueue(queue)

-----------------------------------------------------------------------------
(* Sizes *)

LEMMA SizesTyped ==
  ASSUME NEW q \in Seq(Entry)
  PROVE  Len(q) \in Nat /\ \A i \in 1..Len(q) : q[i] \in Entry /\ q[i].size \in Nat
<1>1. Len(q) \in Nat /\ \A i \in 1..Len(q) : q[i] \in Entry
  OBVIOUS
<1>2. \A entry \in Entry : entry.size \in Nat
  BY DEF Entry
<1> QED BY <1>1, <1>2

\* The recursive function in Size exists, so it is what its equation says.
LEMMA SizeSteps ==
  ASSUME NEW q \in Seq(Entry)
  PROVE  \E f : /\ Size(q) = f[Len(q)]
                /\ f[0] = 0
                /\ \A i \in 1..Len(q) : f[i] = f[i - 1] + q[i].size
                /\ f \in [0..Len(q) -> Nat]
<1> DEFINE Body(f, n) == [i \in 0..n |-> IF i = 0 THEN 0 ELSE f[i - 1] + q[i].size]
           Solved == {n \in Nat : \E f : f = Body(f, n)}
           F == CHOOSE f : f = [i \in 0..Len(q) |-> IF i = 0 THEN 0
                                                  ELSE f[i - 1] + q[i].size]
<1>0. Len(q) \in Nat /\ \A i \in 1..Len(q) : q[i].size \in Nat
  BY SizesTyped
<1>1. 0 \in Solved
  <2> DEFINE g == [i \in 0..0 |-> 0]
  <2>1. g = Body(g, 0)
    OBVIOUS
  <2> QED BY <2>1
<1>2. ASSUME NEW n \in Nat, n \in Solved PROVE n + 1 \in Solved
  <2>1. PICK f : f = Body(f, n)
    BY <1>2
  <2> DEFINE g == [i \in 0..(n + 1) |-> IF i = n + 1 THEN f[n] + q[n + 1].size ELSE f[i]]
  <2>2. ASSUME NEW i \in 0..(n + 1) PROVE g[i] = Body(g, n + 1)[i]
    <3>1. CASE i = n + 1
      <4>1. g[i - 1] = f[n]
        BY <3>1
      <4> QED BY <3>1, <4>1
    <3>2. CASE i # n + 1
      <4>1. i \in 0..n
        BY <3>2
      <4>2. g[i] = f[i] /\ (i # 0 => g[i - 1] = f[i - 1])
        BY <4>1
      <4>3. f[i] = Body(f, n)[i]
        BY <2>1
      <4> QED BY <4>1, <4>2, <4>3
    <3> QED BY <3>1, <3>2
  <2>3. g = Body(g, n + 1)
    BY <2>2
  <2> HIDE DEF g
  <2>4. \E h : h = Body(h, n + 1)
    BY <2>3
  <2>5. n + 1 \in Nat
    OBVIOUS
  <2> HIDE DEF Body
  <2> QED BY <2>4, <2>5
<1>3. Len(q) \in Solved
  <2> HIDE DEF Solved
  <2>1. \A n \in Nat : n \in Solved => n + 1 \in Solved
    BY <1>2
  <2>2. Nat \subseteq Solved
    BY <1>1, <2>1, Counting
  <2> QED BY <2>2, <1>0
<1>4. F = [i \in 0..Len(q) |-> IF i = 0 THEN 0 ELSE F[i - 1] + q[i].size]
  BY <1>3, Zenon
<1>5. Size(q) = F[Len(q)]
  BY Zenon DEF Size
<1> HIDE DEF F
<1>6. DOMAIN F = 0..Len(q) /\ F[0] = 0
  BY <1>4, <1>0
<1>7. ASSUME NEW i \in 1..Len(q)
      PROVE  F[i] = F[i - 1] + q[i].size
  <2>1. i \in 0..Len(q) /\ i # 0
    OBVIOUS
  <2> QED BY <1>4, <2>1, Zenon
<1>8. \A i \in 0..Len(q) : F[i] \in Nat
  <2> DEFINE Good == {n \in Nat : n <= Len(q) => F[n] \in Nat}
  <2>1. 0 \in Good
    BY <1>6
  <2>2. ASSUME NEW n \in Nat, n \in Good PROVE n + 1 \in Good
    <3>1. CASE n + 1 <= Len(q)
      <4>1. F[n] \in Nat
        BY <2>2, <3>1, <1>0
      <4>2. F[n + 1] = F[n] + q[n + 1].size
        BY <1>7, <3>1, <1>0
      <4> QED BY <4>1, <4>2, <1>0, <3>1
    <3>2. CASE ~(n + 1 <= Len(q))
      BY <3>2
    <3> QED BY <3>1, <3>2
  <2> HIDE DEF Good
  <2>3. \A n \in Nat : n \in Good => n + 1 \in Good
    BY <2>2
  <2>4. Nat \subseteq Good
    BY <2>1, <2>3, Counting
  <2> QED BY <2>4, <1>0 DEF Good
<1>9. F \in [0..Len(q) -> Nat]
  BY <1>4, <1>8
<1> QED BY <1>5, <1>6, <1>7, <1>9

\* t is what is left of s, in order: where each element of t came from.
Embedding(t, s, e) ==
  /\ e \in [1..Len(t) -> 1..Len(s)]
  /\ \A k, l \in 1..Len(t) : k < l => e[k] < e[l]

\* What is left has no more bytes.
LEMMA SizeMonotone ==
  ASSUME NEW s \in Seq(Entry), NEW t \in Seq(Entry), NEW e, Embedding(t, s, e),
         \A k \in 1..Len(t) : t[k].size = s[e[k]].size
  PROVE  Size(s) \in Nat /\ Size(t) \in Nat /\ Size(t) <= Size(s)
<1>1. PICK f : /\ Size(s) = f[Len(s)] /\ f[0] = 0 /\ f \in [0..Len(s) -> Nat]
               /\ \A i \in 1..Len(s) : f[i] = f[i - 1] + s[i].size
  BY SizeSteps
<1>2. PICK g : /\ Size(t) = g[Len(t)] /\ g[0] = 0 /\ g \in [0..Len(t) -> Nat]
               /\ \A i \in 1..Len(t) : g[i] = g[i - 1] + t[i].size
  BY SizeSteps
<1>3. Len(s) \in Nat /\ Len(t) \in Nat
  OBVIOUS
<1>4. \A i \in 1..Len(s) : s[i].size \in Nat
  BY SizesTyped
<1>5. ASSUME NEW a \in 0..Len(s) PROVE \A b \in a..Len(s) : f[a] <= f[b]
  <2> DEFINE Good == {n \in Nat : a + n <= Len(s) => f[a] <= f[a + n]}
  <2>1. 0 \in Good
    BY <1>1
  <2>2. ASSUME NEW n \in Nat, n \in Good PROVE n + 1 \in Good
    <3> SUFFICES ASSUME a + (n + 1) <= Len(s) PROVE f[a] <= f[a + (n + 1)]
      OBVIOUS
    <3>1. f[a] <= f[a + n] /\ f[a] \in Nat /\ f[a + n] \in Nat
      BY <2>2, <1>1, <1>3
    <3>2. f[a + (n + 1)] = f[a + n] + s[a + (n + 1)].size
      <4>1. a + (n + 1) \in 1..Len(s) /\ (a + (n + 1)) - 1 = a + n
        BY <1>3
      <4> QED BY <1>1, <4>1
    <3>3. s[a + (n + 1)].size \in Nat
      BY <1>3, <1>4
    <3> QED BY <3>1, <3>2, <3>3
  <2> HIDE DEF Good
  <2>3. \A n \in Nat : n \in Good => n + 1 \in Good
    BY <2>2
  <2>4. Nat \subseteq Good
    BY <2>1, <2>3, Counting
  <2>5. ASSUME NEW b \in a..Len(s) PROVE f[a] <= f[b]
    <3>1. b - a \in Nat /\ a + (b - a) = b /\ b <= Len(s)
      BY <1>3
    <3>2. b - a \in Good
      BY <3>1, <2>4
    <3> QED BY <3>1, <3>2 DEF Good
  <2> QED BY <2>5
<1> DEFINE place(k) == IF k = 0 THEN 0 ELSE e[k]
           Good == {k \in Nat : k <= Len(t) => g[k] <= f[place(k)]}
<1>6. 0 \in Good
  BY <1>1, <1>2
<1>7. ASSUME NEW k \in Nat, k \in Good PROVE k + 1 \in Good
  <2> SUFFICES ASSUME k + 1 <= Len(t) PROVE g[k + 1] <= f[place(k + 1)]
    OBVIOUS
  <2>1. e[k + 1] \in 1..Len(s) /\ place(k + 1) = e[k + 1]
    BY <1>3 DEF Embedding
  <2>2. place(k) \in 0..Len(s) /\ place(k) <= e[k + 1] - 1
    <3>1. CASE k = 0
      BY <3>1, <2>1, <1>3
    <3>2. CASE k # 0
      <4>1. k \in 1..Len(t) /\ k + 1 \in 1..Len(t)
        BY <3>2, <1>3
      <4>2. e[k] \in 1..Len(s) /\ e[k] < e[k + 1]
        BY <4>1 DEF Embedding
      <4> QED BY <3>2, <4>2, <2>1, <1>3
    <3> QED BY <3>1, <3>2
  <2>3. f[place(k)] <= f[e[k + 1] - 1]
    <3>1. e[k + 1] - 1 \in place(k)..Len(s)
      BY <2>1, <2>2, <1>3
    <3> HIDE DEF place
    <3> QED BY <1>5, <2>2, <3>1
  <2>4. g[k] <= f[place(k)]
    BY <1>7, <1>3
  <2>5. g[k + 1] = g[k] + t[k + 1].size /\ t[k + 1].size = s[e[k + 1]].size
    <3>1. k + 1 \in 1..Len(t) /\ (k + 1) - 1 = k
      BY <1>3
    <3> QED BY <3>1, <1>2
  <2>6. f[e[k + 1]] = f[e[k + 1] - 1] + s[e[k + 1]].size
    BY <2>1, <1>1
  <2>7. g[k] \in Nat /\ f[place(k)] \in Nat /\ f[e[k + 1] - 1] \in Nat
        /\ s[e[k + 1]].size \in Nat
    <3>1. k \in 0..Len(t) /\ e[k + 1] - 1 \in 0..Len(s)
      BY <1>3, <2>1
    <3> HIDE DEF place
    <3>2. g[k] \in Nat
      BY <1>2, <3>1
    <3>3. f[place(k)] \in Nat /\ f[e[k + 1] - 1] \in Nat
      BY <1>1, <3>1, <2>2
    <3>4. s[e[k + 1]].size \in Nat
      BY <1>4, <2>1
    <3> QED BY <3>2, <3>3, <3>4
  <2> HIDE DEF place
  <2>8. f[place(k + 1)] = f[e[k + 1] - 1] + s[e[k + 1]].size
    BY <2>1, <2>6
  <2>9. g[k + 1] = g[k] + s[e[k + 1]].size
    BY <2>5
  <2> QED BY <2>3, <2>4, <2>7, <2>8, <2>9
<1>8. Len(t) \in Good
  <2> HIDE DEF Good
  <2>1. \A k \in Nat : k \in Good => k + 1 \in Good
    BY <1>7
  <2>2. Nat \subseteq Good
    BY <1>6, <2>1, Counting
  <2> QED BY <2>2, <1>3
<1>9. g[Len(t)] <= f[place(Len(t))]
  BY <1>8
<1>10. place(Len(t)) \in 0..Len(s)
  BY <1>3 DEF Embedding
<1>11. f[place(Len(t))] <= f[Len(s)]
  <2>1. Len(s) \in place(Len(t))..Len(s)
    BY <1>10, <1>3
  <2> HIDE DEF place
  <2> QED BY <1>10, <2>1, <1>5
<1> HIDE DEF place
<1>12. f[Len(s)] \in Nat /\ g[Len(t)] \in Nat /\ f[place(Len(t))] \in Nat
  <2>1. Len(s) \in 0..Len(s) /\ Len(t) \in 0..Len(t)
    BY <1>3
  <2> QED BY <1>1, <1>2, <2>1, <1>10
<1> QED BY <1>1, <1>2, <1>9, <1>11, <1>12

LEMMA SizeAppend ==
  ASSUME NEW s \in Seq(Entry), NEW a \in Entry
  PROVE  Size(Append(s, a)) = Size(s) + a.size
<1> DEFINE t == Append(s, a)
<1>0. t \in Seq(Entry) /\ Len(s) \in Nat /\ Len(t) = Len(s) + 1 /\ t[Len(s) + 1] = a
      /\ \A i \in 1..Len(s) : t[i] = s[i]
  OBVIOUS
<1> HIDE DEF t
<1>1. PICK f : /\ Size(s) = f[Len(s)] /\ f[0] = 0 /\ f \in [0..Len(s) -> Nat]
               /\ \A i \in 1..Len(s) : f[i] = f[i - 1] + s[i].size
  BY SizeSteps
<1>2. PICK g : /\ Size(t) = g[Len(t)] /\ g[0] = 0 /\ g \in [0..Len(t) -> Nat]
               /\ \A i \in 1..Len(t) : g[i] = g[i - 1] + t[i].size
  BY SizeSteps, <1>0
<1> DEFINE Good == {n \in Nat : n <= Len(s) => g[n] = f[n]}
<1>3. 0 \in Good
  BY <1>1, <1>2
<1>4. ASSUME NEW n \in Nat, n \in Good PROVE n + 1 \in Good
  <2> SUFFICES ASSUME n + 1 <= Len(s) PROVE g[n + 1] = f[n + 1]
    OBVIOUS
  <2>1. n + 1 \in 1..Len(s) /\ n + 1 \in 1..Len(t) /\ (n + 1) - 1 = n
    BY <1>0
  <2>2. g[n] = f[n]
    BY <1>4, <2>1
  <2> QED BY <2>1, <2>2, <1>0, <1>1, <1>2
<1>5. g[Len(s)] = f[Len(s)]
  <2> HIDE DEF Good
  <2>1. \A n \in Nat : n \in Good => n + 1 \in Good
    BY <1>4
  <2>2. Nat \subseteq Good
    BY <1>3, <2>1, Counting
  <2>3. Len(s) \in Good
    BY <2>2, <1>0
  <2> QED BY <2>3, <1>0 DEF Good
<1>6. Len(t) \in 1..Len(t) /\ Len(t) - 1 = Len(s)
  BY <1>0
<1>7. Size(t) = g[Len(s)] + a.size
  BY <1>0, <1>2, <1>6
<1> QED BY <1>1, <1>5, <1>7 DEF t

LEMMA SizeEmpty == Size(<<>>) = 0
<1>1. <<>> \in Seq(Entry) /\ Len(<<>>) = 0
  OBVIOUS
<1> QED BY <1>1, SizeSteps

\* Sizes do not change with the other fields.
LEMMA SizeSame ==
  ASSUME NEW s \in Seq(Entry), NEW t \in Seq(Entry), Len(t) = Len(s),
         \A k \in 1..Len(s) : t[k].size = s[k].size
  PROVE  Size(t) = Size(s)
<1> DEFINE e == [k \in 1..Len(s) |-> k]
<1>1. Embedding(t, s, e) /\ Embedding(s, t, e)
  BY DEF Embedding
<1>2. \A k \in 1..Len(s) : e[k] = k
  OBVIOUS
<1> HIDE DEF e
<1>3. Size(t) <= Size(s) /\ Size(s) \in Nat /\ Size(t) \in Nat
  BY <1>1, <1>2, SizeMonotone
<1>4. Size(s) <= Size(t)
  BY <1>1, <1>2, SizeMonotone
<1> QED BY <1>3, <1>4
-----------------------------------------------------------------------------
(* What is left of a queue *)

LEMMA RemoveFacts ==
  ASSUME NEW A, NEW s \in Seq(A), NEW i \in 1..Len(s)
  PROVE  /\ RemoveAt(s, i) \in Seq(A) /\ Len(RemoveAt(s, i)) = Len(s) - 1
         /\ \A k \in 1..(Len(s) - 1) :
              RemoveAt(s, i)[k] = s[IF k < i THEN k ELSE k + 1]
<1> DEFINE a == SubSeq(s, 1, i - 1)
           b == SubSeq(s, i + 1, Len(s))
<1>1. Len(s) \in Nat /\ i \in Nat /\ 1 <= i /\ i <= Len(s)
  OBVIOUS
<1>2. a \in Seq(A) /\ Len(a) = i - 1 /\ \A k \in 1..(i - 1) : a[k] = s[k]
  BY <1>1
<1>3. b \in Seq(A) /\ Len(b) = Len(s) - i /\ \A k \in 1..(Len(s) - i) : b[k] = s[k + i]
  BY <1>1
<1>4. RemoveAt(s, i) = a \o b
  BY DEF RemoveAt
<1> HIDE DEF a, b
<1> DEFINE t == a \o b
<1>5. t \in Seq(A) /\ Len(t) = Len(s) - 1
  <2>1. t \in Seq(A) /\ Len(t) = Len(a) + Len(b)
    <3>1. a \in Seq(A) /\ b \in Seq(A)
      BY <1>2, <1>3
    <3> QED BY <3>1
  <2> QED BY <2>1, <1>1, <1>2, <1>3
<1>6. ASSUME NEW k \in 1..(Len(s) - 1) PROVE t[k] = s[IF k < i THEN k ELSE k + 1]
  <2>1. CASE k < i
    <3>1. k \in 1..Len(a) /\ k \in 1..(i - 1)
      BY <2>1, <1>1, <1>2
    <3>2. t[k] = a[k]
      BY <3>1, <1>2, <1>3
    <3> QED BY <3>1, <3>2, <1>2, <2>1
  <2>2. CASE ~(k < i)
    <3>1. k - Len(a) \in 1..Len(b) /\ k - Len(a) \in 1..(Len(s) - i)
          /\ (k - Len(a)) + i = k + 1 /\ ~(k \in 1..Len(a))
      BY <2>2, <1>1, <1>2, <1>3
    <3>2. t[k] = b[k - Len(a)]
      BY <3>1, <1>1, <1>2, <1>3, <1>5
    <3> QED BY <3>1, <3>2, <1>3, <2>2
  <2> QED BY <2>1, <2>2
<1> QED BY <1>4, <1>5, <1>6

\* What RemoveAt leaves, and where it was.
LEMMA RemoveEmbeds ==
  ASSUME NEW A, NEW s \in Seq(A), NEW i \in 1..Len(s)
  PROVE  \E e : /\ Embedding(RemoveAt(s, i), s, e)
                /\ \A k \in 1..Len(RemoveAt(s, i)) :
                     RemoveAt(s, i)[k] = s[e[k]] /\ e[k] # i
<1> DEFINE e == [k \in 1..(Len(s) - 1) |-> IF k < i THEN k ELSE k + 1]
<1>1. Len(s) \in Nat /\ i \in Nat /\ 1 <= i /\ i <= Len(s)
      /\ Len(RemoveAt(s, i)) = Len(s) - 1
  BY RemoveFacts
<1>2. \A k \in 1..(Len(s) - 1) : e[k] = IF k < i THEN k ELSE k + 1
  OBVIOUS
<1>3. e \in [1..(Len(s) - 1) -> 1..Len(s)]
  BY <1>1
<1> HIDE DEF e
<1>4. \A k, l \in 1..(Len(s) - 1) : k < l => e[k] < e[l]
  BY <1>1, <1>2
<1>5. \A k \in 1..(Len(s) - 1) : RemoveAt(s, i)[k] = s[e[k]] /\ e[k] # i
  <2> TAKE k \in 1..(Len(s) - 1)
  <2>1. RemoveAt(s, i)[k] = s[IF k < i THEN k ELSE k + 1]
    BY RemoveFacts
  <2> QED BY <2>1, <1>1, <1>2
<1>6. Embedding(RemoveAt(s, i), s, e)
  BY <1>1, <1>3, <1>4 DEF Embedding
<1> QED BY <1>1, <1>5, <1>6

LEMMA AliveFacts ==
  ASSUME NEW q \in Seq(Entry)
  PROVE  /\ Alive(q) \in Seq(Entry)
         /\ \E e : /\ Embedding(Alive(q), q, e)
                   /\ \A k \in 1..Len(Alive(q)) : Alive(q)[k] = q[e[k]]
<1>1. Filter(q, {entry \in ToSet(q) : entry.left > 0}) \in Seq(Entry)
  BY FilterFacts
<1>2. PICK e \in [1..Len(Alive(q)) -> 1..Len(q)] :
        /\ \A k \in 1..Len(Alive(q)) : Alive(q)[k] = q[e[k]]
        /\ \A k, l \in 1..Len(Alive(q)) : k < l => e[k] < e[l]
  BY FilterFacts, Zenon DEF Alive
<1> QED BY <1>1, <1>2 DEF Alive, Embedding

\* The older a request, the fewer lower ones are ahead of it.
LEMMA AheadFacts ==
  ASSUME NEW q, NEW i \in Nat
  PROVE  /\ IsFiniteSet({j \in 1..(i - 1) : q[j].class > 1})
         /\ Ahead(q, i) \in Nat
<1>1. IsFiniteSet(1..(i - 1))
  BY FS_Interval
<1>2. {j \in 1..(i - 1) : q[j].class > 1} \subseteq 1..(i - 1)
  OBVIOUS
<1>3. IsFiniteSet({j \in 1..(i - 1) : q[j].class > 1})
  BY <1>1, <1>2, FS_Subset
<1> QED BY <1>3, FS_CardinalityType DEF Ahead

LEMMA AheadShrinks ==
  ASSUME NEW s \in Seq(Entry), NEW t \in Seq(Entry), NEW e, Embedding(t, s, e),
         \A k \in 1..Len(t) : t[k].class = s[e[k]].class,
         NEW i \in 1..Len(t)
  PROVE  /\ Ahead(t, i) <= Ahead(s, e[i])
         /\ \A r \in 1..(e[i] - 1) :
              s[r].class > 1 /\ (\A k \in 1..Len(t) : e[k] # r)
                => Ahead(t, i) + 1 <= Ahead(s, e[i])
<1> DEFINE T == {j \in 1..(i - 1) : t[j].class > 1}
           S == {j \in 1..(e[i] - 1) : s[j].class > 1}
           h == [j \in T |-> e[j]]
<1>0. Len(t) \in Nat /\ Len(s) \in Nat /\ i \in Nat /\ e[i] \in 1..Len(s) /\ e[i] \in Nat
  BY DEF Embedding
<1>1. IsFiniteSet(T) /\ IsFiniteSet(S)
  BY <1>0, AheadFacts
<1>2. \A j \in T : j \in 1..Len(t) /\ j < i
  BY <1>0
<1>3. \A j \in T : e[j] \in 1..Len(s) /\ e[j] < e[i]
  BY <1>2 DEF Embedding
<1>4. \A j \in T : e[j] \in S
  <2> TAKE j \in T
  <2>1. e[j] \in 1..(e[i] - 1)
    BY <1>0, <1>3
  <2>2. s[e[j]].class = t[j].class
    BY <1>2
  <2> QED BY <2>1, <2>2
<1>5. \A j, k \in T : e[j] = e[k] => j = k
  <2> TAKE j, k \in T
  <2>1. j \in 1..Len(t) /\ k \in 1..Len(t)
    BY <1>2
  <2>2. (j < k => e[j] < e[k]) /\ (k < j => e[k] < e[j])
    BY <2>1 DEF Embedding
  <2>3. e[j] \in Nat /\ e[k] \in Nat /\ j \in Nat /\ k \in Nat
    BY <1>3, <2>1, <1>0
  <2> QED BY <2>2, <2>3
<1> HIDE DEF T, S
<1>6. ASSUME NEW U \in SUBSET S, \A j \in T : e[j] \in U
      PROVE  Cardinality(T) <= Cardinality(U)
  <2>1. IsFiniteSet(U)
    BY <1>1, FS_Subset
  <2>2. h \in [T -> U]
    BY <1>6
  <2>3. h \in Injection(T, U)
    BY <2>2, <1>5 DEF Injection, IsInjective
  <2> QED BY <2>1, <2>3, FS_Injection
<1>7. Cardinality(T) <= Cardinality(S)
  BY <1>4, <1>6
<1>8. ASSUME NEW r \in 1..(e[i] - 1), s[r].class > 1, \A k \in 1..Len(t) : e[k] # r
      PROVE  Cardinality(T) + 1 <= Cardinality(S)
  <2>1. r \in S
    BY <1>8 DEF S
  <2>2. \A j \in T : e[j] \in S \ {r}
    BY <1>2, <1>4, <1>8
  <2>3. Cardinality(T) <= Cardinality(S \ {r})
    BY <2>2, <1>6
  <2>4. Cardinality(S \ {r}) = Cardinality(S) - 1
    BY <2>1, <1>1, FS_RemoveElement
  <2>5. Cardinality(T) \in Nat /\ Cardinality(S) \in Nat
    BY <1>1, FS_CardinalityType
  <2> QED BY <2>3, <2>4, <2>5
<1> QED BY <1>7, <1>8 DEF Ahead, T, S
LEMMA AheadSame ==
  ASSUME NEW s, NEW t, NEW i \in Nat, \A j \in 1..(i - 1) : t[j].class = s[j].class
  PROVE  Ahead(t, i) = Ahead(s, i)
<1>1. {j \in 1..(i - 1) : t[j].class > 1} = {j \in 1..(i - 1) : s[j].class > 1}
  OBVIOUS
<1> QED BY <1>1 DEF Ahead

\* Products with K + 1: one request more or less ahead.
LEMMA Turns ==
  ASSUME NEW n \in Nat, NEW m \in Nat
  PROVE  /\ (n + 1) * (BypassEvery + 1) = n * (BypassEvery + 1) + (BypassEvery + 1)
         /\ n * (BypassEvery + 1) \in Nat
         /\ n <= m => n * (BypassEvery + 1) <= m * (BypassEvery + 1)
<1>1. BypassEvery \in Nat
  BY FairQueueAssumption
<1>2. \A c \in Nat : /\ (n + 1) * c = n * c + c
                     /\ n * c \in Nat
                     /\ n <= m => n * c <= m * c
  <2> TAKE c \in Nat
  <2>1. n * c \in Nat /\ (n + 1) * c = n * c + c
    OBVIOUS
  <2>2. ASSUME n <= m PROVE n * c <= m * c
    <3>1. (m - n) \in Nat /\ m = n + (m - n)
      BY <2>2
    <3>2. (m - n) * c \in Nat
      BY <3>1
    <3>3. m * c = n * c + (m - n) * c
      BY <3>1
    <3>4. m * c \in Nat
      OBVIOUS
    <3> QED BY <3>2, <3>3, <3>4, <2>1
  <2> QED BY <2>1, <2>2
<1> QED BY <1>1, <1>2

\* The fields of an entry are what they are declared.
LEMMA EntryTyped ==
  ASSUME NEW q \in Seq(Entry), NEW i \in 1..Len(q)
  PROVE  /\ q[i] \in Entry /\ q[i].class \in 1..Classes /\ q[i].age \in 0..Aging
         /\ q[i].left \in 0..MaxAge /\ q[i].size \in Nat
         /\ q[i].waited \in Nat /\ q[i].limit \in Nat /\ q[i].outrun \in Nat /\ q[i].bypassed \in Nat
<1>1. q[i] \in Entry
  OBVIOUS
<1> QED BY <1>1 DEF Entry

LEMMA BudgetTyped ==
  ASSUME NEW entry, entry.limit \in Nat, entry.outrun \in Nat
  PROVE  Budget(entry) \in Nat /\ entry.limit <= Budget(entry)
<1>1. entry.outrun * (BypassEvery + 1) \in Nat
  BY Turns
<1> DEFINE x == entry.outrun * (BypassEvery + 1)
<1>2. x \in Nat /\ Budget(entry) = entry.limit + x
  BY <1>1 DEF Budget
<1> HIDE DEF x
<1> QED BY <1>2

\* A good queue stays good when requests leave it.
LEMMA GoodShrinks ==
  ASSUME passedOver \in 0..BypassEvery, NEW s, GoodQueue(s), NEW t \in Seq(Entry),
         NEW e, Embedding(t, s, e), \A k \in 1..Len(t) : t[k] = s[e[k]]
  PROVE  GoodQueue(t)
<1>0. s \in Seq(Entry) /\ Len(s) \in Nat /\ Len(t) \in Nat
  BY DEF GoodQueue
<1>1. \A k \in 1..Len(t) : e[k] \in 1..Len(s) /\ t[k] = s[e[k]]
  BY DEF Embedding
<1>2. Ordered(t)
  <2>1. \A i, j \in 1..Len(t) : i < j => t[i].age >= t[j].age
    <3> TAKE i, j \in 1..Len(t)
    <3> HAVE i < j
    <3>1. e[i] < e[j] /\ e[i] \in 1..Len(s) /\ e[j] \in 1..Len(s)
      BY <1>1 DEF Embedding
    <3> QED BY <3>1, <1>1 DEF GoodQueue, Ordered
  <2> QED BY <2>1, <1>1 DEF GoodQueue, Ordered
<1>3. Waits(t)
  <2> SUFFICES ASSUME NEW i \in 1..Len(t), t[i].class > 1, t[i].age = Aging
               PROVE  t[i].waited + Ahead(t, i) * (BypassEvery + 1)
                        + (BypassEvery + 1 - passedOver) <= Budget(t[i])
    BY DEF Waits
  <2> DEFINE j == e[i]
  <2>1. j \in 1..Len(s) /\ t[i] = s[j] /\ i \in Nat /\ j \in Nat
    BY <1>0, <1>1
  <2>2. s[j].waited + Ahead(s, j) * (BypassEvery + 1)
          + (BypassEvery + 1 - passedOver) <= Budget(s[j])
    BY <2>1 DEF GoodQueue, Waits
  <2>3. Ahead(t, i) <= Ahead(s, j)
    BY <1>0, <1>1, AheadShrinks
  <2>4. Ahead(t, i) \in Nat /\ Ahead(s, j) \in Nat
    BY <2>1, AheadFacts
  <2>5. Budget(s[j]) \in Nat /\ s[j].waited \in Nat
    BY <1>0, <2>1, EntryTyped, BudgetTyped
  <2>6. /\ Ahead(t, i) * (BypassEvery + 1) <= Ahead(s, j) * (BypassEvery + 1)
        /\ Ahead(t, i) * (BypassEvery + 1) \in Nat
        /\ Ahead(s, j) * (BypassEvery + 1) \in Nat
    BY <2>3, <2>4, Turns
  <2>7. BypassEvery \in Nat /\ passedOver \in Nat
    BY FairQueueAssumption
  <2> DEFINE x == Ahead(t, i) * (BypassEvery + 1)
             y == Ahead(s, j) * (BypassEvery + 1)
  <2>8. x \in Nat /\ y \in Nat /\ x <= y
    BY <2>6
  <2>9. s[j].waited + y + (BypassEvery + 1 - passedOver) <= Budget(s[j])
    BY <2>2, <2>8
  <2> HIDE DEF j, x, y
  <2>11. s[j].waited + x + (BypassEvery + 1 - passedOver) <= Budget(s[j])
    <3> DEFINE left == BypassEvery + 1 - passedOver
               w == s[j].waited
               m == Budget(s[j])
    <3>1. w + y + left <= m
      BY <2>9
    <3>2. w \in Nat /\ m \in Nat /\ left \in Int
      BY <2>5, <2>7
    <3> HIDE DEF left, w, m
    <3>3. w + x + left <= m
      BY <2>8, <3>1, <3>2
    <3> QED BY <3>3 DEF left, w, m
  <2>12. t[i] = s[j]
    BY <2>1
  <2> QED BY <2>8, <2>11, <2>12 DEF x
<1>4. Bypasses(t)
  <2> SUFFICES ASSUME NEW i \in 1..Len(t), t[i].class = 1
               PROVE  /\ t[i].bypassed <= 1
                      /\ t[i].bypassed = 1 => i \in Heads(t) /\ passedOver = 0
    BY DEF Bypasses
  <2>1. /\ t[i].bypassed <= 1
        /\ t[i].bypassed = 1 => e[i] \in Heads(s) /\ passedOver = 0
    BY <1>1 DEF GoodQueue, Bypasses
  <2>2. ASSUME e[i] \in Heads(s) PROVE i \in Heads(t)
    <3> SUFFICES ASSUME NEW k \in 1..(i - 1) PROVE t[k].class # t[i].class
      BY <1>0 DEF Heads
    <3>1. k \in 1..Len(t) /\ k < i
      BY <1>0
    <3>2. e[k] < e[i] /\ e[k] \in 1..Len(s) /\ e[i] \in 1..Len(s)
      BY <3>1, <1>1 DEF Embedding
    <3>3. e[k] \in 1..(e[i] - 1)
      BY <3>2, <1>0
    <3>4. s[e[k]].class # s[e[i]].class
      BY <3>3, <2>2 DEF Heads
    <3> QED BY <3>1, <3>4, <1>1
  <2> QED BY <2>1, <2>2
<1> QED BY <1>2, <1>3, <1>4 DEF GoodQueue

-----------------------------------------------------------------------------
(* Which request is picked *)

LEMMA HeadOf ==
  ASSUME NEW q \in Seq(Entry), NEW i \in 1..Len(q)
  PROVE  \E h \in Heads(q) : h <= i /\ q[h].class = q[i].class /\ h \in 1..Len(q)
<1> DEFINE T == {j \in 1..Len(q) : q[j].class = q[i].class}
<1>0. Len(q) \in Nat /\ DOMAIN q = 1..Len(q)
  OBVIOUS
<1>1. T \in SUBSET Nat /\ T # {}
  OBVIOUS
<1>2. PICK h \in T : \A m \in T : h <= m
  BY <1>1, LeastNumber
<1>3. h \in 1..Len(q) /\ q[h].class = q[i].class /\ h <= i
  BY <1>2
<1>4. \A k \in 1..(h - 1) : q[k].class # q[h].class
  <2> SUFFICES ASSUME NEW k \in 1..(h - 1), q[k].class = q[h].class PROVE FALSE
    OBVIOUS
  <2>1. k \in 1..Len(q) /\ k < h
    BY <1>0, <1>3
  <2>2. k \in T
    BY <2>1, <1>3
  <2> QED BY <1>2, <2>1, <2>2, <1>3
<1> QED BY <1>0, <1>3, <1>4 DEF Heads

\* The strict pick is a head, and no request is of a higher class.
LEMMA StrictFacts ==
  ASSUME NEW q \in Seq(Entry), q # <<>>
  PROVE  /\ Strict(q) \in Heads(q)
         /\ Strict(q) \in 1..Len(q)
         /\ \A j \in 1..Len(q) : q[Strict(q)].class <= q[j].class
<1>0. Len(q) \in Nat /\ DOMAIN q = 1..Len(q) /\ 1 \in 1..Len(q)
  OBVIOUS
<1>1. \A j \in 1..Len(q) : q[j].class \in Nat
  <2>1. \A j \in 1..Len(q) : q[j] \in Entry
    OBVIOUS
  <2>2. \A entry \in Entry : entry.class \in Nat
    BY FairQueueAssumption DEF Entry
  <2> QED BY <2>1, <2>2
<1> DEFINE C == {q[j].class : j \in 1..Len(q)}
<1>2. C \in SUBSET Nat /\ C # {}
  BY <1>0, <1>1
<1>3. PICK c \in C : \A d \in C : c <= d
  BY <1>2, LeastNumber
<1>4. PICK i \in 1..Len(q) : q[i].class = c
  BY <1>3
<1>5. PICK h \in Heads(q) : q[h].class = c /\ h \in 1..Len(q)
  BY <1>4, HeadOf
<1>6. Heads(q) \subseteq 1..Len(q)
  BY <1>0 DEF Heads
<1>7. \A j \in Heads(q) : q[h].class <= q[j].class
  BY <1>3, <1>5, <1>6
<1>8. Strict(q) \in Heads(q) /\ \A j \in Heads(q) : q[Strict(q)].class <= q[j].class
  BY <1>7 DEF Strict
<1>9. \A j \in 1..Len(q) : q[Strict(q)].class <= q[j].class
  <2> TAKE j \in 1..Len(q)
  <2>1. PICK g \in Heads(q) : q[g].class = q[j].class
    BY HeadOf
  <2> QED BY <2>1, <1>8
<1> QED BY <1>6, <1>8, <1>9

\* The pick is the strict one, or after K strict ones the oldest aged lower head.
LEMMA PickFacts ==
  ASSUME NEW q \in Seq(Entry), q # <<>>, passedOver \in 0..BypassEvery
  PROVE  /\ Pick(q) \in Heads(q) /\ Pick(q) \in 1..Len(q)
         /\ AgedLower(q) = {} \/ passedOver < BypassEvery => Pick(q) = Strict(q)
         /\ AgedLower(q) # {} /\ passedOver = BypassEvery =>
              /\ Pick(q) \in AgedLower(q)
              /\ \A j \in AgedLower(q) : Pick(q) <= j
<1>0. BypassEvery \in Nat
  BY FairQueueAssumption
<1>1. Strict(q) \in Heads(q) /\ Heads(q) \subseteq 1..Len(q)
  BY StrictFacts DEF Heads
<1>2. AgedLower(q) \subseteq Heads(q)
  BY DEF AgedLower
<1>3. CASE AgedLower(q) = {} \/ passedOver < BypassEvery
  BY <1>0, <1>1, <1>3 DEF Pick
<1>4. CASE AgedLower(q) # {} /\ ~(passedOver < BypassEvery)
  <2>1. AgedLower(q) \in SUBSET Nat
    BY <1>1, <1>2
  <2>2. \E n \in AgedLower(q) : \A m \in AgedLower(q) : n <= m
    BY <2>1, <1>4, LeastNumber
  <2>3. Min(AgedLower(q)) \in AgedLower(q)
        /\ \A m \in AgedLower(q) : Min(AgedLower(q)) <= m
    BY <2>2 DEF Min
  <2>4. Pick(q) = Min(AgedLower(q))
    BY <1>0, <1>4 DEF Pick
  <2> QED BY <1>0, <1>1, <1>2, <1>4, <2>3, <2>4
<1> QED BY <1>3, <1>4
-----------------------------------------------------------------------------
(* The steps *)

LEMMA InitFair == Init => FairInv
<1> SUFFICES ASSUME Init PROVE FairInv
  OBVIOUS
<1>1. queue = <<>> /\ bytes = 0 /\ passedOver = 0 /\ Len(queue) = 0 /\ queue \in Seq(Entry)
  BY DEF Init
<1>2. {MaxDepth, MaxBytes, BypassEvery} \subseteq Nat
  BY FairQueueAssumption
<1>3. Accounted
  BY <1>1, <1>2, SizeEmpty DEF Accounted, TypeOK
<1>4. GoodQueue(queue)
  BY <1>1 DEF GoodQueue, Ordered, Waits, Bypasses
<1> QED BY <1>3, <1>4 DEF FairInv

LEMMA PushFair ==
  ASSUME FairInv, NEW class \in 1..Classes, NEW size \in Sizes, NEW ttl \in 1..MaxAge,
         Push(class, size, ttl)
  PROVE  FairInv'
<1> DEFINE new == [class |-> class, size |-> size, age |-> 0, left |-> ttl,
                   waited |-> 0, limit |-> 0, outrun |-> 0, bypassed |-> 0]
<1>0. /\ Classes \in Nat /\ MaxDepth \in Nat /\ MaxBytes \in Nat /\ MaxAge \in Nat
      /\ Aging \in Nat /\ Aging # 0 /\ BypassEvery \in Nat /\ Sizes \subseteq Nat
  BY FairQueueAssumption
<1>1. new \in Entry /\ new.size = size /\ new.age = 0 /\ new.waited = 0
      /\ new.bypassed = 0 /\ size \in Nat
  BY <1>0 DEF Entry
<1>2. queue' = Append(queue, new) /\ bytes' = bytes + size /\ passedOver' = passedOver
      /\ Len(queue) + 1 <= MaxDepth /\ bytes + size <= MaxBytes
  BY DEF Push, Room
<1> HIDE DEF new
<1>3. queue \in Seq(Entry) /\ Len(queue) \in Nat /\ bytes \in Nat /\ bytes = Size(queue)
      /\ passedOver \in 0..BypassEvery /\ GoodQueue(queue)
  BY DEF FairInv, Accounted, TypeOK
<1>4. queue' \in Seq(Entry) /\ Len(queue') = Len(queue) + 1 /\ queue'[Len(queue) + 1] = new
      /\ \A i \in 1..Len(queue) : queue'[i] = queue[i]
  BY <1>1, <1>2, <1>3
<1>5. Accounted'
  <2>1. Size(queue') = Size(queue) + size
    BY <1>1, <1>2, <1>3, SizeAppend
  <2> QED BY <1>1, <1>2, <1>3, <1>4, <2>1 DEF Accounted, TypeOK
<1>6. \A i \in 1..Len(queue') : i \in 1..Len(queue) \/ i = Len(queue) + 1
  BY <1>3, <1>4
<1>7. Ordered(queue)'
  <2>1. \A i \in 1..Len(queue) : queue[i].age \in Nat
    BY <1>0, <1>3, EntryTyped
  <2>2. \A i, j \in 1..Len(queue') : i < j => queue'[i].age >= queue'[j].age
    <3> TAKE i, j \in 1..Len(queue')
    <3> HAVE i < j
    <3>1. i \in 1..Len(queue)
      BY <1>3, <1>4
    <3>2. CASE j \in 1..Len(queue)
      BY <3>1, <3>2, <1>3, <1>4 DEF GoodQueue, Ordered
    <3>3. CASE j = Len(queue) + 1
      BY <3>1, <3>3, <1>1, <1>4, <2>1
    <3> QED BY <3>2, <3>3, <1>6
  <2>3. \A i \in 1..Len(queue') : queue'[i].age < Aging => queue'[i].waited = 0
    BY <1>1, <1>3, <1>4, <1>6 DEF GoodQueue, Ordered
  <2> QED BY <2>2, <2>3 DEF Ordered
<1>8. Waits(queue)'
  <2> SUFFICES ASSUME NEW i \in 1..Len(queue'), queue'[i].class > 1, queue'[i].age = Aging
      PROVE  queue'[i].waited + Ahead(queue', i) * (BypassEvery + 1)
               + (BypassEvery + 1 - passedOver') <= Budget(queue'[i])
    BY DEF Waits
  <2>1. i \in 1..Len(queue) /\ queue'[i] = queue[i] /\ i \in Nat
    BY <1>0, <1>1, <1>4, <1>6
  <2>2. \A j \in 1..(i - 1) : queue'[j].class = queue[j].class
    <3>1. \A j \in 1..(i - 1) : j \in 1..Len(queue)
      BY <2>1, <1>3
    <3> QED BY <3>1, <1>4
  <2>3. Ahead(queue', i) = Ahead(queue, i)
    BY <2>1, <2>2, AheadSame
  <2>4. queue[i].waited + Ahead(queue, i) * (BypassEvery + 1)
          + (BypassEvery + 1 - passedOver) <= Budget(queue[i])
    BY <1>3, <2>1 DEF GoodQueue, Waits
  <2> QED BY <1>2, <2>1, <2>3, <2>4
<1>9. Bypasses(queue)'
  <2> SUFFICES ASSUME NEW i \in 1..Len(queue'), queue'[i].class = 1
      PROVE  /\ queue'[i].bypassed <= 1
             /\ queue'[i].bypassed = 1 => i \in Heads(queue') /\ passedOver' = 0
    BY DEF Bypasses
  <2>1. CASE i = Len(queue) + 1
    BY <2>1, <1>1, <1>4
  <2>2. CASE i \in 1..Len(queue)
    <3>1. /\ queue[i].bypassed <= 1
          /\ queue[i].bypassed = 1 => i \in Heads(queue) /\ passedOver = 0
      BY <1>3, <1>4, <2>2 DEF GoodQueue, Bypasses
    <3>2. ASSUME i \in Heads(queue) PROVE i \in Heads(queue')
      <4>1. \A j \in 1..(i - 1) : queue[j].class # queue[i].class
        BY <3>2 DEF Heads
      <4>2. \A j \in 1..(i - 1) : j \in 1..Len(queue)
        BY <2>2, <1>3
      <4>3. \A j \in 1..(i - 1) : queue'[j].class # queue'[i].class
        BY <4>1, <4>2, <2>2, <1>4
      <4>4. DOMAIN queue' = 1..Len(queue')
        BY <1>4
      <4> QED BY <4>3, <4>4 DEF Heads
    <3> QED BY <1>2, <1>4, <2>2, <3>1, <3>2
  <2> QED BY <2>1, <2>2, <1>6
<1> QED BY <1>4, <1>5, <1>7, <1>8, <1>9 DEF FairInv, GoodQueue

\* Requests leave, by expiry, removal or a drain.
LEMMA LeaveFair ==
  ASSUME FairInv, NEW t \in Seq(Entry), NEW e, Embedding(t, queue, e),
         \A k \in 1..Len(t) : t[k] = queue[e[k]], Len(t) <= Len(queue),
         queue' = t, bytes' = BytesOf(t), UNCHANGED passedOver
  PROVE  FairInv'
<1>1. queue \in Seq(Entry) /\ bytes \in Nat /\ bytes = Size(queue) /\ bytes <= MaxBytes
      /\ Len(queue) <= MaxDepth /\ passedOver \in 0..BypassEvery /\ GoodQueue(queue)
  BY DEF FairInv, Accounted, TypeOK
<1>2. {MaxDepth, MaxBytes} \subseteq Nat
  BY FairQueueAssumption
<1>3. \A k \in 1..Len(t) : t[k].size = queue[e[k]].size
  OBVIOUS
<1>4. Size(queue) \in Nat /\ Size(t) \in Nat /\ Size(t) <= Size(queue)
  BY <1>1, <1>3, SizeMonotone
<1>5. bytes' = Size(t)
  BY <1>1, <1>4 DEF BytesOf
<1>6. Len(t) \in Nat /\ Len(queue) \in Nat
  BY <1>1
<1>7. Accounted'
  BY <1>1, <1>2, <1>4, <1>5, <1>6 DEF Accounted, TypeOK
<1>8. GoodQueue(t)
  BY <1>1, GoodShrinks
<1>9. GoodQueue(queue)'
  BY <1>8 DEF GoodQueue, Ordered, Waits, Bypasses
<1> QED BY <1>7, <1>9 DEF FairInv

\* An embedded queue is not longer.
LEMMA EmbeddedLength ==
  ASSUME NEW s \in Seq(Entry), NEW t \in Seq(Entry), NEW e, Embedding(t, s, e)
  PROVE  Len(t) <= Len(s)
<1>1. Len(s) \in Nat /\ Len(t) \in Nat
  OBVIOUS
<1> DEFINE S == {n \in Nat : n \in 1..Len(t) => n <= e[n]}
<1>2. 0 \in S
  OBVIOUS
<1>3. ASSUME NEW n \in Nat, n \in S PROVE n + 1 \in S
  <2> SUFFICES ASSUME n + 1 \in 1..Len(t) PROVE n + 1 <= e[n + 1]
    OBVIOUS
  <2>1. e[n + 1] \in 1..Len(s)
    BY DEF Embedding
  <2>2. CASE n = 0
    BY <2>1, <2>2, <1>1
  <2>3. CASE n # 0
    <3>1. n \in 1..Len(t)
      BY <2>3, <1>1
    <3>2. n <= e[n] /\ e[n] < e[n + 1] /\ e[n] \in 1..Len(s)
      BY <3>1, <1>3 DEF Embedding
    <3> QED BY <3>2, <2>1, <1>1
  <2> QED BY <2>2, <2>3
<1>4. Nat \subseteq S
  <2> HIDE DEF S
  <2>1. \A n \in Nat : n \in S => n + 1 \in S
    BY <1>3
  <2> QED BY <1>2, <2>1, Counting
<1>5. CASE Len(t) = 0
  BY <1>1, <1>5
<1>6. CASE Len(t) # 0
  <2>1. Len(t) \in 1..Len(t) /\ e[Len(t)] \in 1..Len(s)
    BY <1>1, <1>6 DEF Embedding
  <2>2. Len(t) <= e[Len(t)]
    BY <1>1, <1>4, <2>1
  <2> QED BY <1>1, <2>1, <2>2
<1> QED BY <1>5, <1>6

LEMMA ExpireFair == ASSUME FairInv, Expire PROVE FairInv'
<1>1. queue \in Seq(Entry)
  BY DEF FairInv, Accounted, TypeOK
<1>2. PICK e : /\ Embedding(Alive(queue), queue, e)
               /\ \A k \in 1..Len(Alive(queue)) : Alive(queue)[k] = queue[e[k]]
  BY <1>1, AliveFacts
<1>3. Alive(queue) \in Seq(Entry)
  BY <1>1, AliveFacts
<1>4. Len(Alive(queue)) <= Len(queue)
  BY <1>1, <1>2, <1>3, EmbeddedLength
<1> QED BY <1>2, <1>3, <1>4, LeaveFair DEF Expire

LEMMA RemoveFair ==
  ASSUME FairInv, NEW i \in DOMAIN queue, RemoveEntry(i) PROVE FairInv'
<1> DEFINE t == RemoveAt(queue, i)
<1>1. queue \in Seq(Entry) /\ i \in 1..Len(queue)
  BY DEF FairInv, Accounted, TypeOK
<1>2. t \in Seq(Entry) /\ Len(t) = Len(queue) - 1
  BY <1>1, RemoveFacts
<1>3. PICK e : Embedding(t, queue, e) /\ \A k \in 1..Len(t) : t[k] = queue[e[k]]
  BY <1>1, RemoveEmbeds
<1>4. Len(t) <= Len(queue)
  BY <1>1, <1>2, <1>3, EmbeddedLength
<1>5. queue' = t /\ bytes' = BytesOf(t) /\ UNCHANGED passedOver
  BY DEF RemoveEntry
<1> HIDE DEF t
<1> QED BY <1>2, <1>3, <1>4, <1>5, LeaveFair

LEMMA DrainFair == ASSUME FairInv, DrainAll PROVE FairInv'
<1> DEFINE e == [k \in 1..0 |-> k]
<1>1. queue \in Seq(Entry) /\ <<>> \in Seq(Entry) /\ Len(<<>>) = 0
  BY DEF FairInv, Accounted, TypeOK
<1>2. Embedding(<<>>, queue, e)
  BY <1>1 DEF Embedding
<1>3. Len(<<>>) <= Len(queue)
  BY <1>1
<1>4. \A k \in 1..Len(<<>>) : <<>>[k] = queue[e[k]]
  BY <1>1
<1> HIDE DEF e
<1> QED BY <1>1, <1>2, <1>3, <1>4, LeaveFair DEF DrainAll
LEMMA TickFair == ASSUME FairInv, Tick PROVE FairInv'
<1>0. /\ MaxAge \in Nat /\ Aging \in Nat /\ Aging # 0 /\ BypassEvery \in Nat
  BY FairQueueAssumption
<1>1. queue \in Seq(Entry) /\ Len(queue) \in Nat /\ GoodQueue(queue) /\ DOMAIN queue = 1..Len(queue)
  BY DEF FairInv, Accounted, TypeOK
<1> DEFINE older(i) == IF queue[i].age < Aging THEN queue[i].age + 1 ELSE Aging
           aged(i) == IF older(i) = Aging /\ queue[i].age < Aging THEN Limit(i)
                      ELSE queue[i].limit
<1>2. bytes' = bytes /\ passedOver' = passedOver
      /\ queue' = [i \in 1..Len(queue) |->
           [queue[i] EXCEPT !.age = older(i),
                            !.left = IF @ > 0 THEN @ - 1 ELSE 0,
                            !.limit = aged(i)]]
  BY <1>1 DEF Tick
<1>3. ASSUME NEW i \in 1..Len(queue)
      PROVE  /\ queue'[i] \in Entry
             /\ queue'[i].class = queue[i].class /\ queue'[i].size = queue[i].size
             /\ queue'[i].waited = queue[i].waited /\ queue'[i].bypassed = queue[i].bypassed
             /\ queue'[i].age = older(i) /\ queue'[i].limit = aged(i)
             /\ queue'[i].outrun = queue[i].outrun
  <2>1. queue[i] \in Entry
    BY <1>1
  <2>2. Limit(i) \in Nat
    <3>1. Ahead(queue, i) \in Nat
      <4>1. i \in Nat
        OBVIOUS
      <4> QED BY <4>1, AheadFacts
    <3>2. Ahead(queue, i) * (BypassEvery + 1) \in Nat
          /\ (Ahead(queue, i) + 1) * (BypassEvery + 1)
               = Ahead(queue, i) * (BypassEvery + 1) + (BypassEvery + 1)
      BY <3>1, Turns
    <3> QED BY <3>2, <1>0 DEF Limit
  <2>3. older(i) \in 0..Aging /\ aged(i) \in Nat
    <3>1. queue[i].age \in 0..Aging /\ queue[i].limit \in Nat
      BY <2>1 DEF Entry
    <3> QED BY <3>1, <2>2, <1>0
  <2> HIDE DEF older, aged
  <2>4. queue'[i] = [queue[i] EXCEPT !.age = older(i),
                                     !.left = IF @ > 0 THEN @ - 1 ELSE 0,
                                     !.limit = aged(i)]
    BY <1>2
  <2>5. (IF queue[i].left > 0 THEN queue[i].left - 1 ELSE 0) \in 0..MaxAge
    <3>1. queue[i].left \in 0..MaxAge
      BY <2>1 DEF Entry
    <3> QED BY <3>1, <1>0
  <2> DEFINE l == IF queue[i].left > 0 THEN queue[i].left - 1 ELSE 0
  <2>6. queue'[i] = [queue[i] EXCEPT !.age = older(i), !.left = l, !.limit = aged(i)]
    BY <2>4
  <2>7. l \in 0..MaxAge
    BY <2>5
  <2> HIDE DEF l
  <2> DEFINE a == older(i)
             m == aged(i)
             r == queue[i]
             new == queue'[i]
  <2>8. a \in 0..Aging /\ m \in Nat
        /\ r \in Entry /\ new = [r EXCEPT !.age = a, !.left = l, !.limit = m]
    BY <2>1, <2>3, <2>6
  <2> HIDE DEF a, m, r, new
  <2>9. /\ new \in Entry /\ new.class = r.class /\ new.size = r.size
        /\ new.waited = r.waited /\ new.bypassed = r.bypassed
        /\ new.age = a /\ new.limit = m /\ new.outrun = r.outrun
    BY <2>7, <2>8 DEF Entry
  <2> QED BY <2>9 DEF a, m, r, new
<1>4. queue' \in Seq(Entry) /\ Len(queue') = Len(queue)
  <2>1. queue' \in [1..Len(queue) -> Entry]
    <3>1. DOMAIN queue' = 1..Len(queue) /\ queue' = [i \in 1..Len(queue) |-> queue'[i]]
      BY <1>2
    <3> QED BY <3>1, <1>3
  <2> HIDE DEF older, aged
  <2> QED BY <2>1, <1>1
<1>5. \A i \in 1..Len(queue) : queue[i].age \in 0..Aging
  BY <1>1, EntryTyped
<1>6. Accounted'
  <2>1. Size(queue') = Size(queue)
    BY <1>1, <1>3, <1>4, SizeSame
  <2> QED BY <1>2, <1>4, <2>1 DEF FairInv, Accounted, TypeOK
<1>7. Ordered(queue)'
  <2>1. \A i, j \in 1..Len(queue) : i < j => older(i) >= older(j)
    <3> TAKE i, j \in 1..Len(queue)
    <3> HAVE i < j
    <3>1. queue[i].age >= queue[j].age /\ queue[i].age \in 0..Aging /\ queue[j].age \in 0..Aging
      BY <1>1, <1>5 DEF GoodQueue, Ordered
    <3> QED BY <3>1, <1>0
  <2>2. \A i \in 1..Len(queue) : older(i) < Aging => queue[i].waited = 0
    <3> TAKE i \in 1..Len(queue)
    <3> HAVE older(i) < Aging
    <3>1. queue[i].age < Aging
      BY <1>0, <1>5
    <3> QED BY <3>1, <1>1 DEF GoodQueue, Ordered
  <2> HIDE DEF older, aged
  <2> QED BY <1>3, <1>4, <2>1, <2>2 DEF Ordered
<1>8. Waits(queue)'
  <2> SUFFICES ASSUME NEW i \in 1..Len(queue), queue'[i].class > 1, queue'[i].age = Aging
      PROVE  queue'[i].waited + Ahead(queue', i) * (BypassEvery + 1)
               + (BypassEvery + 1 - passedOver') <= Budget(queue'[i])
    BY <1>4 DEF Waits
  <2>1. i \in Nat /\ \A j \in 1..(i - 1) : queue'[j].class = queue[j].class
    <3>1. \A j \in 1..(i - 1) : j \in 1..Len(queue)
      BY <1>1
    <3> QED BY <3>1, <1>3
  <2>2. Ahead(queue', i) = Ahead(queue, i) /\ Ahead(queue, i) \in Nat
    BY <2>1, AheadSame, AheadFacts
  <2>3. queue'[i].class = queue[i].class /\ queue'[i].waited = queue[i].waited
        /\ older(i) = Aging /\ queue'[i].limit = aged(i)
        /\ queue'[i].outrun = queue[i].outrun
    BY <1>3
  <2>4. CASE queue[i].age = Aging
    <3>1. Budget(queue'[i]) = Budget(queue[i])
      <4>1. queue'[i].limit = queue[i].limit
        BY <2>3, <2>4, <1>0
      <4> QED BY <2>3, <4>1 DEF Budget
    <3>2. queue[i].waited + Ahead(queue, i) * (BypassEvery + 1)
            + (BypassEvery + 1 - passedOver) <= Budget(queue[i])
      BY <1>1, <2>3, <2>4 DEF GoodQueue, Waits
    <3> QED BY <1>2, <2>2, <2>3, <3>1, <3>2
  <2>5. CASE queue[i].age # Aging
    <3>1. queue[i].age < Aging
      BY <2>5, <1>0, <1>5
    <3>2. queue'[i].limit = (Ahead(queue, i) + 1) * (BypassEvery + 1)
      BY <2>3, <3>1 DEF Limit
    <3>3. queue'[i].waited = 0
      BY <2>3, <3>1, <1>1 DEF GoodQueue, Ordered
    <3> DEFINE x == Ahead(queue, i) * (BypassEvery + 1)
    <3>4. x \in Nat /\ (Ahead(queue, i) + 1) * (BypassEvery + 1) = x + (BypassEvery + 1)
      BY <2>2, Turns
    <3>5. passedOver' \in 0..BypassEvery
      BY <1>2 DEF FairInv, Accounted, TypeOK
    <3> HIDE DEF x
    <3>6. 0 + x + (BypassEvery + 1 - passedOver') <= Budget(queue'[i])
      <4> DEFINE p == passedOver'
      <4>1. p \in Nat /\ p <= BypassEvery
        BY <1>0, <3>5
      <4> DEFINE b == Budget(queue'[i])
      <4>2. b \in Nat /\ x + (BypassEvery + 1) <= b
        <5>1. i \in 1..Len(queue')
          BY <1>4
        <5>2. queue'[i].limit \in Nat /\ queue'[i].outrun \in Nat
          BY <1>4, <5>1, EntryTyped
        <5>3. Budget(queue'[i]) \in Nat /\ queue'[i].limit <= Budget(queue'[i])
          BY <5>2, BudgetTyped
        <5>4. queue'[i].limit = x + (BypassEvery + 1)
          BY <3>2, <3>4
        <5> QED BY <5>3, <5>4
      <4> HIDE DEF p, b
      <4>3. 0 + x + (BypassEvery + 1 - p) <= b
        BY <1>0, <3>4, <4>1, <4>2
      <4> QED BY <4>3 DEF p, b
    <3> QED BY <2>2, <3>3, <3>6 DEF x
  <2> QED BY <2>4, <2>5
<1>9. Bypasses(queue)'
  <2>1. DOMAIN queue' = 1..Len(queue)
    BY <1>4
  <2>2. ASSUME NEW i \in 1..Len(queue), i \in Heads(queue) PROVE i \in Heads(queue')
    <3>1. \A j \in 1..(i - 1) : j \in 1..Len(queue)
      BY <1>1
    <3>2. \A j \in 1..(i - 1) : queue[j].class # queue[i].class
      BY <2>2 DEF Heads
    <3>3. \A j \in 1..(i - 1) : queue'[j].class # queue'[i].class
      BY <3>1, <3>2, <1>3
    <3> QED BY <2>1, <3>3 DEF Heads
  <2> HIDE DEF older, aged
  <2> QED BY <1>1, <1>2, <1>3, <1>4, <2>2 DEF GoodQueue, Bypasses
<1> QED BY <1>4, <1>6, <1>7, <1>8, <1>9 DEF FairInv, GoodQueue

-----------------------------------------------------------------------------
(* A dispatch *)

\* What the history of a queue becomes when the one at i is dispatched.
Seen(q, i) == [j \in DOMAIN q |-> Sees(q, j, i)]

LEMMA SeenFacts ==
  ASSUME NEW q \in Seq(Entry), NEW i \in 1..Len(q)
  PROVE  /\ Seen(q, i) \in Seq(Entry) /\ Len(Seen(q, i)) = Len(q)
         /\ \A j \in 1..Len(q) :
              /\ Seen(q, i)[j].class = q[j].class /\ Seen(q, i)[j].size = q[j].size
              /\ Seen(q, i)[j].age = q[j].age /\ Seen(q, i)[j].limit = q[j].limit
              /\ Seen(q, i)[j].waited =
                   (IF q[j].age = Aging THEN q[j].waited + 1 ELSE q[j].waited)
              /\ Seen(q, i)[j].outrun =
                   (IF q[j].age = Aging /\ q[j].class = q[Strict(q)].class /\ i > j
                    THEN q[j].outrun + 1 ELSE q[j].outrun)
              /\ Seen(q, i)[j].bypassed =
                   (IF j \in Heads(q) /\ q[i].class > q[j].class
                    THEN q[j].bypassed + 1 ELSE q[j].bypassed)
<1> DEFINE lower(j) == q[j].age = Aging
           younger(j) == q[j].age = Aging /\ q[j].class = q[Strict(q)].class /\ i > j
           over(j) == j \in Heads(q) /\ q[i].class > q[j].class
<1>0. DOMAIN q = 1..Len(q) /\ Len(q) \in Nat
  OBVIOUS
<1>1. ASSUME NEW j \in 1..Len(q)
      PROVE  /\ Seen(q, i)[j] \in Entry
             /\ Seen(q, i)[j].class = q[j].class /\ Seen(q, i)[j].size = q[j].size
             /\ Seen(q, i)[j].age = q[j].age /\ Seen(q, i)[j].limit = q[j].limit
             /\ Seen(q, i)[j].waited = (IF lower(j) THEN q[j].waited + 1 ELSE q[j].waited)
             /\ Seen(q, i)[j].outrun = (IF younger(j) THEN q[j].outrun + 1 ELSE q[j].outrun)
             /\ Seen(q, i)[j].bypassed = IF over(j) THEN q[j].bypassed + 1 ELSE q[j].bypassed
  <2>1. q[j] \in Entry
    OBVIOUS
  <2> DEFINE w == IF lower(j) THEN q[j].waited + 1 ELSE q[j].waited
             o == IF younger(j) THEN q[j].outrun + 1 ELSE q[j].outrun
             b == IF over(j) THEN q[j].bypassed + 1 ELSE q[j].bypassed
  <2>2. Seen(q, i)[j] = [q[j] EXCEPT !.waited = w, !.outrun = o, !.bypassed = b]
    BY <1>0 DEF Seen, Sees
  <2>3. w \in Nat /\ b \in Nat /\ o \in Nat
    <3>1. q[j].waited \in Nat /\ q[j].bypassed \in Nat /\ q[j].outrun \in Nat
      BY <2>1 DEF Entry
    <3> QED BY <3>1
  <2>4. w = (IF lower(j) THEN q[j].waited + 1 ELSE q[j].waited)
        /\ o = (IF younger(j) THEN q[j].outrun + 1 ELSE q[j].outrun)
        /\ b = IF over(j) THEN q[j].bypassed + 1 ELSE q[j].bypassed
    OBVIOUS
  <2> HIDE DEF lower, younger, over, w, o, b
  <2> DEFINE new == Seen(q, i)[j]
             r == q[j]
  <2>5. r \in Entry /\ new = [r EXCEPT !.waited = w, !.outrun = o, !.bypassed = b]
    BY <2>1, <2>2
  <2> HIDE DEF new, r
  <2>6. /\ new \in Entry /\ new.class = r.class /\ new.size = r.size
        /\ new.age = r.age /\ new.limit = r.limit
        /\ new.waited = w /\ new.outrun = o /\ new.bypassed = b
    BY <2>3, <2>5 DEF Entry
  <2> QED BY <2>4, <2>6 DEF new, r
<1>2. Seen(q, i) \in [1..Len(q) -> Entry]
  <2>1. DOMAIN Seen(q, i) = 1..Len(q)
        /\ Seen(q, i) = [j \in 1..Len(q) |-> Seen(q, i)[j]]
    BY <1>0 DEF Seen
  <2> QED BY <2>1, <1>1
<1>3. Seen(q, i) \in Seq(Entry) /\ Len(Seen(q, i)) = Len(q)
  BY <1>0, <1>2
<1> QED BY <1>1, <1>3
\* Two heads are of different classes.
LEMMA HeadsDiffer ==
  ASSUME NEW q \in Seq(Entry), NEW i \in Heads(q), NEW j \in Heads(q), q[i].class = q[j].class
  PROVE  i = j
<1>1. i \in 1..Len(q) /\ j \in 1..Len(q) /\ Len(q) \in Nat
  BY DEF Heads
<1>2. i < j => i \in 1..(j - 1)
  BY <1>1
<1>3. j < i => j \in 1..(i - 1)
  BY <1>1
<1>4. ~(i < j) /\ ~(j < i)
  BY <1>2, <1>3 DEF Heads
<1> QED BY <1>1, <1>4

\* While an aged request is lower than the strict pick, the oldest aged head is
\* not behind it.
LEMMA AgedAhead ==
  ASSUME NEW q \in Seq(Entry), q # <<>>, Ordered(q), NEW j \in 1..Len(q),
         q[j].age = Aging, q[j].class > q[Strict(q)].class
  PROVE  \E h \in AgedLower(q) : h <= j
<1>1. PICK h \in Heads(q) : h <= j /\ q[h].class = q[j].class /\ h \in 1..Len(q)
  BY HeadOf
<1>2. q[h].age \in 0..Aging /\ q[h].age >= q[j].age /\ Aging \in Nat
  <2>1. h < j \/ h = j
    BY <1>1
  <2>2. q[h].age \in 0..Aging /\ q[j].age \in 0..Aging /\ Aging \in Nat
    BY <1>1, EntryTyped, FairQueueAssumption
  <2>3. h < j => q[h].age >= q[j].age
    BY <1>1 DEF Ordered
  <2> QED BY <2>1, <2>2, <2>3
<1>3. q[h].age = Aging
  BY <1>2
<1>4. h # Strict(q)
  <2>1. q[j].class \in Nat /\ q[Strict(q)].class \in Nat
    <3>1. Strict(q) \in 1..Len(q) /\ Classes \in Nat
      BY StrictFacts, FairQueueAssumption
    <3>2. q[j].class \in 1..Classes /\ q[Strict(q)].class \in 1..Classes
      BY <3>1, EntryTyped
    <3> QED BY <3>1, <3>2
  <2> QED BY <1>1, <2>1
<1> QED BY <1>1, <1>3, <1>4 DEF AgedLower

\* An aged lower head is of a lower class than the strict pick, and so not of the first.
LEMMA AgedLowerFacts ==
  ASSUME NEW q \in Seq(Entry), q # <<>>, NEW h \in AgedLower(q)
  PROVE  q[h].class > q[Strict(q)].class /\ q[h].class > 1 /\ h \in 1..Len(q)
<1>1. Strict(q) \in Heads(q) /\ Strict(q) \in 1..Len(q)
      /\ \A j \in 1..Len(q) : q[Strict(q)].class <= q[j].class
  BY StrictFacts
<1>2. h \in Heads(q) /\ h # Strict(q) /\ h \in 1..Len(q)
  BY DEF AgedLower, Heads
<1>3. q[h].class # q[Strict(q)].class
  BY <1>1, <1>2, HeadsDiffer
<1>4. Classes \in Nat /\ q[h].class \in 1..Classes /\ q[Strict(q)].class \in 1..Classes
  BY <1>1, <1>2, EntryTyped, FairQueueAssumption
<1>5. q[Strict(q)].class <= q[h].class
  BY <1>1, <1>2
<1> QED BY <1>2, <1>3, <1>4, <1>5

\* An aged request loses one ahead of it, or the counter goes on, or it is outrun.
LEMMA TurnTaken ==
  ASSUME NEW q \in Seq(Entry), q # <<>>, Ordered(q), passedOver \in 0..BypassEvery,
         NEW j \in 1..Len(q), j # Pick(q), q[j].class > 1, q[j].age = Aging
  PROVE  \/ Pick(q) < j /\ q[Pick(q)].class > 1 /\ PassedOver(q) = 0
         \/ Pick(q) < j /\ q[Pick(q)].class > 1 /\ PassedOver(q) = passedOver
         \/ PassedOver(q) = passedOver + 1
         \/ Pick(q) > j /\ q[j].class = q[Strict(q)].class /\ PassedOver(q) = 0
<1> DEFINE i == Pick(q)
<1>0. /\ BypassEvery \in Nat /\ passedOver \in Nat /\ passedOver <= BypassEvery
      /\ i \in 1..Len(q) /\ Len(q) \in Nat
      /\ Strict(q) \in Heads(q) /\ Strict(q) \in 1..Len(q)
      /\ q[Strict(q)].class <= q[j].class
      /\ q[j].class \in Nat /\ q[Strict(q)].class \in Nat
  <2>1. Strict(q) \in Heads(q) /\ Strict(q) \in 1..Len(q) /\ q[Strict(q)].class <= q[j].class
    BY StrictFacts
  <2>2. q[j].class \in 1..Classes /\ q[Strict(q)].class \in 1..Classes /\ Classes \in Nat
    BY <2>1, EntryTyped, FairQueueAssumption
  <2> QED BY <2>1, <2>2, PickFacts, FairQueueAssumption
<1>1. CASE AgedLower(q) = {}
  <2>1. i = Strict(q) /\ PassedOver(q) = passedOver
    BY <1>1, PickFacts DEF PassedOver
  <2>2. ~(q[j].class > q[Strict(q)].class)
    BY <1>1, AgedAhead
  <2>3. q[i].class = q[j].class
    BY <1>0, <2>1, <2>2
  <2>4. PICK h \in Heads(q) : h <= j /\ q[h].class = q[j].class /\ h \in 1..Len(q)
    BY HeadOf
  <2>5. h = i
    BY <1>0, <2>1, <2>3, <2>4, HeadsDiffer
  <2> QED BY <1>0, <2>1, <2>3, <2>4, <2>5
<1>2. CASE AgedLower(q) # {} /\ passedOver < BypassEvery
  BY <1>0, <1>2 DEF PassedOver
<1>3. CASE AgedLower(q) # {} /\ ~(passedOver < BypassEvery)
  <2>1. PassedOver(q) = 0 /\ passedOver = BypassEvery
    BY <1>0, <1>3 DEF PassedOver
  <2>2. i \in AgedLower(q) /\ \A h \in AgedLower(q) : i <= h
    BY <1>3, <2>1, PickFacts
  <2>3. q[i].class > 1
    BY <2>2, AgedLowerFacts
  <2>4. CASE q[j].class > q[Strict(q)].class
    <3>1. PICK h \in AgedLower(q) : h <= j
      BY <2>4, AgedAhead
    <3>2. h \in 1..Len(q)
      BY AgedLowerFacts
    <3> QED BY <1>0, <2>1, <2>2, <2>3, <3>1, <3>2
  <2>5. CASE ~(q[j].class > q[Strict(q)].class)
    <3>1. q[j].class = q[Strict(q)].class
      BY <1>0, <2>5
    <3> QED BY <1>0, <2>1, <2>3, <3>1
  <2> QED BY <2>4, <2>5
<1> QED BY <1>1, <1>2, <1>3

\* The wait of the requests that stay.
LEMMA DispatchWaits ==
  ASSUME NEW q, GoodQueue(q), q # <<>>, passedOver \in 0..BypassEvery,
         NEW rest \in Seq(Entry), rest = RemoveAt(Seen(q, Pick(q)), Pick(q)),
         NEW e, Embedding(rest, Seen(q, Pick(q)), e),
         \A k \in 1..Len(rest) : rest[k] = Seen(q, Pick(q))[e[k]] /\ e[k] # Pick(q),
         NEW k \in 1..Len(rest), rest[k].class > 1, rest[k].age = Aging
  PROVE  rest[k].waited + Ahead(rest, k) * (BypassEvery + 1)
           + (BypassEvery + 1 - PassedOver(q)) <= Budget(rest[k])
<1> DEFINE i == Pick(q)
           s == Seen(q, i)
           j == e[k]
           n == Ahead(rest, k) * (BypassEvery + 1)
           m == Ahead(q, j) * (BypassEvery + 1)
<1>0. q \in Seq(Entry) /\ Len(q) \in Nat /\ Len(rest) \in Nat /\ BypassEvery \in Nat
      /\ BypassEvery # 0 /\ Ordered(q) /\ i \in 1..Len(q)
  BY FairQueueAssumption, PickFacts DEF GoodQueue
<1>1. s \in Seq(Entry) /\ Len(s) = Len(q)
  BY <1>0, SeenFacts
<1>2. j \in 1..Len(q) /\ rest[k] = s[j] /\ j # i /\ j \in Nat /\ k \in Nat
  BY <1>0, <1>1 DEF Embedding
<1> HIDE DEF i, j
<1>3. /\ s[j].class = q[j].class /\ s[j].age = q[j].age /\ s[j].limit = q[j].limit
      /\ s[j].waited = (IF q[j].age = Aging THEN q[j].waited + 1 ELSE q[j].waited)
      /\ s[j].outrun = (IF q[j].age = Aging /\ q[j].class = q[Strict(q)].class /\ i > j
                        THEN q[j].outrun + 1 ELSE q[j].outrun)
  BY <1>0, <1>2, SeenFacts
<1>4. q[j].class > 1 /\ q[j].age = Aging /\ s[j].waited = q[j].waited + 1
  BY <1>2, <1>3
<1>5. Ahead(s, j) = Ahead(q, j)
  <2>1. \A l \in 1..(j - 1) : l \in 1..Len(q)
    BY <1>0, <1>2
  <2>2. \A l \in 1..Len(q) : s[l].class = q[l].class
    BY <1>0, SeenFacts
  <2> QED BY <1>2, <2>1, <2>2, AheadSame
<1>6. \A l \in 1..Len(rest) : rest[l].class = s[e[l]].class /\ e[l] # i
  BY DEF i
<1>7. Ahead(rest, k) <= Ahead(q, j) /\ Ahead(rest, k) \in Nat /\ Ahead(q, j) \in Nat
  <2>1. Ahead(rest, k) <= Ahead(s, j)
    BY <1>1, <1>6, AheadShrinks DEF i, j
  <2> QED BY <2>1, <1>2, <1>5, AheadFacts
<1>8. n \in Nat /\ m \in Nat /\ n <= m
  BY <1>7, Turns
<1>9. ASSUME i < j, q[i].class > 1 PROVE n + (BypassEvery + 1) <= m
  <2>1. i \in 1..(j - 1)
    BY <1>0, <1>2, <1>9
  <2>2. s[i].class > 1
    BY <1>0, <1>9, SeenFacts
  <2>3. Ahead(rest, k) + 1 <= Ahead(s, j)
    BY <1>1, <1>6, <2>1, <2>2, AheadShrinks DEF i, j
  <2>4. Ahead(rest, k) + 1 \in Nat /\ Ahead(rest, k) + 1 <= Ahead(q, j)
    BY <2>3, <1>5, <1>7
  <2>5. (Ahead(rest, k) + 1) * (BypassEvery + 1) <= m
    BY <2>4, <1>7, Turns
  <2>6. (Ahead(rest, k) + 1) * (BypassEvery + 1) = n + (BypassEvery + 1)
    BY <1>7, Turns
  <2> QED BY <2>5, <2>6
<1>10. q[j].waited + m + (BypassEvery + 1 - passedOver) <= Budget(q[j])
  BY <1>2, <1>4 DEF GoodQueue, Waits
<1>11. passedOver \in Nat /\ passedOver <= BypassEvery
  BY <1>0
<1>12. q[j].waited \in Nat /\ q[j].outrun \in Nat /\ Budget(q[j]) \in Nat
  BY <1>0, <1>2, EntryTyped, BudgetTyped
<1>13. /\ s[j].outrun = q[j].outrun => Budget(s[j]) = Budget(q[j])
       /\ s[j].outrun = q[j].outrun + 1 => Budget(s[j]) = Budget(q[j]) + (BypassEvery + 1)
  <2>1. s[j].outrun = q[j].outrun => Budget(s[j]) = Budget(q[j])
    BY <1>3 DEF Budget
  <2>2. ASSUME s[j].outrun = q[j].outrun + 1
        PROVE  Budget(s[j]) = Budget(q[j]) + (BypassEvery + 1)
    <3> DEFINE x == q[j].outrun * (BypassEvery + 1)
               lim == q[j].limit
    <3>1. (q[j].outrun + 1) * (BypassEvery + 1) = x + (BypassEvery + 1) /\ x \in Nat
      BY <1>12, Turns
    <3>2. lim \in Nat
      BY <1>0, <1>2, EntryTyped
    <3>3. Budget(q[j]) = lim + x /\ Budget(s[j]) = lim + (x + (BypassEvery + 1))
      BY <1>3, <2>2, <3>1 DEF Budget
    <3> HIDE DEF x, lim
    <3> QED BY <1>0, <3>1, <3>2, <3>3
  <2> QED BY <2>1, <2>2
<1>14. \/ i < j /\ q[i].class > 1 /\ PassedOver(q) = 0
       \/ i < j /\ q[i].class > 1 /\ PassedOver(q) = passedOver
       \/ PassedOver(q) = passedOver + 1
       \/ i > j /\ q[j].class = q[Strict(q)].class /\ PassedOver(q) = 0
  BY <1>0, <1>2, <1>4, TurnTaken DEF i
<1>15. \/ Budget(s[j]) = Budget(q[j])
       \/ Budget(s[j]) = Budget(q[j]) + (BypassEvery + 1)
  BY <1>3, <1>13
<1>16. i > j /\ q[j].class = q[Strict(q)].class
         => Budget(s[j]) = Budget(q[j]) + (BypassEvery + 1)
  BY <1>3, <1>4, <1>13
<1> DEFINE w == q[j].waited
           b == Budget(q[j])
           c == Budget(s[j])
           p == PassedOver(q)
<1>17. /\ w \in Nat /\ b \in Nat
       /\ w + m + (BypassEvery + 1 - passedOver) <= b
       /\ c = b \/ c = b + (BypassEvery + 1)
  BY <1>10, <1>12, <1>15
<1>18. \/ n + (BypassEvery + 1) <= m /\ p = 0
       \/ n + (BypassEvery + 1) <= m /\ p = passedOver
       \/ p = passedOver + 1
       \/ c = b + (BypassEvery + 1) /\ p = 0
  BY <1>9, <1>14, <1>16
<1> HIDE DEF n, m, w, b, c, p
<1> DEFINE K == BypassEvery
           P == passedOver
<1>19. K \in Nat /\ P \in Nat /\ P <= K /\ w + m + (K + 1 - P) <= b
       /\ (c = b \/ c = b + (K + 1))
       /\ \/ n + (K + 1) <= m /\ p = 0
          \/ n + (K + 1) <= m /\ p = P
          \/ p = P + 1
          \/ c = b + (K + 1) /\ p = 0
  BY <1>0, <1>11, <1>17, <1>18
<1> HIDE DEF K, P
<1>21. ASSUME p = 0 PROVE w + 1 + n + (K + 1 - p) <= c
  <2>1. CASE n + (K + 1) <= m
    <3>1. w + m + 1 <= b
      BY <1>8, <1>17, <1>19
    <3>2. w + 1 + n + (K + 1) <= b
      BY <1>8, <1>17, <1>19, <2>1, <3>1
    <3> QED BY <1>8, <1>17, <1>19, <1>21, <3>2
  <2>2. CASE c = b + (K + 1)
    BY <1>8, <1>17, <1>19, <1>21, <2>2
  <2>3. n + (K + 1) <= m \/ c = b + (K + 1)
    BY <1>19, <1>21
  <2> QED BY <2>1, <2>2, <2>3
<1>22. ASSUME p = P PROVE w + 1 + n + (K + 1 - p) <= c
  BY <1>8, <1>17, <1>19, <1>22
<1>23. ASSUME p = P + 1 PROVE w + 1 + n + (K + 1 - p) <= c
  BY <1>8, <1>17, <1>19, <1>23
<1>24. w + 1 + n + (K + 1 - p) <= c
  BY <1>19, <1>21, <1>22, <1>23
<1>25. Budget(rest[k]) = c /\ rest[k].waited = w + 1
  BY <1>2, <1>4 DEF w, c
<1> QED BY <1>24, <1>25 DEF n, p, K

\* The bypasses of the requests of the first class that stay.
LEMMA DispatchBypasses ==
  ASSUME NEW q, GoodQueue(q), q # <<>>, passedOver \in 0..BypassEvery,
         NEW rest \in Seq(Entry), NEW e, Embedding(rest, Seen(q, Pick(q)), e),
         \A k \in 1..Len(rest) : rest[k] = Seen(q, Pick(q))[e[k]] /\ e[k] # Pick(q),
         NEW k \in 1..Len(rest), rest[k].class = 1
  PROVE  /\ rest[k].bypassed <= 1
         /\ rest[k].bypassed = 1 => k \in Heads(rest) /\ PassedOver(q) = 0
<1> DEFINE i == Pick(q)
           s == Seen(q, i)
           j == e[k]
<1>0. q \in Seq(Entry) /\ Len(q) \in Nat /\ Len(rest) \in Nat /\ BypassEvery \in Nat
      /\ BypassEvery # 0 /\ Classes \in Nat /\ i \in 1..Len(q)
  BY FairQueueAssumption, PickFacts DEF GoodQueue
<1>1. s \in Seq(Entry) /\ Len(s) = Len(q)
  <2> HIDE DEF i
  <2> QED BY <1>0, SeenFacts
<1>2. j \in 1..Len(q) /\ rest[k] = s[j] /\ j # i /\ k \in Nat
  BY <1>0, <1>1 DEF Embedding
<1> HIDE DEF i, j
<1>3. /\ s[j].class = q[j].class
      /\ s[j].bypassed = IF j \in Heads(q) /\ q[i].class > q[j].class
                         THEN q[j].bypassed + 1 ELSE q[j].bypassed
  BY <1>0, <1>2, SeenFacts
<1>4. \A l \in 1..Len(q) : s[l].class = q[l].class
  BY <1>0, SeenFacts
<1> HIDE DEF s
<1>5. q[j].class = 1 /\ q[j].bypassed \in Nat
  <2>1. q[j].bypassed \in Nat
    BY <1>0, <1>2, EntryTyped
  <2> QED BY <2>1, <1>2, <1>3
\* A head of the first class is the strict pick.
<1>6. ASSUME j \in Heads(q) PROVE Strict(q) = j
  <2>1. Strict(q) \in Heads(q) /\ Strict(q) \in 1..Len(q)
        /\ q[Strict(q)].class <= q[j].class
    BY <1>0, <1>2, StrictFacts
  <2>2. q[Strict(q)].class \in 1..Classes
    BY <1>0, <2>1, EntryTyped
  <2>3. q[Strict(q)].class = q[j].class
    BY <1>0, <1>5, <2>1, <2>2
  <2> QED BY <1>0, <1>6, <2>1, <2>3, HeadsDiffer
<1>7. q[j].bypassed = 0
  <2>1. q[j].bypassed <= 1 /\ (q[j].bypassed = 1 => j \in Heads(q) /\ passedOver = 0)
    BY <1>2, <1>5 DEF GoodQueue, Bypasses
  <2>2. ASSUME q[j].bypassed = 1 PROVE FALSE
    <3>1. j \in Heads(q) /\ passedOver < BypassEvery
      BY <1>0, <2>1, <2>2
    <3>2. i = Strict(q)
      BY <1>0, <3>1, PickFacts DEF i
    <3> QED BY <1>2, <1>6, <3>1, <3>2
  <2> QED BY <1>5, <2>1, <2>2
<1>8. rest[k].bypassed = IF j \in Heads(q) /\ q[i].class > q[j].class THEN 1 ELSE 0
  BY <1>2, <1>3, <1>7
<1>9. ASSUME j \in Heads(q), q[i].class > q[j].class
      PROVE  k \in Heads(rest) /\ PassedOver(q) = 0
  <2>1. i # Strict(q)
    BY <1>2, <1>6, <1>9
  <2>2. AgedLower(q) # {} /\ ~(passedOver < BypassEvery)
    BY <1>0, <2>1, PickFacts DEF i
  <2>3. PassedOver(q) = 0
    BY <1>0, <2>2 DEF PassedOver
  <2>4. ASSUME NEW l \in 1..(k - 1) PROVE rest[l].class # rest[k].class
    <3>1. l \in 1..Len(rest) /\ l < k
      BY <1>0, <1>2
    <3>2. e[l] \in 1..Len(q) /\ e[l] < j /\ j \in 1..Len(q)
      BY <1>1, <1>2, <3>1 DEF Embedding, s, i, j
    <3>3. e[l] \in 1..(j - 1)
      BY <1>0, <3>2
    <3>4. q[e[l]].class # q[j].class
      BY <1>9, <3>3 DEF Heads
    <3>5. rest[l].class = q[e[l]].class /\ rest[k].class = q[j].class
      BY <1>2, <1>4, <3>1, <3>2 DEF s, i, j
    <3> QED BY <3>4, <3>5
  <2>5. DOMAIN rest = 1..Len(rest)
    BY <1>0
  <2> QED BY <2>3, <2>4, <2>5 DEF Heads
<1> QED BY <1>8, <1>9

LEMMA DispatchFair == ASSUME FairInv, Dispatch PROVE FairInv'
<1> DEFINE q == Alive(queue)
           i == Pick(q)
           s == Seen(q, i)
           rest == RemoveAt(s, i)
<1>0. /\ queue \in Seq(Entry) /\ Len(queue) \in Nat /\ bytes \in Nat /\ bytes = Size(queue)
      /\ bytes <= MaxBytes /\ Len(queue) <= MaxDepth /\ passedOver \in 0..BypassEvery
      /\ GoodQueue(queue)
  BY DEF FairInv, Accounted, TypeOK
<1>1. MaxDepth \in Nat /\ MaxBytes \in Nat /\ BypassEvery \in Nat
  BY FairQueueAssumption
<1>2. q # <<>> /\ queue' = rest /\ bytes' = BytesOf(rest) /\ passedOver' = PassedOver(q)
  BY DEF Dispatch, Seen
<1>3. PICK d : /\ Embedding(q, queue, d)
               /\ \A k \in 1..Len(q) : q[k] = queue[d[k]]
  BY <1>0, AliveFacts
<1>4. q \in Seq(Entry) /\ Len(q) \in Nat
  BY <1>0, AliveFacts
<1> HIDE DEF q
<1>5. GoodQueue(q)
  BY <1>0, <1>3, <1>4, GoodShrinks
<1>6. i \in 1..Len(q)
  BY <1>0, <1>2, <1>4, PickFacts
<1> HIDE DEF i
<1>7. s \in Seq(Entry) /\ Len(s) = Len(q)
      /\ \A j \in 1..Len(q) : /\ s[j].class = q[j].class /\ s[j].size = q[j].size
                              /\ s[j].age = q[j].age
  BY <1>4, <1>6, SeenFacts
<1> HIDE DEF s
<1>8. rest \in Seq(Entry) /\ Len(rest) = Len(q) - 1
  BY <1>6, <1>7, RemoveFacts
<1>9. PICK e : /\ Embedding(rest, s, e)
               /\ \A k \in 1..Len(rest) : rest[k] = s[e[k]] /\ e[k] # i
  BY <1>6, <1>7, RemoveEmbeds
<1> HIDE DEF rest
<1>10. Accounted'
  <2>1. Len(q) <= Len(queue)
    BY <1>0, <1>3, <1>4, EmbeddedLength
  <2>2. \A k \in 1..Len(q) : q[k].size = queue[d[k]].size
    BY <1>3
  <2>3. Size(q) <= Size(queue) /\ Size(q) \in Nat /\ Size(queue) \in Nat
    BY <1>0, <1>3, <1>4, <2>2, SizeMonotone
  <2>4. Size(s) = Size(q)
    BY <1>4, <1>7, SizeSame
  <2>5. \A k \in 1..Len(rest) : rest[k].size = s[e[k]].size
    BY <1>9
  <2>6. Size(rest) <= Size(s) /\ Size(rest) \in Nat
    BY <1>7, <1>8, <1>9, <2>5, SizeMonotone
  <2>7. bytes' = Size(rest)
    BY <1>0, <1>2, <2>3, <2>4, <2>6 DEF BytesOf
  <2>8. passedOver' \in 0..BypassEvery
    BY <1>0, <1>1, <1>2 DEF PassedOver
  <2> QED BY <1>0, <1>1, <1>2, <1>4, <1>8, <2>1, <2>3, <2>4, <2>6, <2>7, <2>8
          DEF Accounted, TypeOK
<1>11. Ordered(rest)
  <2>1. \A k \in 1..Len(rest) : e[k] \in 1..Len(q) /\ rest[k] = s[e[k]]
    BY <1>7, <1>9 DEF Embedding
  <2>2. \A k, l \in 1..Len(rest) : k < l => rest[k].age >= rest[l].age
    <3> TAKE k, l \in 1..Len(rest)
    <3> HAVE k < l
    <3>1. e[k] < e[l] /\ e[k] \in 1..Len(q) /\ e[l] \in 1..Len(q)
      BY <1>9, <2>1 DEF Embedding
    <3>2. q[e[k]].age >= q[e[l]].age
      BY <1>5, <3>1 DEF GoodQueue, Ordered
    <3> QED BY <1>7, <2>1, <3>1, <3>2
  <2>3. ASSUME NEW k \in 1..Len(rest), rest[k].age < Aging PROVE rest[k].waited = 0
    <3>1. e[k] \in 1..Len(q) /\ rest[k] = s[e[k]] /\ q[e[k]].age < Aging
      BY <1>7, <2>1, <2>3
    <3>2. q[e[k]].age # Aging /\ q[e[k]].waited = 0
      <4>1. q[e[k]].age \in 0..Aging /\ Aging \in Nat
        BY <1>4, <3>1, EntryTyped, FairQueueAssumption
      <4> QED BY <1>5, <3>1, <4>1 DEF GoodQueue, Ordered
    <3>3. s[e[k]].waited = 0
      BY <1>4, <1>6, <3>1, <3>2, SeenFacts DEF s
    <3> QED BY <3>1, <3>3
  <2> QED BY <2>2, <2>3 DEF Ordered
<1>12. ASSUME NEW k \in 1..Len(rest), rest[k].class > 1, rest[k].age = Aging
       PROVE  rest[k].waited + Ahead(rest, k) * (BypassEvery + 1)
                + (BypassEvery + 1 - PassedOver(q)) <= Budget(rest[k])
  BY <1>0, <1>2, <1>5, <1>8, <1>9, <1>12, DispatchWaits DEF rest, s, i
<1>13. ASSUME NEW k \in 1..Len(rest), rest[k].class = 1
       PROVE  /\ rest[k].bypassed <= 1
              /\ rest[k].bypassed = 1 => k \in Heads(rest) /\ PassedOver(q) = 0
  BY <1>0, <1>2, <1>5, <1>8, <1>9, <1>13, DispatchBypasses DEF s, i
<1>14. Waits(queue)'
  BY <1>2, <1>12 DEF Waits
<1>15. Bypasses(queue)'
  BY <1>2, <1>13 DEF Bypasses
<1>16. Ordered(queue)'
  BY <1>2, <1>11 DEF Ordered
<1> QED BY <1>2, <1>8, <1>10, <1>14, <1>15, <1>16 DEF FairInv, GoodQueue

LEMMA StepFair == FairInv /\ [Next]_vars => FairInv'
<1> SUFFICES ASSUME FairInv, [Next]_vars PROVE FairInv'
  OBVIOUS
<1>1. ASSUME NEW class \in 1..Classes, NEW size \in Sizes, NEW ttl \in 1..MaxAge,
             Push(class, size, ttl)
      PROVE  FairInv'
  BY <1>1, PushFair
<1>2. CASE Expire
  BY <1>2, ExpireFair
<1>3. CASE Dispatch
  BY <1>3, DispatchFair
<1>4. CASE DrainAll
  BY <1>4, DrainFair
<1>5. CASE Tick
  BY <1>5, TickFair
<1>6. ASSUME NEW i \in DOMAIN queue, RemoveEntry(i) PROVE FairInv'
  BY <1>6, RemoveFair
<1>7. CASE UNCHANGED vars
  BY <1>7 DEF vars, FairInv, Accounted, TypeOK, GoodQueue, Ordered, Waits, Bypasses, Heads, Ahead
<1> QED BY <1>1, <1>2, <1>3, <1>4, <1>5, <1>6, <1>7 DEF Next

-----------------------------------------------------------------------------
\* The inductive invariant of the queue.
THEOREM FairInvariant == Spec => []FairInv
<1> QED BY InitFair, StepFair, PTL DEF Spec

\* The byte count is the sum of what is queued and the limits hold, through every
\* way a request can leave (push, unlink).
THEOREM BytesAreExact == Spec => []Accounted
<1>1. FairInv => Accounted
  BY DEF FairInv
<1> QED BY FairInvariant, <1>1, PTL

\* An aged lower request with n lower ones ahead of it (shift) is served within
\* (n + 1) * (K + 1) dispatches, the bound of the module comment, and K + 1 for each
\* bypass to a younger request, for every K and number of classes.
THEOREM AgedAreServed == Spec => []AgedServedInBound
<1>1. FairInv => AgedServedInBound
  <2> SUFFICES ASSUME FairInv, NEW i \in DOMAIN queue,
                      queue[i].class > 1, queue[i].age = Aging
               PROVE  queue[i].waited < Budget(queue[i])
    BY DEF AgedServedInBound, Budget
  <2>1. queue \in Seq(Entry) /\ i \in 1..Len(queue) /\ i \in Nat /\ passedOver \in 0..BypassEvery
        /\ BypassEvery \in Nat
    BY FairQueueAssumption DEF FairInv, Accounted, TypeOK
  <2> DEFINE n == Ahead(queue, i) * (BypassEvery + 1)
             w == queue[i].waited
             m == Budget(queue[i])
  <2>2. n \in Nat
    BY <2>1, AheadFacts, Turns
  <2>3. w \in Nat /\ m \in Nat
    BY <2>1, EntryTyped, BudgetTyped
  <2>4. w + n + (BypassEvery + 1 - passedOver) <= m
    BY <2>1 DEF FairInv, GoodQueue, Waits
  <2> HIDE DEF n, w, m
  <2>5. w < m
    BY <2>1, <2>2, <2>3, <2>4
  <2> QED BY <2>5 DEF w, m
<1> QED BY FairInvariant, <1>1, PTL

\* A request of the first class (stop) is passed over at the head of its class by
\* one bypass at most, whatever the lower classes do.
THEOREM StopIsDelayedOnce == Spec => []StopDelayedOnce
<1>1. FairInv => StopDelayedOnce
  BY DEF FairInv, GoodQueue, Bypasses, StopDelayedOnce, Accounted, TypeOK
<1> QED BY FairInvariant, <1>1, PTL
=============================================================================

--------------------------- MODULE FilteringProofs ---------------------------
(* Facts about sequences that the proofs about queues need: what Filter gives   *)
(* for every sequence, and how often a sequence holds an element. The library's  *)
(* induction theorems take an operator as a parameter and cannot be used; that   *)
(* every set of naturals has a least element can, and gives the induction here.  *)
EXTENDS Filtering, SequencesExt, FiniteSetTheorems, WellFoundedInduction, TLAPS

\* No element occurs twice.
Once(s) == \A i, j \in 1..Len(s) : s[i] = s[j] => i = j

-----------------------------------------------------------------------------
LEMMA LeastNumber ==
  ASSUME NEW T \in SUBSET Nat, T # {}
  PROVE  \E n \in T : \A m \in T : n <= m
<1>1. IsWellFoundedOn(OpToRel(<, Nat), Nat)
  BY NatLessThanWellFounded
<1>2. PICK n \in T : \A m \in T : ~ (<<m, n>> \in OpToRel(<, Nat))
  BY <1>1, WFMin, Zenon
<1>3. \A m \in T : ~ (m < n)
  BY <1>2 DEF OpToRel
<1> QED BY <1>3

LEMMA Counting ==
  ASSUME NEW T, 0 \in T, \A n \in Nat : n \in T => n + 1 \in T
  PROVE  Nat \subseteq T
<1> SUFFICES ASSUME {n \in Nat : n \notin T} # {} PROVE FALSE
  OBVIOUS
<1>1. PICK n \in {k \in Nat : k \notin T} : \A m \in {k \in Nat : k \notin T} : n <= m
  BY LeastNumber
<1>2. n # 0
  BY <1>1
<1>3. n - 1 \in Nat /\ n - 1 \in T
  BY <1>1, <1>2
<1> QED BY <1>1, <1>3

-----------------------------------------------------------------------------
\* The recursive function in Filter exists, so it is what its equation says.
LEMMA FilterSteps ==
  ASSUME NEW A, NEW s \in Seq(A), NEW S
  PROVE  \E f : /\ Filter(s, S) = f[Len(s)]
                /\ DOMAIN f = 0..Len(s)
                /\ f[0] = <<>>
                /\ \A i \in 1..Len(s) :
                     f[i] = IF s[i] \in S THEN Append(f[i - 1], s[i]) ELSE f[i - 1]
<1> DEFINE Body(f, n) == [i \in 0..n |-> IF i = 0 THEN <<>>
                          ELSE IF s[i] \in S THEN Append(f[i - 1], s[i]) ELSE f[i - 1]]
           Solved == {n \in Nat : \E f : f = Body(f, n)}
           F == CHOOSE f : f = [i \in 0..Len(s) |-> IF i = 0 THEN <<>>
                          ELSE IF s[i] \in S THEN Append(f[i - 1], s[i]) ELSE f[i - 1]]
<1>1. 0 \in Solved
  <2> DEFINE g == [i \in 0..0 |-> <<>>]
  <2>1. g = Body(g, 0)
    OBVIOUS
  <2> QED BY <2>1
<1>2. ASSUME NEW n \in Nat, n \in Solved PROVE n + 1 \in Solved
  <2>1. PICK f : f = Body(f, n)
    BY <1>2
  <2> DEFINE last == IF s[n + 1] \in S THEN Append(f[n], s[n + 1]) ELSE f[n]
             g == [i \in 0..(n + 1) |-> IF i = n + 1 THEN last ELSE f[i]]
  <2>2. ASSUME NEW i \in 0..(n + 1) PROVE g[i] = Body(g, n + 1)[i]
    <3>1. CASE i = n + 1
      <4>1. g[i - 1] = f[n]
        BY <3>1
      <4> QED BY <3>1, <4>1
    <3>2. CASE i # n + 1
      <4>1. i \in 0..n
        BY <3>2
      <4>2. g[i] = f[i] /\ (i # 0 => g[i - 1] = f[i - 1])
        BY <4>1
      <4>3. f[i] = Body(f, n)[i]
        BY <2>1
      <4> QED BY <4>1, <4>2, <4>3
    <3> QED BY <3>1, <3>2
  <2>3. g = Body(g, n + 1)
    BY <2>2
  <2> HIDE DEF g
  <2>4. \E h : h = Body(h, n + 1)
    BY <2>3
  <2> QED BY <2>4
<1>3. Len(s) \in Solved
  <2> HIDE DEF Solved
  <2>1. \A n \in Nat : n \in Solved => n + 1 \in Solved
    BY <1>2
  <2>2. Nat \subseteq Solved
    BY <1>1, <2>1, Counting
  <2> QED BY <2>2
<1>4. F = [i \in 0..Len(s) |-> IF i = 0 THEN <<>>
                          ELSE IF s[i] \in S THEN Append(F[i - 1], s[i]) ELSE F[i - 1]]
  BY <1>3, Zenon
<1>5. Filter(s, S) = F[Len(s)]
  BY Zenon DEF Filter
<1> HIDE DEF F
<1>6. DOMAIN F = 0..Len(s) /\ F[0] = <<>>
  BY <1>4
<1>7. ASSUME NEW i \in 1..Len(s)
      PROVE  F[i] = IF s[i] \in S THEN Append(F[i - 1], s[i]) ELSE F[i - 1]
  <2>1. i \in 0..Len(s) /\ i # 0
    OBVIOUS
  <2> QED BY <1>4, <2>1, Zenon
<1> QED BY <1>5, <1>6, <1>7

\* Filter keeps the members of S, in their order.
THEOREM FilterFacts ==
  ASSUME NEW A, NEW s \in Seq(A), NEW S
  PROVE  /\ Filter(s, S) \in Seq(A)
         /\ ToSet(Filter(s, S)) = ToSet(s) \cap S
         /\ \E e \in [1..Len(Filter(s, S)) -> 1..Len(s)] :
              /\ \A k \in 1..Len(Filter(s, S)) : Filter(s, S)[k] = s[e[k]]
              /\ \A k, l \in 1..Len(Filter(s, S)) : k < l => e[k] < e[l]
<1>1. PICK f : /\ Filter(s, S) = f[Len(s)]
               /\ DOMAIN f = 0..Len(s)
               /\ f[0] = <<>>
               /\ \A i \in 1..Len(s) :
                    f[i] = IF s[i] \in S THEN Append(f[i - 1], s[i]) ELSE f[i - 1]
  BY FilterSteps
<1> DEFINE Good(i) ==
      /\ f[i] \in Seq(A)
      /\ \A j \in 1..i : s[j] \in S => \E k \in 1..Len(f[i]) : f[i][k] = s[j]
      /\ \E e \in [1..Len(f[i]) -> 1..i] :
           /\ \A k \in 1..Len(f[i]) : f[i][k] = s[e[k]] /\ s[e[k]] \in S
           /\ \A k, l \in 1..Len(f[i]) : k < l => e[k] < e[l]
           Reached == {i \in Nat : i <= Len(s) => Good(i)}
<1>2. 0 \in Reached
  <2> DEFINE e == [k \in 1..0 |-> 0]
  <2>1. f[0] \in Seq(A) /\ Len(f[0]) = 0
    BY <1>1
  <2>2. e \in [1..Len(f[0]) -> 1..0]
    BY <2>1
  <2>3. Good(0)
    BY <2>1, <2>2
  <2> QED BY <2>3
<1>3. ASSUME NEW n \in Nat, n \in Reached PROVE n + 1 \in Reached
  <2> SUFFICES ASSUME n + 1 <= Len(s) PROVE Good(n + 1)
    OBVIOUS
  <2>1. Good(n)
    BY <1>3
  <2>2. PICK e \in [1..Len(f[n]) -> 1..n] :
           /\ \A k \in 1..Len(f[n]) : f[n][k] = s[e[k]] /\ s[e[k]] \in S
           /\ \A k, l \in 1..Len(f[n]) : k < l => e[k] < e[l]
    BY <2>1
  <2>3. f[n] \in Seq(A) /\ s[n + 1] \in A
    BY <2>1
  <2>4. f[n + 1] = IF s[n + 1] \in S THEN Append(f[n], s[n + 1]) ELSE f[n]
    BY <1>1
  <2>5. CASE s[n + 1] \notin S
    <3>1. f[n + 1] = f[n]
      BY <2>4, <2>5
    <3>2. e \in [1..Len(f[n]) -> 1..(n + 1)]
      OBVIOUS
    <3>3. \A j \in 1..(n + 1) : s[j] \in S => \E k \in 1..Len(f[n]) : f[n][k] = s[j]
      BY <2>1, <2>5
    <3> QED BY <3>1, <3>2, <3>3, <2>2, <2>3
  <2>6. CASE s[n + 1] \in S
    <3>1. f[n + 1] = Append(f[n], s[n + 1])
      BY <2>4, <2>6
    <3> DEFINE m == Len(f[n])
               e1 == [k \in 1..(m + 1) |-> IF k = m + 1 THEN n + 1 ELSE e[k]]
    <3>2. m \in Nat /\ f[n + 1] \in Seq(A) /\ Len(f[n + 1]) = m + 1
      BY <2>3, <3>1
    <3>3. f[n + 1][m + 1] = s[n + 1] /\ \A k \in 1..m : f[n + 1][k] = f[n][k]
      BY <2>3, <3>1
    <3>4. e1 \in [1..(m + 1) -> 1..(n + 1)]
      BY <3>2, <2>2
    <3>5. \A k \in 1..(m + 1) : f[n + 1][k] = s[e1[k]] /\ s[e1[k]] \in S
      <4> TAKE k \in 1..(m + 1)
      <4>1. CASE k = m + 1
        BY <4>1, <3>3, <2>6
      <4>2. CASE k # m + 1
        <5>1. k \in 1..m /\ e1[k] = e[k]
          BY <4>2, <3>2
        <5> QED BY <5>1, <3>3, <2>2
      <4> QED BY <4>1, <4>2
    <3>6. \A k, l \in 1..(m + 1) : k < l => e1[k] < e1[l]
      <4> TAKE k, l \in 1..(m + 1)
      <4> HAVE k < l
      <4>0. k \in 1..m /\ k # m + 1
        BY <3>2
      <4>1. k \in 1..m /\ e1[k] = e[k] /\ e[k] \in 1..n
        BY <4>0, <2>2
      <4>2. CASE l = m + 1
        BY <4>1, <4>2
      <4>3. CASE l # m + 1
        <5>1. l \in 1..m /\ e1[l] = e[l]
          BY <4>3, <3>2
        <5> QED BY <5>1, <4>1, <2>2
      <4> QED BY <4>2, <4>3
    <3>7. \A j \in 1..(n + 1) : s[j] \in S => \E k \in 1..(m + 1) : f[n + 1][k] = s[j]
      <4> TAKE j \in 1..(n + 1)
      <4> HAVE s[j] \in S
      <4>1. CASE j = n + 1
        BY <4>1, <3>2, <3>3
      <4>2. CASE j # n + 1
        <5>1. PICK k \in 1..m : f[n][k] = s[j]
          BY <4>2, <2>1
        <5> QED BY <5>1, <3>2, <3>3
      <4> QED BY <4>1, <4>2
    <3> HIDE DEF e1, m
    <3>8. \E d \in [1..Len(f[n + 1]) -> 1..(n + 1)] :
           /\ \A k \in 1..Len(f[n + 1]) : f[n + 1][k] = s[d[k]] /\ s[d[k]] \in S
           /\ \A k, l \in 1..Len(f[n + 1]) : k < l => d[k] < d[l]
      BY <3>2, <3>4, <3>5, <3>6
    <3> QED BY <3>2, <3>7, <3>8
  <2> QED BY <2>5, <2>6
<1>4. Good(Len(s))
  <2> HIDE DEF Reached
  <2>1. \A n \in Nat : n \in Reached => n + 1 \in Reached
    BY <1>3
  <2>2. Nat \subseteq Reached
    BY <1>2, <2>1, Counting
  <2>3. Len(s) \in Reached
    BY <2>2
  <2> QED BY <2>3 DEF Reached
<1> DEFINE g == Filter(s, S)
<1>5. g = f[Len(s)]
  BY <1>1
<1>6. PICK e \in [1..Len(g) -> 1..Len(s)] :
        /\ \A k \in 1..Len(g) : g[k] = s[e[k]] /\ s[e[k]] \in S
        /\ \A k, l \in 1..Len(g) : k < l => e[k] < e[l]
  BY <1>4, <1>5
<1>7. g \in Seq(A) /\ \A j \in 1..Len(s) : s[j] \in S => \E k \in 1..Len(g) : g[k] = s[j]
  BY <1>4, <1>5
<1> HIDE DEF g, Good
<1>8. ToSet(g) = ToSet(s) \cap S
  <2>1. DOMAIN g = 1..Len(g) /\ DOMAIN s = 1..Len(s)
    BY <1>7
  <2>2. ASSUME NEW k \in 1..Len(g) PROVE g[k] \in ToSet(s) \cap S
    <3>1. e[k] \in 1..Len(s) /\ g[k] = s[e[k]] /\ s[e[k]] \in S
      BY <1>6
    <3> QED BY <3>1, <2>1 DEF ToSet
  <2>3. ASSUME NEW j \in 1..Len(s), s[j] \in S PROVE s[j] \in ToSet(g)
    <3>1. PICK k \in 1..Len(g) : g[k] = s[j]
      BY <1>7, <2>3
    <3> QED BY <3>1, <2>1 DEF ToSet
  <2> QED BY <2>1, <2>2, <2>3 DEF ToSet
<1> QED BY <1>6, <1>7, <1>8 DEF g

LEMMA FilterOnce ==
  ASSUME NEW A, NEW s \in Seq(A), NEW S, Once(s)
  PROVE  Once(Filter(s, S))
<1> DEFINE g == Filter(s, S)
<1>1. PICK e \in [1..Len(g) -> 1..Len(s)] :
        /\ \A k \in 1..Len(g) : g[k] = s[e[k]]
        /\ \A k, l \in 1..Len(g) : k < l => e[k] < e[l]
  BY FilterFacts, Zenon
<1>2. Len(g) \in Nat
  BY FilterFacts
<1> HIDE DEF g
<1>3. ASSUME NEW k \in 1..Len(g), NEW l \in 1..Len(g), g[k] = g[l] PROVE k = l
  <2>1. s[e[k]] = s[e[l]] /\ e[k] \in 1..Len(s) /\ e[l] \in 1..Len(s)
    BY <1>1, <1>3
  <2>2. e[k] = e[l]
    BY <2>1 DEF Once
  <2> QED BY <2>2, <1>1, <1>2
<1> QED BY <1>3 DEF Once, g

-----------------------------------------------------------------------------
LEMMA OnceLength ==
  ASSUME NEW A, NEW s \in Seq(A), Once(s)
  PROVE  IsFiniteSet(ToSet(s)) /\ Cardinality(ToSet(s)) = Len(s)
<1>1. DOMAIN s = 1..Len(s) /\ Len(s) \in Nat
  OBVIOUS
<1>2. s \in [1..Len(s) -> ToSet(s)]
  BY <1>1 DEF ToSet
<1>3. s \in Bijection(1..Len(s), ToSet(s))
  BY <1>1, <1>2 DEF Once, ToSet, Bijection, Injection, Surjection, IsInjective
<1>4. IsFiniteSet(1..Len(s)) /\ Cardinality(1..Len(s)) = Len(s)
  BY <1>1, FS_Interval
<1> QED BY <1>3, <1>4, FS_Bijection DEF ExistsBijection

LEMMA AppendFacts ==
  ASSUME NEW A, NEW s \in Seq(A), NEW a \in A
  PROVE  /\ Append(s, a) \in Seq(A) /\ Len(Append(s, a)) = Len(s) + 1
         /\ ToSet(Append(s, a)) = ToSet(s) \cup {a}
         /\ Once(s) /\ a \notin ToSet(s) => Once(Append(s, a))
<1> DEFINE t == Append(s, a)
<1>1. t \in Seq(A) /\ Len(s) \in Nat /\ Len(t) = Len(s) + 1
  OBVIOUS
<1>2. t[Len(s) + 1] = a /\ \A i \in 1..Len(s) : t[i] = s[i]
  OBVIOUS
<1>3. DOMAIN t = 1..(Len(s) + 1) /\ DOMAIN s = 1..Len(s)
  OBVIOUS
<1> HIDE DEF t
<1>4. ToSet(t) = ToSet(s) \cup {a}
  <2>1. \A i \in 1..(Len(s) + 1) : i \in 1..Len(s) \/ i = Len(s) + 1
    BY <1>1
  <2>2. 1..Len(s) \subseteq 1..(Len(s) + 1) /\ Len(s) + 1 \in 1..(Len(s) + 1)
    BY <1>1
  <2> QED BY <1>2, <1>3, <2>1, <2>2 DEF ToSet
<1>5. ASSUME Once(s), a \notin ToSet(s) PROVE Once(t)
  BY <1>1, <1>2, <1>3, <1>5 DEF Once, ToSet
<1> QED BY <1>1, <1>4, <1>5 DEF t

LEMMA ConcatFacts ==
  ASSUME NEW A, NEW s \in Seq(A), NEW t \in Seq(A)
  PROVE  /\ s \o t \in Seq(A) /\ Len(s \o t) = Len(s) + Len(t)
         /\ ToSet(s \o t) = ToSet(s) \cup ToSet(t)
         /\ Once(s) /\ Once(t) /\ ToSet(s) \cap ToSet(t) = {} => Once(s \o t)
         /\ Once(s \o t) => Once(s) /\ Once(t) /\ ToSet(s) \cap ToSet(t) = {}
<1> DEFINE u == s \o t
<1>1. u \in Seq(A) /\ Len(s) \in Nat /\ Len(t) \in Nat /\ Len(u) = Len(s) + Len(t)
  OBVIOUS
<1>2. \A i \in 1..Len(s) : u[i] = s[i]
  OBVIOUS
<1>3. \A i \in 1..Len(t) : u[i + Len(s)] = t[i]
  OBVIOUS
<1>4. DOMAIN u = 1..Len(u) /\ DOMAIN s = 1..Len(s) /\ DOMAIN t = 1..Len(t)
  OBVIOUS
<1> HIDE DEF u
<1>5. \A i \in 1..Len(u) : i \in 1..Len(s) \/ (i - Len(s)) \in 1..Len(t)
  BY <1>1
<1>6. \A i \in 1..Len(u) : i \in 1..Len(s) \/ u[i] = t[i - Len(s)]
  BY <1>1, <1>3, <1>5
<1>7. ToSet(u) = ToSet(s) \cup ToSet(t)
  <2>1. ToSet(u) \subseteq ToSet(s) \cup ToSet(t)
    BY <1>2, <1>4, <1>5, <1>6 DEF ToSet
  <2>2. \A i \in 1..Len(s) : s[i] \in ToSet(u)
    <3>1. \A i \in 1..Len(s) : i \in 1..Len(u)
      BY <1>1
    <3> QED BY <3>1, <1>2, <1>4 DEF ToSet
  <2>3. \A i \in 1..Len(t) : t[i] \in ToSet(u)
    <3>1. \A i \in 1..Len(t) : i + Len(s) \in 1..Len(u)
      BY <1>1
    <3> QED BY <3>1, <1>3, <1>4 DEF ToSet
  <2> QED BY <2>1, <2>2, <2>3, <1>4 DEF ToSet
<1>8. ASSUME Once(s), Once(t), ToSet(s) \cap ToSet(t) = {} PROVE Once(u)
  <2> SUFFICES ASSUME NEW i \in 1..Len(u), NEW j \in 1..Len(u), u[i] = u[j] PROVE i = j
    BY DEF Once
  <2>1. CASE i \in 1..Len(s) /\ j \in 1..Len(s)
    BY <2>1, <1>2, <1>8 DEF Once
  <2>2. CASE i \notin 1..Len(s) /\ j \notin 1..Len(s)
    <3>1. i - Len(s) = j - Len(s)
      BY <2>2, <1>5, <1>6, <1>8 DEF Once
    <3> QED BY <3>1, <1>1
  <2>3. ASSUME NEW x \in 1..Len(u), NEW y \in 1..Len(u), u[x] = u[y],
               x \in 1..Len(s), y \notin 1..Len(s)
        PROVE FALSE
    <3>1. u[x] \in ToSet(s)
      BY <2>3, <1>2, <1>4 DEF ToSet
    <3>2. u[y] \in ToSet(t)
      BY <2>3, <1>4, <1>5, <1>6 DEF ToSet
    <3> QED BY <3>1, <3>2, <2>3, <1>8
  <2> QED BY <2>1, <2>2, <2>3
<1>9. ASSUME Once(u) PROVE Once(s) /\ Once(t) /\ ToSet(s) \cap ToSet(t) = {}
  <2>1. Once(s)
    <3>1. \A i \in 1..Len(s) : i \in 1..Len(u)
      BY <1>1
    <3> QED BY <3>1, <1>2, <1>9 DEF Once
  <2>2. Once(t)
    <3> SUFFICES ASSUME NEW i \in 1..Len(t), NEW j \in 1..Len(t), t[i] = t[j] PROVE i = j
      BY DEF Once
    <3>1. i + Len(s) \in 1..Len(u) /\ j + Len(s) \in 1..Len(u)
      BY <1>1
    <3>2. i + Len(s) = j + Len(s)
      BY <3>1, <1>3, <1>9 DEF Once
    <3> QED BY <3>2, <1>1
  <2>3. ASSUME NEW i \in 1..Len(s), NEW j \in 1..Len(t), s[i] = t[j] PROVE FALSE
    <3>1. i \in 1..Len(u) /\ j + Len(s) \in 1..Len(u)
      BY <1>1
    <3>2. i = j + Len(s)
      BY <3>1, <2>3, <1>2, <1>3, <1>9 DEF Once
    <3> QED BY <3>2, <1>1
  <2> QED BY <2>1, <2>2, <2>3, <1>4 DEF ToSet
<1> QED BY <1>1, <1>7, <1>8, <1>9 DEF u

\* The first n elements and the rest of a sequence.
LEMMA SplitFacts ==
  ASSUME NEW A, NEW s \in Seq(A), NEW n \in 0..Len(s)
  PROVE  LET rest == SubSeq(s, n + 1, Len(s))
             taken == {s[i] : i \in 1..n}
         IN /\ rest \in Seq(A) /\ Len(rest) = Len(s) - n
            /\ \A i \in 1..(Len(s) - n) : rest[i] = s[n + i]
            /\ ToSet(s) = taken \cup ToSet(rest)
            /\ Once(s) => Once(rest) /\ taken \cap ToSet(rest) = {}
<1> DEFINE rest == SubSeq(s, n + 1, Len(s))
           taken == {s[i] : i \in 1..n}
<1>1. Len(s) \in Nat /\ n \in Nat /\ n <= Len(s)
  OBVIOUS
<1>2. rest \in Seq(A) /\ Len(rest) = Len(s) - n
  BY <1>1
<1>3. \A i \in 1..(Len(s) - n) : rest[i] = s[n + i]
  BY <1>1
<1>4. DOMAIN s = 1..Len(s) /\ DOMAIN rest = 1..(Len(s) - n)
  BY <1>2
<1> HIDE DEF rest
<1>5. \A i \in 1..Len(s) : i \in 1..n \/ (i - n) \in 1..(Len(s) - n)
  BY <1>1
<1>6. \A i \in 1..Len(s) : i \in 1..n \/ s[i] = rest[i - n]
  BY <1>1, <1>3, <1>5
<1>7. ToSet(s) = taken \cup ToSet(rest)
  <2>1. ToSet(s) \subseteq taken \cup ToSet(rest)
    BY <1>4, <1>5, <1>6 DEF ToSet
  <2>2. taken \subseteq ToSet(s)
    <3>1. \A i \in 1..n : i \in 1..Len(s)
      BY <1>1
    <3> QED BY <3>1, <1>4 DEF ToSet
  <2>3. ToSet(rest) \subseteq ToSet(s)
    <3>1. \A i \in 1..(Len(s) - n) : n + i \in 1..Len(s)
      BY <1>1
    <3> QED BY <3>1, <1>3, <1>4 DEF ToSet
  <2> QED BY <2>1, <2>2, <2>3
<1>8. ASSUME Once(s) PROVE Once(rest) /\ taken \cap ToSet(rest) = {}
  <2>1. ASSUME NEW i \in 1..(Len(s) - n), NEW j \in 1..(Len(s) - n), rest[i] = rest[j]
        PROVE  i = j
    <3>1. n + i \in 1..Len(s) /\ n + j \in 1..Len(s)
      BY <1>1
    <3>2. n + i = n + j
      BY <3>1, <2>1, <1>3, <1>8 DEF Once
    <3> QED BY <3>2, <1>1
  <2>2. ASSUME NEW i \in 1..n, NEW j \in 1..(Len(s) - n), s[i] = rest[j]
        PROVE  FALSE
    <3>1. i \in 1..Len(s) /\ n + j \in 1..Len(s)
      BY <1>1
    <3>2. i = n + j
      BY <3>1, <2>2, <1>3, <1>8 DEF Once
    <3> QED BY <3>2, <1>1
  <2> QED BY <2>1, <2>2, <1>2, <1>4 DEF Once, ToSet
<1> QED BY <1>2, <1>3, <1>7, <1>8 DEF rest
LEMMA FrontFacts ==
  ASSUME NEW A, NEW s \in Seq(A), NEW n \in 0..Len(s)
  PROVE  /\ SubSeq(s, 1, n) \in Seq(A) /\ Len(SubSeq(s, 1, n)) = n
         /\ ToSet(SubSeq(s, 1, n)) = {s[i] : i \in 1..n}
         /\ Once(s) => Once(SubSeq(s, 1, n))
<1> DEFINE front == SubSeq(s, 1, n)
<1>1. n \in Nat /\ Len(s) \in Nat /\ n <= Len(s)
  OBVIOUS
<1>2. front \in Seq(A) /\ Len(front) = n /\ \A i \in 1..n : front[i] = s[i]
  BY <1>1
<1>3. DOMAIN front = 1..n
  BY <1>2
<1> HIDE DEF front
<1>4. \A i \in 1..n : i \in 1..Len(s)
  BY <1>1
<1> QED BY <1>2, <1>3, <1>4 DEF ToSet, Once, front
=============================================================================

--------------------------- MODULE RankingProofs ---------------------------
(***************************************************************************)
(* What the operators of Ranking are: the places of a finite set are 1 to  *)
(* its size, each taken once and in order; they move by one when an        *)
(* element goes, and not at all when a last one comes.                     *)
(***************************************************************************)
EXTENDS Ranking, SequencesExt, FiniteSetTheorems, SequenceTheorems, TLAPS

\* f numbers the elements of the finite set S, each differently.
Numbers(f, S) ==
  /\ IsFiniteSet(S)
  /\ \A i \in S : f[i] \in Nat
  /\ \A i, j \in S : f[i] = f[j] => i = j

\* Places are numbers from 1 to the size of the set.
LEMMA RankRange ==
  ASSUME NEW f, NEW S, Numbers(f, S), NEW i \in S
  PROVE  Rank(f, S, i) \in 1 .. Cardinality(S) /\ Cardinality(S) \in Nat
<1> DEFINE T == {j \in S : f[j] <= f[i]}
<1>1. i \in T BY DEF Numbers
<1>2. T \in SUBSET S /\ IsFiniteSet(S) BY DEF Numbers
<1>3. IsFiniteSet(T) /\ Cardinality(T) <= Cardinality(S) BY <1>2, FS_Subset
<1>4. Cardinality(T) \in Nat /\ Cardinality(S) \in Nat BY <1>2, <1>3, FS_CardinalityType
<1>5. Cardinality(T) # 0 BY <1>1, <1>3, FS_EmptySet
<1>6. Rank(f, S, i) = Cardinality(T) BY DEF Rank
<1> HIDE DEF T
<1> QED BY <1>3, <1>4, <1>5, <1>6

\* Places are in the order of the numbers.
LEMMA RankOrder ==
  ASSUME NEW f, NEW S, Numbers(f, S), NEW i \in S, NEW j \in S, f[i] < f[j]
  PROVE  Rank(f, S, i) < Rank(f, S, j)
<1> DEFINE I == {k \in S : f[k] <= f[i]}
           J == {k \in S : f[k] <= f[j]}
<1>0. f[i] \in Nat /\ f[j] \in Nat /\ \A k \in S : f[k] \in Nat BY DEF Numbers
<1>1. j \in J /\ j \notin I BY <1>0
<1>2. I \in SUBSET J
  <2>1. ASSUME NEW k \in I PROVE k \in J BY <1>0
  <2> QED BY <2>1
<1>3. J \in SUBSET S /\ IsFiniteSet(S) BY DEF Numbers
<1>4. IsFiniteSet(J) BY <1>3, FS_Subset
<1>5. /\ IsFiniteSet(I) /\ Cardinality(I) <= Cardinality(J)
      /\ Cardinality(J) = Cardinality(I) => J = I
  BY <1>2, <1>4, FS_Subset
<1>6. Cardinality(I) \in Nat /\ Cardinality(J) \in Nat BY <1>4, <1>5, FS_CardinalityType
<1>7. Rank(f, S, i) = Cardinality(I) /\ Rank(f, S, j) = Cardinality(J) BY DEF Rank
<1>8. J # I BY <1>1
<1> HIDE DEF I, J
<1> QED BY <1>5, <1>6, <1>7, <1>8

\* No two elements have the same place.
LEMMA RankInjective ==
  ASSUME NEW f, NEW S, Numbers(f, S), NEW i \in S, NEW j \in S,
         Rank(f, S, i) = Rank(f, S, j)
  PROVE  i = j
<1>1. f[i] \in Nat /\ f[j] \in Nat /\ (f[i] = f[j] => i = j) BY DEF Numbers
<1>2. Rank(f, S, i) \in Nat /\ Rank(f, S, j) \in Nat
  <2>1. Rank(f, S, i) \in 1 .. Cardinality(S) /\ Rank(f, S, j) \in 1 .. Cardinality(S)
        /\ Cardinality(S) \in Nat
    BY RankRange
  <2> QED BY <2>1
<1>3. CASE f[i] < f[j]
  <2>1. Rank(f, S, i) < Rank(f, S, j) BY <1>3, RankOrder
  <2> QED BY <1>2, <2>1
<1>4. CASE f[j] < f[i]
  <2>1. Rank(f, S, j) < Rank(f, S, i) BY <1>4, RankOrder
  <2> QED BY <1>2, <2>1
<1> QED BY <1>1, <1>3, <1>4

\* Every place is taken, and Nth finds who has it.
LEMMA NthIs ==
  ASSUME NEW f, NEW S, Numbers(f, S), NEW k \in 1 .. Cardinality(S)
  PROVE  Nth(f, S, k) \in S /\ Rank(f, S, Nth(f, S, k)) = k
<1> DEFINE T == 1 .. Cardinality(S)
           place == [i \in S |-> Rank(f, S, i)]
<1>0. IsFiniteSet(S) /\ Cardinality(S) \in Nat BY FS_CardinalityType DEF Numbers
<1>1. IsFiniteSet(T) /\ Cardinality(T) = Cardinality(S)
  <2>1. Cardinality(S) \in Int /\ 1 \in Int BY <1>0
  <2> QED BY <1>0, <2>1, FS_Interval
<1>2. place \in Injection(S, T)
  <2>1. place \in [S -> T] BY RankRange
  <2>2. \A i, j \in S : place[i] = place[j] => i = j BY RankInjective
  <2> QED BY <2>1, <2>2 DEF Injection, IsInjective
<1> HIDE DEF T, place
<1>3. place \in Surjection(S, T) BY <1>1, <1>2, FS_Injection
<1>4. PICK i \in S : place[i] = k BY <1>3 DEF Surjection, T
<1>5. Rank(f, S, i) = k BY <1>4 DEF place
<1> QED BY <1>5 DEF Nth

\* Nth undoes Rank.
LEMMA NthOfRank ==
  ASSUME NEW f, NEW S, Numbers(f, S), NEW i \in S
  PROVE  Nth(f, S, Rank(f, S, i)) = i
<1>1. Rank(f, S, i) \in 1 .. Cardinality(S) BY RankRange
<1>2. Nth(f, S, Rank(f, S, i)) \in S /\ Rank(f, S, Nth(f, S, Rank(f, S, i))) = Rank(f, S, i)
  BY <1>1, NthIs
<1> QED BY <1>2, RankInjective

\* When x goes, those before it keep their places and those after it move up.
LEMMA RankWithout ==
  ASSUME NEW f, NEW S, Numbers(f, S), NEW x \in S, NEW i \in S \ {x}
  PROVE  /\ Numbers(f, S \ {x})
         /\ Cardinality(S \ {x}) = Cardinality(S) - 1
         /\ Rank(f, S \ {x}, i) = IF Rank(f, S, i) < Rank(f, S, x) THEN Rank(f, S, i)
                                  ELSE Rank(f, S, i) - 1
<1> DEFINE T == S \ {x}
           A == {j \in S : f[j] <= f[i]}
           B == {j \in T : f[j] <= f[i]}
<1>0. IsFiniteSet(S) /\ (\A j \in S : f[j] \in Nat) /\ (\A j, k \in S : f[j] = f[k] => j = k)
  BY DEF Numbers
<1>1. IsFiniteSet(T) /\ Cardinality(T) = Cardinality(S) - 1 BY <1>0, FS_RemoveElement
<1>2. Numbers(f, T) BY <1>0, <1>1 DEF Numbers
<1>3. B = A \ {x} /\ IsFiniteSet(A)
  <2>1. A \in SUBSET S OBVIOUS
  <2> QED BY <1>0, <2>1, FS_Subset
<1>4. Rank(f, S, i) = Cardinality(A) /\ Rank(f, T, i) = Cardinality(B) BY DEF Rank
<1>5. Cardinality(B) = IF x \in A THEN Cardinality(A) - 1 ELSE Cardinality(A)
  BY <1>3, FS_RemoveElement
<1>6. x \in A <=> ~(Rank(f, S, i) < Rank(f, S, x))
  <2>1. f[i] \in Nat /\ f[x] \in Nat /\ f[i] # f[x] BY <1>0
  <2>2. Rank(f, S, i) \in Nat /\ Rank(f, S, x) \in Nat
    <3>1. Rank(f, S, i) \in 1 .. Cardinality(S) /\ Rank(f, S, x) \in 1 .. Cardinality(S)
          /\ Cardinality(S) \in Nat
      BY RankRange
    <3> QED BY <3>1
  <2>3. CASE f[x] < f[i]
    <3>1. Rank(f, S, x) < Rank(f, S, i) BY <2>3, RankOrder
    <3> QED BY <2>1, <2>2, <2>3, <3>1
  <2>4. CASE f[i] < f[x]
    <3>1. Rank(f, S, i) < Rank(f, S, x) BY <2>4, RankOrder
    <3> QED BY <2>1, <2>2, <2>4, <3>1
  <2> QED BY <2>1, <2>3, <2>4
<1> HIDE DEF A, B
<1> QED BY <1>1, <1>2, <1>4, <1>5, <1>6

\* An element that comes with a greater number than all takes the last place.
LEMMA RankWith ==
  ASSUME NEW f, NEW S, Numbers(f, S), NEW x, x \notin S, NEW g,
         g[x] \in Nat, \A i \in S : g[i] = f[i] /\ f[i] < g[x]
  PROVE  /\ Numbers(g, S \cup {x})
         /\ Cardinality(S \cup {x}) = Cardinality(S) + 1
         /\ \A i \in S : Rank(g, S \cup {x}, i) = Rank(f, S, i)
         /\ Rank(g, S \cup {x}, x) = Cardinality(S) + 1
<1> DEFINE T == S \cup {x}
<1>0. IsFiniteSet(S) /\ (\A j \in S : f[j] \in Nat) /\ (\A j, k \in S : f[j] = f[k] => j = k)
  BY DEF Numbers
<1>1. IsFiniteSet(T) /\ Cardinality(T) = Cardinality(S) + 1 BY <1>0, FS_AddElement
<1>2. Numbers(g, T)
  <2>1. \A i \in T : g[i] \in Nat BY <1>0
  <2>2. \A i \in S : g[i] # g[x] BY <1>0
  <2>3. \A i, j \in T : g[i] = g[j] => i = j BY <1>0, <2>2
  <2> QED BY <1>1, <2>1, <2>3 DEF Numbers
<1>3. ASSUME NEW i \in S PROVE Rank(g, T, i) = Rank(f, S, i)
  <2>1. {j \in T : g[j] <= g[i]} = {j \in S : f[j] <= f[i]}
    <3>1. ~(g[x] <= g[i]) BY <1>0
    <3> QED BY <1>0, <3>1
  <2> QED BY <2>1 DEF Rank
<1>4. Rank(g, T, x) = Cardinality(S) + 1
  <2>1. {j \in T : g[j] <= g[x]} = T BY <1>0
  <2> QED BY <1>1, <2>1 DEF Rank
<1> QED BY <1>1, <1>2, <1>3, <1>4

\* The kept elements are those at the places kept, each as often as it was kept.
LEMMA KeptIs ==
  ASSUME NEW S, NEW s \in Seq(S), NEW K \in SUBSET (1 .. Len(s))
  PROVE  /\ Kept(s, K) \in Seq(S)
         /\ IsFiniteSet(K) /\ Cardinality(K) \in Nat
         /\ Len(Kept(s, K)) = Cardinality(K) /\ Len(Kept(s, K)) <= Len(s)
         /\ \A n \in 1 .. Len(Kept(s, K)) : \E k \in K : Kept(s, K)[n] = s[k]
         /\ \A k \in K : \E n \in 1 .. Len(Kept(s, K)) : Kept(s, K)[n] = s[k]
         /\ (\A k, j \in K : s[k] = s[j] => k = j) =>
              \A n, m \in 1 .. Len(Kept(s, K)) : Kept(s, K)[n] = Kept(s, K)[m] => n = m
<1> DEFINE f == [i \in K |-> i]
           N == Cardinality(K)
           q == Kept(s, K)
<1>0. Len(s) \in Nat /\ \A k \in 1 .. Len(s) : s[k] \in S OBVIOUS
<1>1. IsFiniteSet(K) /\ N \in Nat /\ N <= Len(s)
  <2>0. \A n \in Nat : IsFiniteSet(1 .. n) /\ Cardinality(1 .. n) = n
    <3>1. ASSUME NEW n \in Nat PROVE IsFiniteSet(1 .. n) /\ Cardinality(1 .. n) = n
      BY FS_Interval
    <3> QED BY <3>1
  <2>1. IsFiniteSet(1 .. Len(s)) /\ Cardinality(1 .. Len(s)) = Len(s) BY <1>0, <2>0
  <2>2. IsFiniteSet(K) /\ Cardinality(K) <= Len(s) BY <2>1, FS_Subset
  <2> QED BY <2>2, FS_CardinalityType
<1>2. Numbers(f, K) BY <1>0, <1>1 DEF Numbers
<1>3. q = [k \in 1 .. N |-> s[Nth(f, K, k)]] BY DEF Kept
<1> HIDE DEF f, N, q
<1>4. \A k \in 1 .. N : Nth(f, K, k) \in K /\ Rank(f, K, Nth(f, K, k)) = k
  BY <1>2, NthIs DEF N
<1>5. \A k \in 1 .. N : s[Nth(f, K, k)] \in S BY <1>0, <1>4
<1>6. q \in Seq(S) /\ Len(q) = N
  <2>1. q \in [1 .. N -> S] BY <1>3, <1>5
  <2> QED BY <1>1, <2>1
<1>7. \A n \in 1 .. N : \E k \in K : q[n] = s[k] BY <1>3, <1>4
<1>8. ASSUME NEW k \in K PROVE \E n \in 1 .. N : q[n] = s[k]
  <2>1. Rank(f, K, k) \in 1 .. N /\ Nth(f, K, Rank(f, K, k)) = k
    BY <1>2, RankRange, NthOfRank DEF N
  <2> QED BY <1>3, <2>1
<1>9. ASSUME \A k, j \in K : s[k] = s[j] => k = j, NEW n \in 1 .. N, NEW m \in 1 .. N, q[n] = q[m]
      PROVE  n = m
  <2>1. Nth(f, K, n) = Nth(f, K, m) BY <1>3, <1>4, <1>9
  <2> QED BY <1>4, <2>1
<1> QED BY <1>1, <1>6, <1>7, <1>8, <1>9 DEF N, q

\* No element of s is at two places.
Distinct(s) == \A i, j \in 1 .. Len(s) : s[i] = s[j] => i = j

\* Leaving the elements of G out of a sequence.
LEMMA KeptOut ==
  ASSUME NEW S, NEW s \in Seq(S), NEW K \in SUBSET (1 .. Len(s)), NEW G,
         \A k \in 1 .. Len(s) : k \in K <=> s[k] \notin G
  PROVE  /\ Kept(s, K) \in Seq(S) /\ ToSet(Kept(s, K)) = ToSet(s) \ G
         /\ Distinct(s) => Distinct(Kept(s, K))
<1> DEFINE q == Kept(s, K)
<1>1. K \in SUBSET (1 .. Len(s)) OBVIOUS
<1>2. \A k \in 1 .. Len(s) : k \in K <=> s[k] \notin G OBVIOUS
<1>3. /\ q \in Seq(S)
      /\ \A n \in 1 .. Len(q) : \E k \in K : q[n] = s[k]
      /\ \A k \in K : \E n \in 1 .. Len(q) : q[n] = s[k]
      /\ (\A k, j \in K : s[k] = s[j] => k = j) =>
           \A n, m \in 1 .. Len(q) : q[n] = q[m] => n = m
  BY <1>1, KeptIs
<1> HIDE DEF q
<1>4. DOMAIN q = 1 .. Len(q) /\ DOMAIN s = 1 .. Len(s) BY <1>3
<1>5. ToSet(q) = ToSet(s) \ G
  <2>1. ASSUME NEW x \in ToSet(q) PROVE x \in ToSet(s) \ G
    <3>1. PICK n \in 1 .. Len(q) : x = q[n] BY <1>4 DEF ToSet
    <3>2. PICK k \in K : q[n] = s[k] BY <1>3
    <3> QED BY <1>1, <1>2, <1>4, <3>1, <3>2 DEF ToSet
  <2>2. ASSUME NEW x \in ToSet(s) \ G PROVE x \in ToSet(q)
    <3>1. PICK k \in 1 .. Len(s) : x = s[k] BY <1>4 DEF ToSet
    <3>2. k \in K BY <1>2, <3>1
    <3> QED BY <1>3, <1>4, <3>1, <3>2 DEF ToSet
  <2> QED BY <2>1, <2>2
<1>6. Distinct(s) => Distinct(q) BY <1>1, <1>3 DEF Distinct
<1> QED BY <1>3, <1>5, <1>6 DEF q

\* A set that has numbers has an element with the least of them.
LEMMA LeastBy ==
  ASSUME NEW S, S # {}, NEW f, \A i \in S : f[i] \in Nat
  PROVE  \E i \in S : \A j \in S : f[i] <= f[j]
<1> DEFINE T == {f[i] : i \in S}
<1>1. T \in SUBSET Nat /\ T # {} OBVIOUS
<1>2. PICK m \in T : \A k \in T : <<k, m>> \notin OpToRel(<, Nat)
  BY <1>1, NatLessThanWellFounded, WFMin
<1>3. ASSUME NEW k \in T PROVE m <= k
  <2>1. ~(k < m)
    <3>1. SUFFICES ASSUME k < m PROVE FALSE OBVIOUS
    <3>2. <<k, m>> \in Nat \X Nat /\ <<k, m>>[1] = k /\ <<k, m>>[2] = m BY <1>1
    <3>3. <<k, m>> \in OpToRel(<, Nat) BY <3>1, <3>2, Zenon DEF OpToRel
    <3> QED BY <1>2, <3>3
  <2> QED BY <1>1, <2>1
<1> QED BY <1>3

\* What RemoveAt leaves of a sequence.
LEMMA RemoveAtIs ==
  ASSUME NEW S, NEW s \in Seq(S), NEW i \in 1 .. Len(s)
  PROVE  /\ RemoveAt(s, i) \in Seq(S)
         /\ Len(RemoveAt(s, i)) = Len(s) - 1
         /\ \A k \in 1 .. Len(s) - 1 : RemoveAt(s, i)[k] = IF k < i THEN s[k] ELSE s[k + 1]
<1> DEFINE a == SubSeq(s, 1, i - 1)
           b == SubSeq(s, i + 1, Len(s))
<1>0. Len(s) \in Nat /\ i \in Int /\ \A k \in 1 .. Len(s) : s[k] \in S OBVIOUS
<1>1. /\ a \in Seq(S) /\ Len(a) = i - 1 /\ \A k \in 1 .. i - 1 : a[k] = s[k]
  <2>1. \A k \in 1 .. i - 1 : s[k] \in S BY <1>0
  <2>2. i - 1 \in Int /\ 1 \in Int BY <1>0
  <2>3. /\ SubSeq(s, 1, i - 1) \in Seq(S)
        /\ Len(SubSeq(s, 1, i - 1)) = IF 1 <= i - 1 THEN i - 1 - 1 + 1 ELSE 0
        /\ \A k \in 1 .. i - 1 - 1 + 1 : SubSeq(s, 1, i - 1)[k] = s[1 + k - 1]
    BY <2>1, <2>2, SubSeqProperties
  <2> QED BY <1>0, <2>3
<1>2. /\ b \in Seq(S) /\ Len(b) = Len(s) - i
      /\ \A k \in 1 .. Len(s) - i : b[k] = s[i + k]
  <2>1. \A k \in i + 1 .. Len(s) : s[k] \in S BY <1>0
  <2>2. i + 1 \in Int /\ Len(s) \in Int BY <1>0
  <2>3. /\ SubSeq(s, i + 1, Len(s)) \in Seq(S)
        /\ Len(SubSeq(s, i + 1, Len(s))) = IF i + 1 <= Len(s) THEN Len(s) - (i + 1) + 1 ELSE 0
        /\ \A k \in 1 .. Len(s) - (i + 1) + 1 : SubSeq(s, i + 1, Len(s))[k] = s[i + 1 + k - 1]
    BY <2>1, <2>2, SubSeqProperties
  <2> QED BY <1>0, <2>3
<1>3. RemoveAt(s, i) = a \o b BY DEF RemoveAt
<1> HIDE DEF a, b
<1>4. /\ a \o b \in Seq(S) /\ Len(a \o b) = Len(a) + Len(b)
      /\ \A k \in 1 .. Len(a) + Len(b) : (a \o b)[k] = IF k <= Len(a) THEN a[k] ELSE b[k - Len(a)]
  BY <1>1, <1>2, ConcatProperties
<1>5. ASSUME NEW k \in 1 .. Len(s) - 1
      PROVE  (a \o b)[k] = IF k < i THEN s[k] ELSE s[k + 1]
  <2>1. (a \o b)[k] = IF k <= i - 1 THEN a[k] ELSE b[k - (i - 1)] BY <1>0, <1>1, <1>2, <1>4
  <2>2. CASE k < i BY <1>0, <1>1, <2>1, <2>2
  <2>3. CASE ~(k < i)
    <3>1. k - (i - 1) \in 1 .. Len(s) - i /\ i + (k - (i - 1)) = k + 1 BY <1>0, <2>3
    <3> QED BY <1>0, <1>2, <2>1, <2>3, <3>1
  <2> QED BY <2>2, <2>3
<1>6. Len(a \o b) = Len(s) - 1 BY <1>0, <1>1, <1>2, <1>4
<1> QED BY <1>3, <1>4, <1>5, <1>6
=============================================================================

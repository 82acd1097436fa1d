--------------------------- MODULE GameItemsProofs ---------------------------
(***************************************************************************)
(* Proofs about the items of a game: what is held keeps within its arrays, *)
(* the floor's list is exact, what was dropped goes last, an id names one  *)
(* thing, no tool comes from nothing and only the tekker copies a weapon,  *)
(* for any number of players, seats, slots and requests.                   *)
(***************************************************************************)
EXTENDS GameItems, RankingProofs

LEMMA Sizes ==
  /\ Seats \in Nat \ {0} /\ Width \in Nat \ {0} /\ MAX_SAVED_ITEMS \in Nat \ {0}
  /\ Carry \in Nat \ {0} /\ BankSize \in Nat \ {0} /\ Stack \in Nat \ {0}
  /\ MaxBuy \in Nat /\ Stack <= MaxBuy
  /\ MaxWeapons \in Nat /\ MaxTools \in Nat /\ MaxTeks \in Nat /\ MaxIds \in Nat
  /\ None \notin Nat
BY ItemsAssumption

LEMMA ItemIs ==
  ASSUME NEW x \in Items
  PROVE  /\ x.id \in Nat /\ x.n \in Nat /\ x.n <= MaxBuy /\ x.n \in 0 .. MaxBuy
         /\ x.serial \in 0 .. MaxWeapons - 1 \cup {None} /\ x.raw \in BOOLEAN
         /\ x = [id |-> x.id, n |-> x.n, serial |-> x.serial, raw |-> x.raw]
BY Sizes DEF Items

LEMMA ItemMade ==
  ASSUME NEW id \in Nat, NEW n \in 0 .. MaxBuy, NEW serial \in 0 .. MaxWeapons - 1 \cup {None},
         NEW raw \in BOOLEAN
  PROVE  [id |-> id, n |-> n, serial |-> serial, raw |-> raw] \in Items
BY DEF Items

LEMMA ItemsOf ==
  ASSUME NEW s \in Seq(Items)
  PROVE  /\ Len(s) \in Nat
         /\ \A i \in 1 .. Len(s) : s[i] \in Items
OBVIOUS

\* One thing, whatever the number of a stack.
Like(a, b) == a.id = b.id /\ a.serial = b.serial /\ a.raw = b.raw

Positive(s) == \A i \in 1 .. Len(s) : s[i].n > 0

\* The items of r are those of s, each once, and what is in new: f tells where
\* each was.
Comes(s, r, new, f) ==
  /\ \A i \in 1 .. Len(r) :
       /\ f[i] \in Nat
       /\ \/ f[i] \in 1 .. Len(s) /\ Like(r[i], s[f[i]])
          \/ f[i] = Len(s) + 1 /\ \E x \in new : Like(r[i], x)
  /\ \A i, j \in 1 .. Len(r) : f[i] = f[j] => i = j

LEMMA ComesSame ==
  ASSUME NEW s \in Seq(Items), NEW r \in Seq(Items), Len(r) = Len(s),
         \A i \in 1 .. Len(s) : Like(r[i], s[i])
  PROVE  \E f : Comes(s, r, {}, f)
<1> DEFINE f == [i \in Nat |-> i]
<1>1. \A i \in 1 .. Len(r) : f[i] = i /\ i \in Nat OBVIOUS
<1> HIDE DEF f
<1>2. Comes(s, r, {}, f) BY <1>1 DEF Comes
<1> QED BY <1>2

\* One item is taken out.
LEMMA WithoutIs ==
  ASSUME NEW s \in Seq(Items), NEW i \in 1 .. Len(s)
  PROVE  /\ RemoveAt(s, i) \in Seq(Items) /\ Len(RemoveAt(s, i)) = Len(s) - 1
         /\ Positive(s) => Positive(RemoveAt(s, i))
         /\ \E f : /\ Comes(s, RemoveAt(s, i), {}, f)
                   /\ \A k \in 1 .. Len(RemoveAt(s, i)) : f[k] # i
<1> DEFINE r == RemoveAt(s, i)
           f == [k \in Nat |-> IF k < i THEN k ELSE k + 1]
<1>1. /\ r \in Seq(Items) /\ Len(r) = Len(s) - 1
      /\ \A k \in 1 .. Len(s) - 1 : r[k] = IF k < i THEN s[k] ELSE s[k + 1]
  BY RemoveAtIs
<1>2. i \in Nat /\ Len(s) \in Nat OBVIOUS
<1> HIDE DEF r
<1>3. ASSUME NEW k \in 1 .. Len(r)
      PROVE  f[k] \in 1 .. Len(s) /\ r[k] = s[f[k]] /\ f[k] # i
  <2>1. k \in Nat /\ k \in 1 .. Len(s) - 1 BY <1>1, <1>2
  <2>2. f[k] = IF k < i THEN k ELSE k + 1 BY <2>1
  <2> HIDE DEF f
  <2> QED BY <1>1, <1>2, <2>1, <2>2
<1>4. ASSUME NEW k \in 1 .. Len(r), NEW j \in 1 .. Len(r), f[k] = f[j] PROVE k = j
  <2>1. k \in Nat /\ j \in Nat BY <1>1, <1>2
  <2>2. f[k] = (IF k < i THEN k ELSE k + 1) /\ f[j] = IF j < i THEN j ELSE j + 1 BY <2>1
  <2>3. f[k] = f[j] BY <1>4
  <2> HIDE DEF f
  <2> QED BY <1>2, <2>1, <2>2, <2>3
<1> HIDE DEF f
<1>5. Comes(s, r, {}, f)
  <2>1. \A k \in 1 .. Len(r) : f[k] \in Nat /\ f[k] \in 1 .. Len(s) /\ r[k] = s[f[k]]
    BY <1>2, <1>3
  <2>2. \A k \in 1 .. Len(r) : Like(r[k], s[f[k]]) BY <2>1 DEF Like
  <2> QED BY <1>4, <2>1, <2>2, Zenon DEF Comes
<1>6. Positive(s) => Positive(r) BY <1>3 DEF Positive
<1> QED BY <1>1, <1>3, <1>5, <1>6 DEF r

\* Some of a stack, or all of it, are taken.
LEMMA TakeIs ==
  ASSUME NEW s \in Seq(Items), NEW i \in 1 .. Len(s), NEW n \in Nat
  PROVE  /\ Take(s, i, n) \in Seq(Items) /\ Len(Take(s, i, n)) <= Len(s)
         /\ Positive(s) => Positive(Take(s, i, n))
         /\ \E f : Comes(s, Take(s, i, n), {}, f)
<1>1. CASE n < s[i].n
  <2> DEFINE r == Take(s, i, n)
  <2>1. r = [s EXCEPT ![i].n = s[i].n - n] BY <1>1 DEF Take
  <2>2. s[i] \in Items /\ s[i].n \in Nat /\ s[i].n <= MaxBuy BY ItemIs, ItemsOf
  <2>3. s[i].n - n \in 0 .. MaxBuy /\ s[i].n - n > 0 BY <1>1, <2>2, Sizes
  <2>4. [s[i] EXCEPT !.n = s[i].n - n] \in Items BY <2>2, <2>3 DEF Items
  <2>5. r \in Seq(Items) /\ Len(r) = Len(s) BY <2>1, <2>4
  <2>6. \A k \in 1 .. Len(s) : k # i => r[k] = s[k] BY <2>1
  <2>7. r[i] = [s[i] EXCEPT !.n = s[i].n - n] BY <2>1
  <2>8. Like(r[i], s[i]) /\ r[i].n > 0 BY <2>2, <2>3, <2>7 DEF Like, Items
  <2> HIDE DEF r
  <2>9. \A k \in 1 .. Len(s) : Like(r[k], s[k]) BY <2>6, <2>8 DEF Like
  <2>10. \E f : Comes(s, r, {}, f) BY <2>5, <2>9, ComesSame
  <2>11. Positive(s) => Positive(r) BY <2>5, <2>6, <2>8 DEF Positive
  <2> QED BY <2>5, <2>10, <2>11 DEF r
<1>2. CASE ~(n < s[i].n)
  <2>1. Take(s, i, n) = RemoveAt(s, i) BY <1>2 DEF Take
  <2>2. /\ RemoveAt(s, i) \in Seq(Items) /\ Len(RemoveAt(s, i)) = Len(s) - 1
        /\ Positive(s) => Positive(RemoveAt(s, i))
        /\ \E f : Comes(s, RemoveAt(s, i), {}, f)
    BY WithoutIs
  <2>3. Len(s) \in Nat OBVIOUS
  <2> QED BY <2>1, <2>2, <2>3
<1> QED BY <1>1, <1>2

\* One item more, or more of a stack.
LEMMA PutIs ==
  ASSUME NEW s \in Seq(Items), NEW it \in Items, it.n > 0
  PROVE  /\ Put(s, it) \in Seq(Items) /\ Len(Put(s, it)) <= Len(s) + 1
         /\ Len(Put(s, it)) = Len(s) \/ Len(Put(s, it)) = Len(s) + 1
         /\ Len(Put(s, it)) > Len(s) => (IsTool(it) => ToolStack(s) = {})
         /\ Positive(s) => Positive(Put(s, it))
         /\ \E f : Comes(s, Put(s, it), {it}, f)
<1> DEFINE r == Put(s, it)
<1>1. /\ Stack \in Nat /\ Stack > 0 /\ MaxBuy \in Nat /\ Stack <= MaxBuy /\ Len(s) \in Nat
  BY Sizes
<1>2. CASE IsTool(it) /\ ToolStack(s) # {}
  <2>1. PICK i \in 1 .. Len(s) : r = [s EXCEPT ![i].n = Least(s[i].n + it.n, Stack)]
    BY <1>2 DEF Put, ToolStack
  <2>2. s[i] \in Items /\ s[i].n \in Nat /\ it.n \in Nat BY ItemIs, ItemsOf
  <2>3. Least(s[i].n + it.n, Stack) \in 0 .. MaxBuy /\ Least(s[i].n + it.n, Stack) > 0
    BY <1>1, <2>2 DEF Least
  <2>4. [s[i] EXCEPT !.n = Least(s[i].n + it.n, Stack)] \in Items BY <2>2, <2>3 DEF Items
  <2>5. r \in Seq(Items) /\ Len(r) = Len(s) BY <2>1, <2>4
  <2>6. \A k \in 1 .. Len(s) : k # i => r[k] = s[k] BY <2>1
  <2>7. r[i] = [s[i] EXCEPT !.n = Least(s[i].n + it.n, Stack)] BY <2>1
  <2>8. Like(r[i], s[i]) /\ r[i].n > 0 BY <2>2, <2>3, <2>7 DEF Like, Items
  <2> HIDE DEF r
  <2>9. \A k \in 1 .. Len(s) : Like(r[k], s[k]) BY <2>6, <2>8 DEF Like
  <2>10. PICK f : Comes(s, r, {}, f) BY <2>5, <2>9, ComesSame
  <2>11. Comes(s, r, {it}, f) BY <2>10 DEF Comes
  <2>12. Positive(s) => Positive(r) BY <2>5, <2>6, <2>8 DEF Positive
  <2> QED BY <1>1, <2>5, <2>11, <2>12 DEF r
<1>3. CASE ~(IsTool(it) /\ ToolStack(s) # {})
  <2>1. r = Append(s, it) BY <1>3 DEF Put
  <2>2. /\ r \in Seq(Items) /\ Len(r) = Len(s) + 1
        /\ \A k \in 1 .. Len(s) : r[k] = s[k]
        /\ r[Len(s) + 1] = it
    BY <2>1, AppendProperties
  <2> HIDE DEF r
  <2>3. IsTool(it) => ToolStack(s) = {} BY <1>3
  <2> DEFINE f == [k \in Nat |-> k]
  <2>4. ASSUME NEW k \in 1 .. Len(r)
        PROVE  k \in Nat /\ f[k] = k /\ (k \in 1 .. Len(s) \/ k = Len(s) + 1)
    BY <1>1, <2>2
  <2> HIDE DEF f
  <2>5. Comes(s, r, {it}, f)
    <3>1. ASSUME NEW k \in 1 .. Len(r)
          PROVE  /\ f[k] \in Nat
                 /\ \/ f[k] \in 1 .. Len(s) /\ Like(r[k], s[f[k]])
                    \/ f[k] = Len(s) + 1 /\ \E x \in {it} : Like(r[k], x)
      BY <2>2, <2>4 DEF Like
    <3>2. \A k, j \in 1 .. Len(r) : f[k] = f[j] => k = j BY <2>4
    <3> QED BY <3>1, <3>2 DEF Comes
  <2>6. Positive(s) => Positive(r) BY <2>2, <2>4 DEF Positive
  <2> QED BY <1>1, <2>2, <2>3, <2>5, <2>6 DEF r
<1> QED BY <1>2, <1>3

\* What a sort names, and that it is no more than there was when it names nothing
\* twice.
Picked(s, o, m) == [k \in 1 .. m |-> s[o[k]]]

LEMMA NamedIs ==
  ASSUME NEW s \in Seq(Items), NEW m \in Nat, NEW order \in [1 .. m -> 1 .. Len(s)]
  PROVE  /\ Picked(s, order, m) \in Seq(Items) /\ Len(Picked(s, order, m)) = m
         /\ Positive(s) => Positive(Picked(s, order, m))
         /\ (\A j, k \in 1 .. m : order[j] = order[k] => j = k) =>
               m <= Len(s) /\ Comes(s, Picked(s, order, m), {}, order)
<1> DEFINE r == Picked(s, order, m)
<1>0. r = [k \in 1 .. m |-> s[order[k]]] BY DEF Picked
<1> HIDE DEF r
<1>1. \A k \in 1 .. m : order[k] \in 1 .. Len(s) /\ r[k] = s[order[k]] BY <1>0
<1>2. r \in Seq(Items) /\ Len(r) = m BY <1>0, <1>1
<1>3. Positive(s) => Positive(r) BY <1>1, <1>2 DEF Positive
<1>4. ASSUME \A j, k \in 1 .. m : order[j] = order[k] => j = k
      PROVE  m <= Len(s) /\ Comes(s, r, {}, order)
  <2>1. Len(s) \in Nat OBVIOUS
  <2>2. Comes(s, r, {}, order) BY <1>1, <1>2, <1>4, <2>1 DEF Comes, Like
  <2>3. \A n \in Nat : IsFiniteSet(1 .. n) /\ Cardinality(1 .. n) = n
    <3>1. \A n \in Nat : 1 \in Int /\ n \in Int /\ (IF 1 > n THEN 0 ELSE n - 1 + 1) = n OBVIOUS
    <3> QED BY <3>1, FS_Interval
  <2>4. order \in Injection(1 .. m, 1 .. Len(s)) BY <1>4 DEF Injection, IsInjective
  <2>5. Cardinality(1 .. m) <= Cardinality(1 .. Len(s)) BY <2>1, <2>3, <2>4, FS_Injection
  <2> QED BY <2>1, <2>2, <2>3, <2>5
<1> QED BY <1>2, <1>3, <1>4 DEF r

\* Weapons before tools: the same items, as many.
LEMMA SortIs ==
  ASSUME NEW s \in Seq(Items)
  PROVE  /\ SortBankItems(s) \in Seq(Items) /\ Len(SortBankItems(s)) = Len(s)
         /\ \A k \in 1 .. Len(s) : \E i \in 1 .. Len(s) : SortBankItems(s)[k] = s[i]
<1> DEFINE T == {i \in 1 .. Len(s) : IsTool(s[i])}
           W == (1 .. Len(s)) \ T
           a == Kept(s, W)
           b == Kept(s, T)
<1>1. T \in SUBSET (1 .. Len(s)) /\ W \in SUBSET (1 .. Len(s)) OBVIOUS
<1>2. SortBankItems(s) = a \o b BY DEF SortBankItems
<1>3. Cardinality(W) + Cardinality(T) = Len(s)
  <2>1. Len(s) \in Nat BY ItemsOf
  <2>2. IsFiniteSet(1 .. Len(s)) /\ Cardinality(1 .. Len(s)) = Len(s) BY <2>1, FS_Interval, SMTT(60)
  <2>3. (1 .. Len(s)) \cap T = T BY <1>1
  <2> HIDE DEF T
  <2>4. /\ Cardinality((1 .. Len(s)) \ T) = Cardinality(1 .. Len(s)) - Cardinality((1 .. Len(s)) \cap T)
    BY <2>2, FS_Difference
  <2>5. Cardinality(T) \in Nat BY <1>1, <2>2, FS_Subset, FS_CardinalityType
  <2>6. Cardinality(W) = Len(s) - Cardinality(T) BY <2>2, <2>3, <2>4
  <2> HIDE DEF W
  <2> QED BY <2>1, <2>5, <2>6
<1> HIDE DEF T, W
<1>4. /\ a \in Seq(Items) /\ Cardinality(W) \in Nat /\ Len(a) = Cardinality(W)
      /\ \A n \in 1 .. Len(a) : \E k \in W : a[n] = s[k]
  BY <1>1, KeptIs
<1>5. /\ b \in Seq(Items) /\ Cardinality(T) \in Nat /\ Len(b) = Cardinality(T)
      /\ \A n \in 1 .. Len(b) : \E k \in T : b[n] = s[k]
  BY <1>1, KeptIs
<1> HIDE DEF a, b
<1>6. /\ a \o b \in Seq(Items) /\ Len(a \o b) = Len(a) + Len(b)
      /\ \A k \in 1 .. Len(a) + Len(b) : (a \o b)[k] = IF k <= Len(a) THEN a[k] ELSE b[k - Len(a)]
  BY <1>4, <1>5, ConcatProperties
<1>7. ASSUME NEW k \in 1 .. Len(s) PROVE \E i \in 1 .. Len(s) : (a \o b)[k] = s[i]
  <2>1. k \in 1 .. Len(a) + Len(b) BY <1>3, <1>4, <1>5
  <2>2. CASE k <= Len(a)
    <3>1. k \in 1 .. Len(a) /\ (a \o b)[k] = a[k] BY <1>4, <1>6, <2>1, <2>2
    <3> QED BY <1>1, <1>4, <3>1
  <2>3. CASE ~(k <= Len(a))
    <3>1. k - Len(a) \in 1 .. Len(b) /\ (a \o b)[k] = b[k - Len(a)]
      BY <1>4, <1>5, <1>6, <2>1, <2>3
    <3> QED BY <1>1, <1>5, <3>1
  <2> QED BY <2>2, <2>3
<1> QED BY <1>2, <1>3, <1>4, <1>5, <1>6, <1>7

----------------------------------------------------------------------------
(* The floor and its list                                                  *)

\* No stack of none lies on the floor, and the list has room for its names.
FloorFits(fl, li) ==
  /\ fl \in [Slots -> Items] /\ li \in Seq(Slots) /\ Len(li) <= MAX_SAVED_ITEMS
  /\ \A s \in Slots : fl[s].id # 0 => fl[s].n > 0

\* The list names what lies on the floor, each thing once.
FloorExact(fl, li) ==
  /\ Distinct(li)
  /\ \A s \in Slots : fl[s].id # 0 => \E i \in 1 .. Len(li) : li[i] = s
  /\ \A i \in 1 .. Len(li) : fl[li[i]].id # 0

FloorOK(fl, li, b) == FloorFits(fl, li) /\ (~b => FloorExact(fl, li))

LEMMA SlotsAre ==
  /\ IsFiniteSet(Slots) /\ Cardinality(Slots) = MAX_SAVED_ITEMS
  /\ \A s \in Slots : s \in Nat
  /\ \A k \in Nat : k < MAX_SAVED_ITEMS => k \in Slots
  /\ 0 \in Slots
<1>1. MAX_SAVED_ITEMS \in Nat /\ MAX_SAVED_ITEMS > 0 BY Sizes
<1>2. MAX_SAVED_ITEMS - 1 \in Int /\ 0 \in Int BY <1>1
<1>3. IsFiniteSet(0 .. MAX_SAVED_ITEMS - 1) /\ Cardinality(0 .. MAX_SAVED_ITEMS - 1) = MAX_SAVED_ITEMS
  BY <1>1, <1>2, FS_Interval
<1> QED BY <1>1, <1>3 DEF Slots

LEMMA NothingIs == NoItem \in Items /\ NoItem.id = 0 /\ NoFloor \in [Slots -> Items]
<1>1. NoItem = [id |-> 0, n |-> 0, serial |-> None, raw |-> FALSE] BY DEF NoItem, Tool
<1>2. 0 \in Nat /\ 0 \in 0 .. MaxBuy /\ None \in 0 .. MaxWeapons - 1 \cup {None} /\ FALSE \in BOOLEAN
  BY Sizes
<1>3. NoItem \in Items BY <1>1, <1>2, ItemMade
<1> QED BY <1>1, <1>3 DEF NoFloor

\* The list is as long as the floor only when the floor is full.
LEMMA ListFits ==
  ASSUME NEW fl, NEW li, FloorFits(fl, li), FloorExact(fl, li)
  PROVE  /\ Len(li) \in Nat
         /\ Len(li) < MAX_SAVED_ITEMS => \E s \in Slots : fl[s].id = 0
         /\ Len(li) = MAX_SAVED_ITEMS => \A s \in Slots : fl[s].id # 0
<1>1. Len(li) \in Nat /\ \A i \in 1 .. Len(li) : li[i] \in Slots BY DEF FloorFits, FloorExact
<1>2. li \in Injection(1 .. Len(li), Slots)
  <2>1. li \in [1 .. Len(li) -> Slots] BY DEF FloorFits, FloorExact
  <2> QED BY <2>1 DEF FloorFits, FloorExact, Distinct, Injection, IsInjective
<1>3. Cardinality(1 .. Len(li)) = Len(li)
  <2>1. \A n \in Nat : 1 \in Int /\ n \in Int /\ (IF 1 > n THEN 0 ELSE n - 1 + 1) = n OBVIOUS
  <2> QED BY <1>1, <2>1, FS_Interval
<1>4. /\ Cardinality(1 .. Len(li)) <= Cardinality(Slots)
      /\ Cardinality(1 .. Len(li)) = Cardinality(Slots) <=> li \in Surjection(1 .. Len(li), Slots)
  BY <1>2, SlotsAre, FS_Injection
<1>5. ASSUME Len(li) < MAX_SAVED_ITEMS PROVE \E s \in Slots : fl[s].id = 0
  <2>1. SUFFICES ASSUME \A s \in Slots : fl[s].id # 0 PROVE FALSE OBVIOUS
  <2>2. \A s \in Slots : \E i \in 1 .. Len(li) : li[i] = s BY <2>1 DEF FloorFits, FloorExact
  <2>3. li \in [1 .. Len(li) -> Slots] BY DEF FloorFits, FloorExact
  <2>4. li \in Surjection(1 .. Len(li), Slots) BY <2>2, <2>3 DEF Surjection
  <2> QED BY <1>1, <1>3, <1>4, <1>5, <2>4, SlotsAre
<1>6. ASSUME Len(li) = MAX_SAVED_ITEMS PROVE \A s \in Slots : fl[s].id # 0
  <2>1. li \in Surjection(1 .. Len(li), Slots) BY <1>3, <1>4, <1>6, SlotsAre
  <2>2. \A s \in Slots : \E i \in 1 .. Len(li) : li[i] = s BY <2>1 DEF Surjection
  <2> QED BY <2>2 DEF FloorFits, FloorExact
<1> QED BY <1>1, <1>3, <1>4, <1>5, <1>6, SlotsAre

LEMMA IdsAre ==
  /\ FirstFound \in Nat /\ FirstFound > 0
  /\ FirstId \in [0 .. Seats - 1 -> Nat]
  /\ \A c \in 0 .. Seats - 1 : FirstId[c] = 1 + c * Width /\ FirstId[c] > 0
<1>1. Seats \in Nat /\ Width \in Nat BY Sizes
<1>2. \A m, n \in Nat : m * n \in Nat OBVIOUS
<1>3. Seats * Width \in Nat BY <1>1, <1>2
<1>4. ASSUME NEW c \in 0 .. Seats - 1 PROVE c * Width \in Nat
  <2>1. c \in Nat BY <1>1
  <2> QED BY <1>1, <1>2, <2>1
<1>5. \A n \in Nat : 1 + n \in Nat /\ 1 + n > 0 OBVIOUS
<1>6. FirstFound \in Nat /\ FirstFound > 0 BY <1>3, <1>5 DEF FirstFound
<1>7. \A c \in 0 .. Seats - 1 : FirstId[c] = 1 + c * Width BY DEF FirstId
<1>8. \A c \in 0 .. Seats - 1 : 1 + c * Width \in Nat /\ 1 + c * Width > 0 BY <1>4, <1>5
<1>9. FirstId \in [0 .. Seats - 1 -> Nat] BY <1>8 DEF FirstId
<1> QED BY <1>6, <1>7, <1>8, <1>9

\* What a player dropped lies in this entry.
Dropped(t) == floor[t].id \in 1 .. FirstFound - 1

\* What DroppedGoesLast says of a step.
DropStep ==
  \A s \in Slots : Dropped(s) /\ floor'[s].id # floor[s].id =>
    \/ Len(list') < Len(list)
    \/ \A q \in Players : ~Here(q)'
    \/ \A t \in Slots : Dropped(t)

\* The entry that is used next is free as long as the list is not full, and then
\* that of a thing found if there is one.
LEMMA FreeIs ==
  ASSUME FloorFits(floor, list)
  PROVE  /\ free_game_item \in Slots
         /\ FloorExact(floor, list) /\ Len(list) < MAX_SAVED_ITEMS => floor[free_game_item].id = 0
         /\ Dropped(free_game_item) => \A t \in Slots : Dropped(t)
<1> DEFINE free == {s \in Slots : floor[s].id = 0}
           found == {s \in Slots : floor[s].id >= FirstFound}
<1>1. \A s \in Slots : floor[s] \in Items /\ floor[s].id \in Nat BY ItemIs DEF FloorFits
<1>2. FirstFound \in Nat /\ FirstFound > 0 BY IdsAre
<1>3. free_game_item = IF Len(list) \in free THEN Len(list)
      ELSE IF free # {} THEN CHOOSE s \in free : \A t \in free : s <= t
      ELSE IF found # {} THEN CHOOSE s \in found : \A t \in found : floor[s].id <= floor[t].id
      ELSE 0
  BY DEF free_game_item
<1>4. FloorExact(floor, list) /\ Len(list) < MAX_SAVED_ITEMS => free # {}
  <2>1. FloorExact(floor, list) /\ Len(list) < MAX_SAVED_ITEMS => \E s \in Slots : floor[s].id = 0 BY ListFits
  <2> QED BY <2>1
<1>5. \A s \in free : s \in Slots /\ floor[s].id = 0 /\ ~Dropped(s) BY <1>2 DEF Dropped
<1>6. \A s \in found : s \in Slots /\ ~Dropped(s) BY <1>1, <1>2 DEF Dropped
<1>7. free = {} /\ found = {} => \A t \in Slots : Dropped(t)
  <2>1. SUFFICES ASSUME free = {}, found = {}, NEW t \in Slots PROVE Dropped(t) OBVIOUS
  <2>2. floor[t].id # 0 /\ ~(floor[t].id >= FirstFound) BY <2>1
  <2> QED BY <1>1, <1>2, <2>2 DEF Dropped
<1>8. free \in SUBSET Slots /\ found \in SUBSET Slots OBVIOUS
<1>9. CASE Len(list) \in free BY <1>3, <1>5, <1>9
<1>10. CASE Len(list) \notin free /\ free # {}
  <2> HIDE DEF free, found
  <2> DEFINE f == [s \in free |-> s]
  <2>1. \A s \in free : f[s] \in Nat BY <1>8, SlotsAre
  <2>2. \E s \in free : \A t \in free : f[s] <= f[t]
    <3> HIDE DEF f
    <3> QED BY <1>10, <2>1, LeastBy
  <2>3. \E s \in free : \A t \in free : s <= t BY <2>2
  <2>4. free_game_item = CHOOSE s \in free : \A t \in free : s <= t BY <1>3, <1>10
  <2>5. free_game_item \in free BY <2>3, <2>4
  <2> QED BY <1>5, <2>5
<1>11. CASE free = {} /\ found # {}
  <2> HIDE DEF free, found
  <2> DEFINE f == [s \in found |-> floor[s].id]
  <2>1. \A s \in found : f[s] \in Nat BY <1>1, <1>8
  <2>2. \E s \in found : \A t \in found : f[s] <= f[t]
    <3> HIDE DEF f
    <3> QED BY <1>11, <2>1, LeastBy
  <2>3. \E s \in found : \A t \in found : floor[s].id <= floor[t].id BY <2>2
  <2>4. free_game_item = CHOOSE s \in found : \A t \in found : floor[s].id <= floor[t].id
    BY <1>3, <1>11
  <2>5. free_game_item \in found BY <2>3, <2>4
  <2> QED BY <1>4, <1>6, <1>11, <2>5
<1>12. CASE free = {} /\ found = {}
  <2> HIDE DEF free, found
  <2>1. free_game_item = 0 BY <1>3, <1>12
  <2> QED BY <1>4, <1>7, <1>12, <2>1, SlotsAre
<1> HIDE DEF free, found
<1> QED BY <1>9, <1>10, <1>11, <1>12

\* A thing laid on the floor is listed, once, and takes the place of nothing a
\* player dropped unless there is nothing else.
LEMMA LaidExact ==
  ASSUME FloorFits(floor, list), FloorExact(floor, list), NEW it \in Items, it.id # 0, Lay(it)
  PROVE  FloorExact(floor', list')
<1> DEFINE s == free_game_item
<1>1. /\ s \in Slots
      /\ Len(list) < MAX_SAVED_ITEMS => floor[s].id = 0
  BY FreeIs
<1>2. /\ floor' = [floor EXCEPT ![s] = it]
      /\ list' = IF Len(list) < MAX_SAVED_ITEMS THEN Append(list, s) ELSE list
  BY DEF Lay
<1> HIDE DEF s
<1>3. /\ Len(list) \in Nat /\ MAX_SAVED_ITEMS \in Nat /\ Len(list) <= MAX_SAVED_ITEMS
      /\ Len(list) = MAX_SAVED_ITEMS => \A t \in Slots : floor[t].id # 0
  BY ListFits, Sizes DEF FloorFits
<1>4. /\ floor \in [Slots -> Items] /\ list \in Seq(Slots) /\ Distinct(list)
      /\ \A t \in Slots : floor[t].id # 0 => \E i \in 1 .. Len(list) : list[i] = t
      /\ \A i \in 1 .. Len(list) : list[i] \in Slots /\ floor[list[i]].id # 0
  BY DEF FloorFits, FloorExact
<1>6. floor'[s] = it /\ \A t \in Slots : t # s => floor'[t] = floor[t] BY <1>1, <1>2, <1>4
<1>9. CASE Len(list) < MAX_SAVED_ITEMS
  <2>1. list' = Append(list, s) /\ floor[s].id = 0 BY <1>1, <1>2, <1>9
  <2>2. /\ list' \in Seq(Slots) /\ Len(list') = Len(list) + 1
        /\ \A i \in 1 .. Len(list) : list'[i] = list[i]
        /\ list'[Len(list) + 1] = s
    BY <1>1, <1>4, <2>1, AppendProperties
  <2>3. ASSUME NEW i \in 1 .. Len(list') PROVE i \in 1 .. Len(list) \/ i = Len(list) + 1
    BY <1>3, <2>2
  <2>4. \A i \in 1 .. Len(list) : list[i] # s BY <1>4, <2>1
  <2>5. Distinct(list') BY <1>4, <2>2, <2>3, <2>4 DEF Distinct
  <2>6. \A i \in 1 .. Len(list') : floor'[list'[i]].id # 0
    <3>1. ASSUME NEW i \in 1 .. Len(list') PROVE floor'[list'[i]].id # 0
      <4>1. CASE i \in 1 .. Len(list) BY <1>4, <1>6, <2>2, <2>4, <4>1
      <4>2. CASE i = Len(list) + 1 BY <1>6, <2>2, <4>2
      <4> QED BY <2>3, <4>1, <4>2
    <3> QED BY <3>1
  <2>7. ASSUME NEW t \in Slots, floor'[t].id # 0 PROVE \E i \in 1 .. Len(list') : list'[i] = t
    <3>1. Len(list) + 1 \in 1 .. Len(list') /\ \A i \in 1 .. Len(list) : i \in 1 .. Len(list')
      BY <1>3, <2>2
    <3>2. CASE t = s BY <2>2, <3>1, <3>2
    <3>3. CASE t # s
      <4>1. PICK i \in 1 .. Len(list) : list[i] = t BY <1>4, <1>6, <2>7, <3>3
      <4> QED BY <2>2, <3>1, <4>1
    <3> QED BY <3>2, <3>3
  <2> QED BY <2>5, <2>6, <2>7 DEF FloorExact
<1>10. CASE ~(Len(list) < MAX_SAVED_ITEMS)
  <2>1. list' = list /\ \A t \in Slots : floor[t].id # 0 BY <1>2, <1>3, <1>10
  <2>2. \A t \in Slots : \E i \in 1 .. Len(list') : list'[i] = t BY <1>4, <2>1
  <2>3. \A i \in 1 .. Len(list') : floor'[list'[i]].id # 0 BY <1>4, <1>6, <2>1
  <2> QED BY <1>4, <2>1, <2>2, <2>3 DEF FloorExact
<1> QED BY <1>9, <1>10

LEMMA LayIs ==
  ASSUME FloorOK(floor, list, blanked), NEW it \in Items, it.id # 0, it.n > 0, Lay(it),
         blanked' = blanked
  PROVE  /\ FloorOK(floor', list', blanked') /\ DropStep
         /\ \E s \in Slots : floor' = [floor EXCEPT ![s] = it]
<1> DEFINE s == free_game_item
<1>0. FloorFits(floor, list) BY DEF FloorOK
<1>1. s \in Slots /\ (Dropped(s) => \A t \in Slots : Dropped(t)) BY <1>0, FreeIs
<1>2. /\ floor' = [floor EXCEPT ![s] = it]
      /\ list' = IF Len(list) < MAX_SAVED_ITEMS THEN Append(list, s) ELSE list
  BY DEF Lay
<1> HIDE DEF s
<1>3. /\ floor \in [Slots -> Items] /\ list \in Seq(Slots) /\ Len(list) <= MAX_SAVED_ITEMS
      /\ \A t \in Slots : floor[t].id # 0 => floor[t].n > 0
  BY <1>0 DEF FloorFits
<1>4. floor' \in [Slots -> Items] BY <1>1, <1>2, <1>3
<1>5. floor'[s] = it /\ \A t \in Slots : t # s => floor'[t] = floor[t] BY <1>1, <1>2, <1>3
<1>6. \A t \in Slots : floor'[t].id # 0 => floor'[t].n > 0 BY <1>3, <1>5
<1>7. list' \in Seq(Slots) /\ Len(list') <= MAX_SAVED_ITEMS
  <2>1. Len(list) \in Nat /\ MAX_SAVED_ITEMS \in Nat BY <1>3, Sizes
  <2>2. CASE Len(list) < MAX_SAVED_ITEMS
    <3>1. list' = Append(list, s) BY <1>2, <2>2
    <3>2. list' \in Seq(Slots) /\ Len(list') = Len(list) + 1 BY <1>1, <1>3, <3>1, AppendProperties
    <3> QED BY <2>1, <2>2, <3>2
  <2>3. CASE ~(Len(list) < MAX_SAVED_ITEMS) BY <1>2, <1>3, <2>3
  <2> QED BY <2>2, <2>3
<1>8. DropStep
  <2>1. ASSUME NEW t \in Slots, Dropped(t), floor'[t].id # floor[t].id
        PROVE  \A u \in Slots : Dropped(u)
    <3>1. t = s BY <1>5, <2>1
    <3> QED BY <1>1, <2>1, <3>1
  <2> QED BY <2>1 DEF DropStep
<1>9. FloorFits(floor', list') BY <1>4, <1>6, <1>7 DEF FloorFits
<1>10. ~blanked' => FloorExact(floor', list') BY <1>0, LaidExact DEF FloorOK
<1> QED BY <1>1, <1>2, <1>8, <1>9, <1>10 DEF FloorOK

\* The oldest thing found makes room for nothing.
LEMMA FreedIs ==
  ASSUME FloorOK(floor, list, blanked), floor[free_game_item].id >= FirstFound,
         floor' = [floor EXCEPT ![free_game_item] = NoItem], list' = list, blanked' = TRUE
  PROVE  FloorOK(floor', list', blanked') /\ DropStep
<1> DEFINE s == free_game_item
<1>1. FloorFits(floor, list) BY DEF FloorOK
<1>2. s \in Slots BY <1>1, FreeIs
<1>3. /\ floor \in [Slots -> Items] /\ list \in Seq(Slots) /\ Len(list) <= MAX_SAVED_ITEMS
      /\ \A t \in Slots : floor[t].id # 0 => floor[t].n > 0
  BY <1>1 DEF FloorFits
<1>4. floor' = [floor EXCEPT ![s] = NoItem] /\ floor[s].id >= FirstFound OBVIOUS
<1> HIDE DEF s
<1>5. floor'[s] = NoItem /\ \A t \in Slots : t # s => floor'[t] = floor[t] BY <1>2, <1>3, <1>4
<1>6. floor' \in [Slots -> Items] BY <1>2, <1>3, <1>4, NothingIs
<1>7. FloorFits(floor', list') BY <1>3, <1>5, <1>6, NothingIs DEF FloorFits
<1>8. ~Dropped(s)
  <2>1. floor[s].id \in Nat /\ FirstFound \in Nat BY <1>2, <1>3, ItemIs, IdsAre
  <2> QED BY <1>4, <2>1 DEF Dropped
<1>9. \A t \in Slots : Dropped(t) => floor'[t] = floor[t] BY <1>5, <1>8
<1>10. DropStep BY <1>9 DEF DropStep
<1> QED BY <1>7, <1>10 DEF FloorOK

\* Something is taken from the floor, and from the list.
LEMMA LiftExact ==
  ASSUME NEW fl, NEW li, FloorFits(fl, li), FloorExact(fl, li), NEW i \in 1 .. Len(li), NEW r,
         r \in Seq(Slots), Len(r) = Len(li) - 1,
         \A k \in 1 .. Len(li) - 1 : r[k] = IF k < i THEN li[k] ELSE li[k + 1]
  PROVE  FloorExact([fl EXCEPT ![li[i]] = NoItem], r)
<1> DEFINE g == [fl EXCEPT ![li[i]] = NoItem]
<1>1. /\ fl \in [Slots -> Items] /\ li \in Seq(Slots)
      /\ \A k, j \in 1 .. Len(li) : li[k] = li[j] => k = j
      /\ \A t \in Slots : fl[t].id # 0 => \E k \in 1 .. Len(li) : li[k] = t
      /\ \A k \in 1 .. Len(li) : li[k] \in Slots /\ fl[li[k]].id # 0
  BY DEF FloorFits, FloorExact, Distinct
<1>2. i \in Nat /\ Len(li) \in Nat /\ i <= Len(li) /\ 1 <= i BY <1>1
<1>3. /\ g \in [Slots -> Items]
      /\ g[li[i]].id = 0 /\ \A t \in Slots : t # li[i] => g[t] = fl[t]
  BY <1>1, NothingIs
<1> HIDE DEF g
<1>4. ASSUME NEW k \in 1 .. Len(r)
      PROVE  \E j \in 1 .. Len(li) : j # i /\ r[k] = li[j] /\ j = IF k < i THEN k ELSE k + 1
  <2>1. k \in 1 .. Len(li) - 1 /\ k \in Nat BY <1>2
  <2>2. r[k] = IF k < i THEN li[k] ELSE li[k + 1] BY <2>1
  <2>3. CASE k < i
    <3>1. k \in 1 .. Len(li) /\ k # i BY <1>2, <2>1, <2>3
    <3> QED BY <2>2, <2>3, <3>1
  <2>4. CASE ~(k < i)
    <3>1. k + 1 \in 1 .. Len(li) /\ k + 1 # i BY <1>2, <2>1, <2>4
    <3> QED BY <2>2, <2>4, <3>1
  <2> QED BY <2>3, <2>4
<1>5. ASSUME NEW j \in 1 .. Len(li), j # i
      PROVE  \E k \in 1 .. Len(r) : r[k] = li[j]
  <2>1. j \in Nat BY <1>2
  <2>2. CASE j < i
    <3>1. j \in 1 .. Len(r) /\ j \in 1 .. Len(li) - 1 BY <1>2, <2>1, <2>2
    <3>2. r[j] = li[j] BY <2>2, <3>1
    <3> QED BY <3>1, <3>2
  <2>3. CASE ~(j < i)
    <3>1. j - 1 \in 1 .. Len(r) /\ j - 1 \in 1 .. Len(li) - 1 /\ ~(j - 1 < i) /\ (j - 1) + 1 = j
      BY <1>2, <1>5, <2>1, <2>3
    <3>2. r[j - 1] = li[j] BY <3>1
    <3> QED BY <3>1, <3>2
  <2> QED BY <2>2, <2>3
<1>6. Distinct(r)
  <2>1. ASSUME NEW k \in 1 .. Len(r), NEW m \in 1 .. Len(r), r[k] = r[m] PROVE k = m
    <3>1. PICK j \in 1 .. Len(li) : r[k] = li[j] /\ j = IF k < i THEN k ELSE k + 1 BY <1>4
    <3>2. PICK l \in 1 .. Len(li) : r[m] = li[l] /\ l = IF m < i THEN m ELSE m + 1 BY <1>4
    <3>5. \A a, b \in 1 .. Len(li) : li[a] = li[b] => a = b BY <1>1
    <3>6. li[j] = li[l] BY <2>1, <3>1, <3>2
    <3>3. j = l BY <3>5, <3>6
    <3>4. k \in Nat /\ m \in Nat BY <1>2
    <3> QED BY <1>2, <3>1, <3>2, <3>3, <3>4
  <2> QED BY <2>1 DEF Distinct
<1>7. \A k \in 1 .. Len(r) : g[r[k]].id # 0
  <2>1. ASSUME NEW k \in 1 .. Len(r) PROVE g[r[k]].id # 0
    <3>1. PICK j \in 1 .. Len(li) : j # i /\ r[k] = li[j] BY <1>4
    <3> QED BY <1>1, <1>3, <3>1
  <2> QED BY <2>1
<1>8. ASSUME NEW t \in Slots, g[t].id # 0
      PROVE  \E k \in 1 .. Len(r) : r[k] = t
  <2>1. t # li[i] /\ g[t] = fl[t] BY <1>3, <1>8
  <2>2. PICK j \in 1 .. Len(li) : li[j] = t BY <1>1, <1>8, <2>1
  <2> QED BY <1>1, <1>5, <1>8, <2>1, <2>2
<1>9. FloorExact(g, r) BY <1>6, <1>7, <1>8 DEF FloorExact
<1> QED BY <1>9 DEF g

LEMMA LiftIs ==
  ASSUME NEW fl, NEW li, NEW b, FloorOK(fl, li, b), NEW i \in 1 .. Len(li), NEW r,
         r \in Seq(Slots), Len(r) = Len(li) - 1,
         \A k \in 1 .. Len(li) - 1 : r[k] = IF k < i THEN li[k] ELSE li[k + 1]
  PROVE  FloorOK([fl EXCEPT ![li[i]] = NoItem], r, b)
<1> DEFINE g == [fl EXCEPT ![li[i]] = NoItem]
<1>1. FloorFits(fl, li) BY DEF FloorOK
<1>2. /\ fl \in [Slots -> Items] /\ li \in Seq(Slots) /\ Len(li) <= MAX_SAVED_ITEMS
      /\ \A t \in Slots : fl[t].id # 0 => fl[t].n > 0
  BY <1>1 DEF FloorFits
<1>3. li[i] \in Slots /\ Len(li) \in Nat /\ MAX_SAVED_ITEMS \in Nat BY <1>2, Sizes
<1>4. g \in [Slots -> Items] /\ \A t \in Slots : g[t] = IF t = li[i] THEN NoItem ELSE fl[t]
  BY <1>2, <1>3, NothingIs
<1>5. ~b => FloorExact(g, r) BY <1>1, LiftExact DEF FloorOK
<1> HIDE DEF g
<1>6. \A t \in Slots : g[t].id # 0 => g[t].n > 0 BY <1>2, <1>4, NothingIs
<1>7. Len(r) <= MAX_SAVED_ITEMS BY <1>2, <1>3
<1>8. FloorFits(g, r) BY <1>4, <1>6, <1>7 DEF FloorFits
<1> QED BY <1>5, <1>8 DEF FloorOK, g

----------------------------------------------------------------------------
(* The invariant of the limits and of the list                             *)

\* Every item has an id, as those of the players in the game do.
Named(s) == \A i \in 1 .. Len(s) : s[i].id # 0

HeldOK ==
  /\ inv \in [Players -> Seq(Items)] /\ tail \in [Players -> Seq(Items)]
  /\ blanks \in [Players -> Nat]
  /\ \A q \in Players : /\ Len(inv[q]) + blanks[q] + Len(tail[q]) <= Carry
                        /\ Positive(inv[q]) /\ (Here(q) => Named(inv[q]))
                        /\ Positive(tail[q]) /\ Named(tail[q])

\* Nothing lies behind the last entry until somebody names a thing twice.
TailOK == doubled \in Nat /\ (doubled = 0 => \A q \in Players : tail[q] = <<>>)

BankOK ==
  /\ bank \in [Players -> Seq(Items)]
  /\ \A q \in Players : Len(bank[q]) <= BankSize

TekOK ==
  /\ tekked \in [Players -> Items]
  /\ \A q \in Players : tekked[q].id # 0 => tekked[q].n > 0

SeatOK == seat \in [Players -> 0 .. Seats - 1 \cup {None}]

IdsOK ==
  /\ itemID \in Nat /\ itemID >= FirstFound
  /\ playerItemID \in [0 .. Seats - 1 -> Nat]
  /\ \A c \in 0 .. Seats - 1 : playerItemID[c] >= FirstId[c]
  /\ weapons \in Nat

ItemsInv ==
  HeldOK /\ TailOK /\ BankOK /\ TekOK /\ SeatOK /\ IdsOK /\ FloorOK(floor, list, blanked) /\ blanked \in BOOLEAN

LEMMA ComesNamed ==
  ASSUME NEW s \in Seq(Items), NEW r \in Seq(Items), NEW new, NEW f, Comes(s, r, new, f),
         Named(s), \A x \in new : x.id # 0
  PROVE  Named(r)
<1>1. ASSUME NEW i \in 1 .. Len(r) PROVE r[i].id # 0
  <2>1. \/ f[i] \in 1 .. Len(s) /\ Like(r[i], s[f[i]])
        \/ \E x \in new : Like(r[i], x)
    BY DEF Comes
  <2> QED BY <2>1 DEF Named, Like
<1> QED BY <1>1 DEF Named

\* One player's items change, and nobody sits down.
LEMMA HeldChanged ==
  ASSUME HeldOK, NEW p \in Players, NEW r \in Seq(Items), NEW b \in Nat, NEW s \in Seq(Items),
         inv' = [inv EXCEPT ![p] = r], blanks' = [blanks EXCEPT ![p] = b],
         tail' = [tail EXCEPT ![p] = s], Len(r) + b + Len(s) <= Carry,
         Positive(r), Here(p) => Named(r), Positive(s), Named(s),
         \A q \in Players : Here(q)' => Here(q)
  PROVE  HeldOK'
<1>1. /\ inv' \in [Players -> Seq(Items)] /\ tail' \in [Players -> Seq(Items)]
      /\ blanks' \in [Players -> Nat]
  BY DEF HeldOK
<1>2. /\ inv'[p] = r /\ \A q \in Players : q # p => inv'[q] = inv[q]
      /\ blanks'[p] = b /\ \A q \in Players : q # p => blanks'[q] = blanks[q]
      /\ tail'[p] = s /\ \A q \in Players : q # p => tail'[q] = tail[q]
  BY DEF HeldOK
<1>3. ASSUME NEW q \in Players
      PROVE  /\ Len(inv'[q]) + blanks'[q] + Len(tail'[q]) <= Carry
             /\ Positive(inv'[q]) /\ (Here(q)' => Named(inv'[q]))
             /\ Positive(tail'[q]) /\ Named(tail'[q])
  <2>1. CASE q = p BY <1>2, <2>1
  <2>2. CASE q # p BY <1>2, <2>2 DEF HeldOK
  <2> QED BY <2>1, <2>2
<1>4. \A q \in Players : (Positive(inv[q]))' = Positive(inv'[q]) /\ (Positive(tail[q]))' = Positive(tail'[q])
  BY DEF Positive
<1>5. \A q \in Players : (Named(inv[q]))' = Named(inv'[q]) /\ (Named(tail[q]))' = Named(tail'[q])
  BY DEF Named
<1> QED BY <1>1, <1>3, <1>4, <1>5 DEF HeldOK

LEMMA HeldStays ==
  ASSUME HeldOK, UNCHANGED pack, \A q \in Players : Here(q)' => Here(q)
  PROVE  HeldOK'
<1>1. inv' = inv /\ blanks' = blanks /\ tail' = tail BY DEF pack
<1>2. \A q \in Players : (Positive(inv[q]))' = Positive(inv'[q]) /\ (Named(inv[q]))' = Named(inv'[q])
  BY DEF Positive, Named
<1>3. \A q \in Players : (Positive(tail[q]))' = Positive(tail'[q]) /\ (Named(tail[q]))' = Named(tail'[q])
  BY DEF Positive, Named
<1> QED BY <1>1, <1>2, <1>3 DEF HeldOK

\* Nothing is put behind the last entry.
LEMMA TailStays ==
  ASSUME HeldOK, TailOK, NEW p \in Players, NEW s \in Seq(Items), tail[p] = <<>> => s = <<>>,
         tail' = tail \/ tail' = [tail EXCEPT ![p] = s], doubled' = doubled
  PROVE  TailOK'
<1>1. CASE tail' = tail BY <1>1 DEF TailOK
<1>2. CASE tail' = [tail EXCEPT ![p] = s]
  <2>1. \A q \in Players : tail'[q] = IF q = p THEN s ELSE tail[q] BY <1>2 DEF HeldOK
  <2> QED BY <2>1 DEF TailOK
<1> QED BY <1>1, <1>2

\* The floor and the list before the turn's end: as they were, or with one
\* thing less.
Moved(fl, li) ==
  \/ fl = floor /\ li = list
  \/ Len(li) < Len(list)

LEMMA StayIs ==
  ASSUME NEW fl, NEW li, FloorOK(fl, li, blanked), Moved(fl, li), Stay(fl, li), SeatOK,
         blanked \in BOOLEAN
  PROVE  /\ FloorOK(floor', list', blanked') /\ blanked' \in BOOLEAN /\ DropStep
         /\ SeatOK' /\ \A q \in Players : Here(q)' => Here(q)
<1>1. floor' = fl /\ list' = li /\ seat' = seat /\ blanked' = blanked BY DEF Stay
<1>2. DropStep
  <2>1. CASE fl = floor /\ li = list BY <1>1, <2>1 DEF DropStep
  <2>2. CASE Len(li) < Len(list) BY <1>1, <2>2 DEF DropStep
  <2> QED BY <2>1, <2>2 DEF Moved
<1>3. SeatOK' /\ \A q \in Players : Here(q)' => Here(q) BY <1>1 DEF SeatOK, Here
<1> QED BY <1>1, <1>2, <1>3

LEMMA GoIs ==
  ASSUME NEW fl, NEW li, FloorOK(fl, li, blanked), Moved(fl, li),
         NEW p \in Players, Go(p, fl, li), SeatOK, blanked \in BOOLEAN
  PROVE  /\ FloorOK(floor', list', blanked') /\ blanked' \in BOOLEAN /\ DropStep
         /\ SeatOK' /\ \A q \in Players : Here(q)' => Here(q)
<1> DEFINE last == \A q \in Players \ {p} : ~Here(q)
<1>1. /\ seat' = [seat EXCEPT ![p] = None]
      /\ last => floor' = NoFloor /\ list' = <<>> /\ blanked' = FALSE
      /\ ~last => floor' = fl /\ list' = li /\ blanked' = blanked
  BY DEF Go
<1>0. last \/ ~last OBVIOUS
<1>2. SeatOK' BY <1>1 DEF SeatOK
<1>3. seat'[p] = None /\ \A q \in Players : q # p => seat'[q] = seat[q] BY <1>1 DEF SeatOK
<1>4. last => \A q \in Players : ~Here(q)' BY <1>3 DEF Here
<1> HIDE DEF last
<1>5. \A q \in Players : Here(q)' => Here(q) BY <1>3 DEF Here
<1>6. CASE last
  <2>1. floor' = NoFloor /\ list' = <<>> /\ blanked' = FALSE BY <1>1, <1>6
  <2>2. \A s \in Slots : floor'[s].id = 0 BY <2>1, NothingIs DEF NoFloor
  <2>3. floor' \in [Slots -> Items] BY <2>1, NothingIs
  <2>4. list' \in Seq(Slots) /\ Len(list') = 0 BY <2>1
  <2>5. Distinct(list') /\ \A i \in 1 .. Len(list') : FALSE BY <2>4 DEF Distinct
  <2>6. FloorExact(floor', list') BY <2>2, <2>5 DEF FloorExact
  <2>7. FloorFits(floor', list') BY <2>2, <2>3, <2>4, Sizes DEF FloorFits
  <2>8. DropStep BY <1>4, <1>6 DEF DropStep
  <2> QED BY <1>2, <1>5, <2>1, <2>6, <2>7, <2>8 DEF FloorOK
<1>7. CASE ~last
  <2>1. floor' = fl /\ list' = li /\ blanked' = blanked BY <1>1, <1>7
  <2>2. DropStep
    <3>1. CASE fl = floor /\ li = list BY <2>1, <3>1 DEF DropStep
    <3>2. CASE Len(li) < Len(list) BY <2>1, <3>2 DEF DropStep
    <3> QED BY <3>1, <3>2 DEF Moved
  <2> QED BY <1>2, <1>5, <2>1, <2>2
<1> QED BY <1>0, <1>6, <1>7

----------------------------------------------------------------------------
(* One lemma for each request                                              *)

LEMMA InitItems == Init => ItemsInv
<1> SUFFICES ASSUME Init PROVE ItemsInv OBVIOUS
<1>1. <<>> \in Seq(Items) /\ Len(<<>>) = 0 /\ Positive(<<>>) /\ Named(<<>>) BY DEF Positive, Named
<1>2. HeldOK
  <2>1. /\ \A q \in Players : inv[q] = <<>> /\ blanks[q] = 0 /\ tail[q] = <<>>
        /\ inv \in [Players -> Seq(Items)] /\ tail \in [Players -> Seq(Items)]
        /\ blanks \in [Players -> Nat]
    BY DEF Init
  <2>2. 0 + 0 + 0 <= Carry BY Sizes
  <2> QED BY <1>1, <2>1, <2>2 DEF HeldOK
<1>8. TailOK /\ blanked \in BOOLEAN BY DEF Init, TailOK
<1>3. BankOK BY <1>1, Sizes DEF Init, BankOK
<1>4. TekOK BY NothingIs DEF Init, TekOK
<1>5. SeatOK BY DEF Init, SeatOK
<1>6. IdsOK
  <2>1. \A n \in Nat : n >= n OBVIOUS
  <2>2. itemID = FirstFound /\ playerItemID = FirstId /\ weapons = 0 BY DEF Init
  <2>3. \A c \in 0 .. Seats - 1 : FirstId[c] \in Nat BY IdsAre
  <2> QED BY <2>1, <2>2, <2>3, IdsAre DEF IdsOK
<1>7. FloorOK(floor, list, blanked)
  <2>1. floor = NoFloor /\ list = <<>> BY DEF Init
  <2>2. floor \in [Slots -> Items] /\ \A s \in Slots : floor[s].id = 0 BY <2>1, NothingIs DEF NoFloor
  <2>3. list \in Seq(Slots) /\ Len(list) = 0 BY <2>1
  <2>4. Distinct(list) /\ \A i \in 1 .. Len(list) : FALSE BY <2>3 DEF Distinct
  <2> QED BY <2>2, <2>3, <2>4, Sizes DEF FloorOK, FloorFits, FloorExact
<1> QED BY <1>2, <1>3, <1>4, <1>5, <1>6, <1>7, <1>8 DEF ItemsInv

LEMMA StutterItems ==
  ASSUME ItemsInv, UNCHANGED vars
  PROVE  ItemsInv' /\ DropStep
<1>1. /\ inv' = inv /\ bank' = bank /\ tekked' = tekked /\ seat' = seat /\ floor' = floor
      /\ list' = list /\ itemID' = itemID /\ playerItemID' = playerItemID /\ weapons' = weapons
      /\ UNCHANGED pack /\ tail' = tail /\ doubled' = doubled /\ blanked' = blanked
  BY DEF vars, pack, game, made
<1>2. \A q \in Players : Here(q)' => Here(q) BY <1>1 DEF Here
<1>3. HeldOK' BY <1>1, <1>2, HeldStays DEF ItemsInv
<1>4. BankOK' /\ TekOK' /\ SeatOK' /\ IdsOK' /\ FloorOK(floor', list', blanked') /\ blanked' \in BOOLEAN
  BY <1>1 DEF ItemsInv, BankOK, TekOK, SeatOK, IdsOK
<1>5. TailOK' BY <1>1 DEF ItemsInv, TailOK
<1> QED BY <1>1, <1>3, <1>4, <1>5 DEF ItemsInv, DropStep

\* What a monster or a box leaves.
LEMMA FoundIs ==
  ASSUME ItemsInv, FindWeapon \/ FindTool
  PROVE  \E it \in Items : /\ Find(it) /\ it.id = itemID /\ it.id # 0 /\ it.n > 0
                           /\ it.raw => it.serial # None
<1>1. itemID \in Nat /\ itemID # 0 BY IdsAre DEF ItemsInv, IdsOK
<1>2. weapons \in Nat BY DEF ItemsInv, IdsOK
<1>3. CASE FindWeapon
  <2> DEFINE it == Weapon(itemID, weapons)
  <2>1. Find(it) /\ weapons < MaxWeapons BY <1>3 DEF FindWeapon
  <2>2. it = [id |-> itemID, n |-> 1, serial |-> weapons, raw |-> TRUE] BY DEF Weapon
  <2>3. 1 \in 0 .. MaxBuy /\ weapons \in 0 .. MaxWeapons - 1 /\ weapons # None BY <1>2, <2>1, Sizes
  <2>4. it \in Items BY <1>1, <2>2, <2>3, ItemMade
  <2>5. it.id = itemID /\ it.n > 0 /\ it.serial # None BY <2>2, <2>3
  <2> HIDE DEF it
  <2> QED BY <1>1, <2>1, <2>4, <2>5
<1>4. CASE FindTool
  <2> DEFINE it == Tool(itemID, 1)
  <2>1. Find(it) BY <1>4 DEF FindTool
  <2>2. it = [id |-> itemID, n |-> 1, serial |-> None, raw |-> FALSE] BY DEF Tool
  <2>3. 1 \in 0 .. MaxBuy BY Sizes
  <2>4. it \in Items BY <1>1, <2>2, <2>3, ItemMade
  <2>5. it.id = itemID /\ it.n > 0 /\ ~it.raw BY <2>2
  <2> HIDE DEF it
  <2> QED BY <1>1, <2>1, <2>4, <2>5
<1> QED BY <1>3, <1>4

LEMMA FindItems ==
  ASSUME ItemsInv, FindWeapon \/ FindTool
  PROVE  ItemsInv' /\ DropStep
<1>1. PICK it \in Items : Find(it) /\ it.id # 0 /\ it.n > 0 BY FoundIs
<1>2. /\ Lay(it) /\ itemID' = itemID + 1 /\ UNCHANGED pack /\ bank' = bank /\ tekked' = tekked
      /\ seat' = seat /\ playerItemID' = playerItemID /\ blanked' = blanked
      /\ tail' = tail /\ doubled' = doubled
  BY <1>1 DEF Find, pack
<1>3. weapons' \in Nat BY DEF ItemsInv, IdsOK, FindWeapon, FindTool
<1>4. FloorOK(floor', list', blanked') /\ DropStep BY <1>1, <1>2, LayIs DEF ItemsInv
<1>5. \A q \in Players : Here(q)' => Here(q) BY <1>2 DEF Here
<1>6. HeldOK' BY <1>2, <1>5, HeldStays DEF ItemsInv
<1>7. BankOK' /\ TekOK' /\ SeatOK' /\ TailOK' /\ blanked' \in BOOLEAN
  BY <1>2 DEF ItemsInv, BankOK, TekOK, SeatOK, TailOK
<1>8. IdsOK'
  <2>1. itemID \in Nat /\ itemID >= FirstFound /\ FirstFound \in Nat BY IdsAre DEF ItemsInv, IdsOK
  <2>2. itemID' \in Nat /\ itemID' >= FirstFound BY <1>2, <2>1
  <2> QED BY <1>2, <1>3, <2>2 DEF ItemsInv, IdsOK
<1> QED BY <1>4, <1>6, <1>7, <1>8 DEF ItemsInv

LEMMA FindNothingItems ==
  ASSUME ItemsInv, FindNothing
  PROVE  ItemsInv' /\ DropStep
<1>1. /\ UNCHANGED pack /\ tail' = tail /\ doubled' = doubled /\ bank' = bank /\ tekked' = tekked
      /\ seat' = seat /\ itemID' = itemID /\ playerItemID' = playerItemID /\ weapons' = weapons
  BY DEF FindNothing, pack, made
<1>2. /\ floor[free_game_item].id >= FirstFound /\ list' = list /\ blanked' = TRUE
      /\ floor' = [floor EXCEPT ![free_game_item] = NoItem]
  BY DEF FindNothing
<1>3. FloorOK(floor', list', blanked') /\ DropStep BY <1>2, FreedIs DEF ItemsInv
<1>4. HeldOK'
  <2>1. \A q \in Players : Here(q)' => Here(q) BY <1>1 DEF Here
  <2> QED BY <1>1, <2>1, HeldStays DEF ItemsInv
<1>5. BankOK' /\ TekOK' /\ SeatOK' /\ TailOK' /\ IdsOK' /\ blanked' \in BOOLEAN
  BY <1>1, <1>2 DEF ItemsInv, BankOK, TekOK, SeatOK, TailOK, IdsOK
<1> QED BY <1>3, <1>4, <1>5 DEF ItemsInv

LEMMA LeaveItems ==
  ASSUME ItemsInv, NEW p \in Players, Leave(p)
  PROVE  ItemsInv' /\ DropStep
<1>1. /\ Go(p, floor, list) /\ UNCHANGED pack /\ bank' = bank /\ tekked' = tekked
      /\ itemID' = itemID /\ playerItemID' = playerItemID /\ weapons' = weapons
      /\ tail' = tail /\ doubled' = doubled
  BY DEF Leave, made, pack
<1>2. /\ FloorOK(floor', list', blanked') /\ blanked' \in BOOLEAN /\ DropStep
      /\ SeatOK' /\ \A q \in Players : Here(q)' => Here(q)
  BY <1>1, GoIs DEF ItemsInv, Moved
<1>3. HeldOK' BY <1>1, <1>2, HeldStays DEF ItemsInv
<1>4. BankOK' /\ TekOK' /\ IdsOK' /\ TailOK' BY <1>1 DEF ItemsInv, BankOK, TekOK, IdsOK, TailOK
<1> QED BY <1>2, <1>3, <1>4 DEF ItemsInv

\* p comes to seat c, where the ids go on from next, and carries r.
JoinsAs(p, next, c, r) ==
  /\ next \in [0 .. Seats - 1 -> Nat] /\ c \in 0 .. Seats - 1 /\ r \in Seq(Items)
  /\ next = IF \E q \in Players : Here(q) THEN playerItemID ELSE FirstId
  /\ \A d \in 0 .. Seats - 1 : next[d] >= FirstId[d]
  /\ ~Here(p) /\ \A q \in Players : seat[q] # c
  /\ next[c] + Len(r) + blanks[p] <= FirstId[c] + Width
  /\ seat' = [seat EXCEPT ![p] = c]
  /\ inv' = [inv EXCEPT ![p] = r]
  /\ Len(r) = Len(inv[p])
  /\ \A i \in 1 .. Len(r) : r[i] = [inv[p][i] EXCEPT !.id = next[c] + i - 1]
  /\ playerItemID' = [next EXCEPT ![c] = @ + Len(r) + blanks[p]]

\* A player who comes gets new ids for what it carries.
LEMMA JoinIs ==
  ASSUME ItemsInv, NEW p \in Players, Join(p)
  PROVE  \E next, c, r : JoinsAs(p, next, c, r)
<1> DEFINE next == IF \E q \in Players : Here(q) THEN playerItemID ELSE FirstId
           k == Len(inv[p])
<1>1. next \in [0 .. Seats - 1 -> Nat] /\ \A d \in 0 .. Seats - 1 : next[d] >= FirstId[d]
  <2>1. \A n \in Nat : n >= n OBVIOUS
  <2> QED BY <2>1, IdsAre DEF ItemsInv, IdsOK
<1>2. ~Here(p) BY DEF Join
<1>3. PICK c \in FreeSeats :
           /\ next[c] + (k + blanks[p]) <= FirstId[c] + Width
           /\ seat' = [seat EXCEPT ![p] = c]
           /\ inv' = [inv EXCEPT ![p] = [i \in 1 .. k |-> [inv[p][i] EXCEPT !.id = next[c] + i - 1]]]
           /\ playerItemID' = [next EXCEPT ![c] = @ + (k + blanks[p])]
  BY DEF Join, inventoryUse
<1> DEFINE r == [i \in 1 .. k |-> [inv[p][i] EXCEPT !.id = next[c] + i - 1]]
<1>4. inv[p] \in Seq(Items) /\ k \in Nat /\ blanks[p] \in Nat /\ \A i \in 1 .. k : inv[p][i] \in Items
  BY DEF ItemsInv, HeldOK
<1>5. c \in 0 .. Seats - 1 /\ \A q \in Players : seat[q] # c BY DEF FreeSeats
<1>6. next[c] \in Nat BY <1>1, <1>5
<1>7. inv' = [inv EXCEPT ![p] = r] BY <1>3
<1> HIDE DEF next, k
<1>8. ASSUME NEW i \in 1 .. k PROVE r[i] \in Items /\ r[i] = [inv[p][i] EXCEPT !.id = next[c] + i - 1]
  <2>1. i \in Nat /\ i >= 1 BY <1>4
  <2>2. next[c] + i - 1 \in Nat BY <1>6, <2>1
  <2>3. r[i] = [inv[p][i] EXCEPT !.id = next[c] + i - 1] OBVIOUS
  <2>4. inv[p][i] \in Items BY <1>4
  <2> HIDE DEF r
  <2> QED BY <2>2, <2>3, <2>4 DEF Items
<1>9. DOMAIN r = 1 .. k OBVIOUS
<1>10. r \in Seq(Items) /\ Len(r) = k BY <1>4, <1>8
<1> HIDE DEF r
<1>11. /\ next[c] + Len(r) + blanks[p] <= FirstId[c] + Width
       /\ playerItemID' = [next EXCEPT ![c] = @ + Len(r) + blanks[p]]
  <2>1. next[c] + (k + blanks[p]) = next[c] + Len(r) + blanks[p] BY <1>4, <1>6, <1>10
  <2>2. playerItemID' = [next EXCEPT ![c] = next[c] + Len(r) + blanks[p]] BY <1>3, <2>1
  <2> QED BY <1>3, <2>1, <2>2
<1>12. \A i \in 1 .. Len(r) : r[i] = [inv[p][i] EXCEPT !.id = next[c] + i - 1] BY <1>8, <1>10
<1>13. next = IF \E q \in Players : Here(q) THEN playerItemID ELSE FirstId BY DEF next
<1>14. seat' = [seat EXCEPT ![p] = c] BY <1>3
<1>15. Len(r) = Len(inv[p]) BY <1>10 DEF k
<1>16. JoinsAs(p, next, c, r)
  BY <1>1, <1>2, <1>5, <1>7, <1>10, <1>11, <1>12, <1>13, <1>14, <1>15 DEF JoinsAs
<1> QED BY <1>16

LEMMA JoinItems ==
  ASSUME ItemsInv, NEW p \in Players, Join(p)
  PROVE  ItemsInv' /\ DropStep
<1>1. PICK next, c, r : JoinsAs(p, next, c, r) BY JoinIs
<1>2. /\ itemID' = (IF \E q \in Players : Here(q) THEN itemID ELSE FirstFound)
      /\ tekked' = [tekked EXCEPT ![p] = NoItem]
      /\ bank' = bank /\ floor' = floor /\ list' = list /\ weapons' = weapons
      /\ blanks' = blanks /\ tail' = tail /\ blanked' = blanked /\ doubled' = doubled
  BY DEF Join, made
<1>3. /\ next \in [0 .. Seats - 1 -> Nat] /\ c \in 0 .. Seats - 1 /\ r \in Seq(Items)
      /\ \A d \in 0 .. Seats - 1 : next[d] >= FirstId[d]
      /\ seat' = [seat EXCEPT ![p] = c] /\ inv' = [inv EXCEPT ![p] = r]
      /\ Len(r) = Len(inv[p])
      /\ \A i \in 1 .. Len(r) : r[i] = [inv[p][i] EXCEPT !.id = next[c] + i - 1]
      /\ playerItemID' = [next EXCEPT ![c] = @ + Len(r) + blanks[p]]
  BY <1>1 DEF JoinsAs
<1>4. inv[p] \in Seq(Items) /\ Len(inv[p]) \in Nat /\ blanks[p] \in Nat /\ \A i \in 1 .. Len(inv[p]) : inv[p][i] \in Items
  BY DEF ItemsInv, HeldOK
<1>5. next[c] \in Nat /\ next[c] > 0
  <2>1. next[c] \in Nat /\ next[c] >= FirstId[c] /\ FirstId[c] \in Nat /\ FirstId[c] > 0
    BY <1>3, IdsAre
  <2> QED BY <2>1
<1>6. ASSUME NEW i \in 1 .. Len(r)
      PROVE  r[i].id # 0 /\ r[i].n = inv[p][i].n
  <2>1. i \in Nat /\ i >= 1 /\ i \in 1 .. Len(inv[p]) BY <1>3, <1>4
  <2>2. next[c] + i - 1 # 0 BY <1>5, <2>1
  <2>3. inv[p][i] \in Items /\ r[i] = [inv[p][i] EXCEPT !.id = next[c] + i - 1]
    BY <1>3, <1>4, <2>1
  <2> QED BY <2>2, <2>3 DEF Items
<1>7. Positive(r) /\ Named(r)
  BY <1>3, <1>6 DEF ItemsInv, HeldOK, Positive, Named
<1>8. HeldOK'
  <2>1. inv \in [Players -> Seq(Items)] /\ seat \in [Players -> 0 .. Seats - 1 \cup {None}]
    BY DEF ItemsInv, HeldOK, SeatOK
  <2>2. inv'[p] = r /\ \A q \in Players : q # p => inv'[q] = inv[q] /\ seat'[q] = seat[q]
    BY <1>3, <2>1
  <2>3. inv' \in [Players -> Seq(Items)] BY <1>3, <2>1
  <2>4. ASSUME NEW q \in Players
        PROVE  /\ Len(inv'[q]) + blanks'[q] + Len(tail'[q]) <= Carry
               /\ Positive(inv'[q]) /\ (Here(q)' => Named(inv'[q]))
               /\ Positive(tail'[q]) /\ Named(tail'[q])
    <3>1. CASE q = p BY <1>2, <1>3, <1>7, <2>2, <3>1 DEF ItemsInv, HeldOK
    <3>2. CASE q # p BY <1>2, <2>2, <3>2 DEF ItemsInv, HeldOK, Here
    <3> QED BY <3>1, <3>2
  <2>5. \A q \in Players : (Positive(inv[q]))' = Positive(inv'[q]) /\ (Named(inv[q]))' = Named(inv'[q])
    BY DEF Positive, Named
  <2>6. \A q \in Players : (Positive(tail[q]))' = Positive(tail'[q]) /\ (Named(tail[q]))' = Named(tail'[q])
    BY DEF Positive, Named
  <2>7. tail' \in [Players -> Seq(Items)] /\ blanks' \in [Players -> Nat] BY <1>2 DEF ItemsInv, HeldOK
  <2> QED BY <2>3, <2>4, <2>5, <2>6, <2>7 DEF HeldOK
<1>9. BankOK' BY <1>2 DEF ItemsInv, BankOK
<1>10. TekOK' BY <1>2, NothingIs DEF ItemsInv, TekOK
<1>11. SeatOK' BY <1>3 DEF ItemsInv, SeatOK
<1>12. IdsOK'
  <2>1. itemID' \in Nat /\ itemID' >= FirstFound
    <3>1. \A n \in Nat : n >= n OBVIOUS
    <3> QED BY <1>2, <3>1, IdsAre DEF ItemsInv, IdsOK
  <2>2. next[c] + Len(r) + blanks[p] \in Nat /\ next[c] + Len(r) + blanks[p] >= FirstId[c]
    <3>1. next[c] >= FirstId[c] /\ FirstId[c] \in Nat /\ Len(r) \in Nat BY <1>3, <1>4, IdsAre
    <3> QED BY <1>4, <1>5, <3>1
  <2>3. playerItemID' \in [0 .. Seats - 1 -> Nat] BY <1>3, <2>2
  <2>4. \A d \in 0 .. Seats - 1 : playerItemID'[d] >= FirstId[d] BY <1>3, <2>2
  <2>5. FirstId' = FirstId /\ FirstFound' = FirstFound BY DEF FirstId, FirstFound
  <2> QED BY <1>2, <2>1, <2>3, <2>4, <2>5 DEF ItemsInv, IdsOK
<1>13. FloorOK(floor', list', blanked') /\ DropStep /\ TailOK' /\ blanked' \in BOOLEAN
  BY <1>2 DEF ItemsInv, DropStep, TailOK
<1> QED BY <1>8, <1>9, <1>10, <1>11, <1>12, <1>13 DEF ItemsInv

LEMMA CarriedIs ==
  ASSUME ItemsInv, NEW p \in Players
  PROVE  /\ inv[p] \in Seq(Items) /\ Len(inv[p]) \in Nat /\ Len(inv[p]) <= Carry
         /\ Positive(inv[p]) /\ (Here(p) => Named(inv[p]))
         /\ \A i \in 1 .. Len(inv[p]) : /\ inv[p][i] \in Items /\ inv[p][i].n > 0
                                        /\ Here(p) => inv[p][i].id # 0
         /\ tail[p] \in Seq(Items) /\ Len(tail[p]) \in Nat /\ blanks[p] \in Nat
         /\ Len(inv[p]) + blanks[p] + Len(tail[p]) <= Carry
         /\ Positive(tail[p]) /\ Named(tail[p])
<1>1. /\ inv[p] \in Seq(Items) /\ tail[p] \in Seq(Items) /\ blanks[p] \in Nat
      /\ Len(inv[p]) + blanks[p] + Len(tail[p]) <= Carry
      /\ Positive(inv[p]) /\ (Here(p) => Named(inv[p])) /\ Positive(tail[p]) /\ Named(tail[p])
  BY DEF ItemsInv, HeldOK
<1>2. Len(inv[p]) \in Nat /\ Len(tail[p]) \in Nat BY <1>1
<1>3. Len(inv[p]) <= Carry BY <1>1, <1>2, Sizes
<1>4. \A i \in 1 .. Len(inv[p]) : /\ inv[p][i] \in Items /\ inv[p][i].n > 0
                                  /\ Here(p) => inv[p][i].id # 0
  BY <1>1 DEF Positive, Named
<1> QED BY <1>1, <1>2, <1>3, <1>4

\* All of what p carries is in use again, and no more than that.
LEMMA CleanedUp ==
  ASSUME ItemsInv, NEW p \in Players, NEW r \in Seq(Items), Len(r) <= Len(inv[p]),
         Positive(r), NEW f, Comes(inv[p], r, {}, f), CleanUp(p, r), Here(p), doubled' = doubled,
         \A q \in Players : Here(q)' => Here(q)
  PROVE  HeldOK' /\ TailOK'
<1> DEFINE u == r \o tail[p]
<1>1. /\ inv[p] \in Seq(Items) /\ Len(inv[p]) \in Nat /\ Named(inv[p])
      /\ tail[p] \in Seq(Items) /\ Len(tail[p]) \in Nat /\ blanks[p] \in Nat
      /\ Len(inv[p]) + blanks[p] + Len(tail[p]) <= Carry /\ Positive(tail[p]) /\ Named(tail[p])
  BY CarriedIs
<1>2. Named(r) BY <1>1, ComesNamed
<1>3. /\ u \in Seq(Items) /\ Len(u) = Len(r) + Len(tail[p]) /\ Len(r) \in Nat
      /\ \A k \in 1 .. Len(u) : u[k] = IF k <= Len(r) THEN r[k] ELSE tail[p][k - Len(r)]
  BY <1>1, ConcatProperties
<1>4. /\ inv' = [inv EXCEPT ![p] = u] /\ blanks' = [blanks EXCEPT ![p] = 0]
      /\ tail' = [tail EXCEPT ![p] = <<>>]
  BY DEF CleanUp
<1> HIDE DEF u
<1>5. ASSUME NEW k \in 1 .. Len(u)
      PROVE  (\E j \in 1 .. Len(r) : u[k] = r[j]) \/ \E j \in 1 .. Len(tail[p]) : u[k] = tail[p][j]
  <2>1. CASE k <= Len(r)
    <3>1. k \in 1 .. Len(r) BY <1>3, <2>1
    <3> QED BY <1>3, <2>1, <3>1
  <2>2. CASE ~(k <= Len(r))
    <3>1. k - Len(r) \in 1 .. Len(tail[p]) BY <1>1, <1>3, <2>2
    <3> QED BY <1>3, <2>2, <3>1
  <2> QED BY <2>1, <2>2
<1>6. Positive(u) /\ Named(u) BY <1>1, <1>2, <1>5 DEF Positive, Named
<1>7. Len(u) + 0 + 0 <= Carry BY <1>1, <1>3, Sizes
<1>8. <<>> \in Seq(Items) /\ Len(<<>>) = 0 /\ Positive(<<>>) /\ Named(<<>>) BY DEF Positive, Named
<1>9. HeldOK' BY <1>3, <1>4, <1>6, <1>7, <1>8, HeldChanged DEF ItemsInv
<1>10. TailOK' BY <1>4, <1>8, TailStays DEF ItemsInv
<1> QED BY <1>9, <1>10

\* When too many were asked for, nothing but the order of the entries changes.
LEMMA CleanedSame ==
  ASSUME ItemsInv, NEW p \in Players, CleanUp(p, inv[p]), Here(p), doubled' = doubled,
         \A q \in Players : Here(q)' => Here(q)
  PROVE  HeldOK' /\ TailOK'
<1>1. inv[p] \in Seq(Items) /\ Len(inv[p]) \in Nat /\ Positive(inv[p]) BY CarriedIs
<1>2. \E f : Comes(inv[p], inv[p], {}, f)
  <2>1. \A i \in 1 .. Len(inv[p]) : Like(inv[p][i], inv[p][i]) BY DEF Like
  <2> QED BY <1>1, <2>1, ComesSame
<1>3. Len(inv[p]) <= Len(inv[p]) BY <1>1
<1> QED BY <1>1, <1>2, <1>3, CleanedUp

\* p gets one thing more, for which there is room.
LEMMA CarriedMore ==
  ASSUME ItemsInv, NEW p \in Players, NEW it \in Items, it.n > 0, it.id # 0, ~NoRoom(p, it),
         Gets(p, it), doubled' = doubled, \A q \in Players : Here(q)' => Here(q)
  PROVE  HeldOK' /\ TailOK' /\ inv' = [inv EXCEPT ![p] = Put(inv[p], it)]
<1> DEFINE r == Put(inv[p], it)
           s == IF Len(r) > Len(inv[p]) THEN SubSeq(tail[p], 2, Len(tail[p])) ELSE tail[p]
<1>1. /\ inv[p] \in Seq(Items) /\ Len(inv[p]) \in Nat /\ Positive(inv[p]) /\ (Here(p) => Named(inv[p]))
      /\ tail[p] \in Seq(Items) /\ Len(tail[p]) \in Nat /\ blanks[p] \in Nat
      /\ Len(inv[p]) + blanks[p] + Len(tail[p]) <= Carry /\ Positive(tail[p]) /\ Named(tail[p])
  BY CarriedIs
<1>2. /\ r \in Seq(Items) /\ Positive(r)
      /\ Len(r) = Len(inv[p]) \/ Len(r) = Len(inv[p]) + 1
      /\ Len(r) > Len(inv[p]) => (IsTool(it) => ToolStack(inv[p]) = {})
      /\ \E f : Comes(inv[p], r, {it}, f)
  BY <1>1, PutIs
<1>3. Here(p) => Named(r) BY <1>1, <1>2, ComesNamed
<1>4. /\ inv' = [inv EXCEPT ![p] = r] /\ tail' = [tail EXCEPT ![p] = s] /\ blanks' = blanks
  BY DEF Gets
<1>5. blanks' = [blanks EXCEPT ![p] = blanks[p]] BY <1>4 DEF ItemsInv, HeldOK
<1> HIDE DEF r
<1>6. CASE Len(r) > Len(inv[p])
  <2>1. Len(r) = Len(inv[p]) + 1 BY <1>1, <1>2, <1>6
  <2>2. Len(inv[p]) + blanks[p] < Carry
    <3>1. ~(inventoryUse(p) >= Carry) BY <1>2, <1>6 DEF NoRoom
    <3> QED BY <1>1, <3>1, Sizes DEF inventoryUse
  <2>3. s = SubSeq(tail[p], 2, Len(tail[p])) BY <1>6
  <2>4. CASE tail[p] = <<>>
    <3>1. s = <<>> /\ Len(tail[p]) = 0 BY <2>3, <2>4
    <3> HIDE DEF s
    <3>2. /\ s \in Seq(Items) /\ Len(s) = 0 /\ Positive(s) /\ Named(s) BY <3>1 DEF Positive, Named
    <3>3. Len(r) + blanks[p] + Len(s) <= Carry BY <1>1, <2>1, <2>2, <3>2, Sizes
    <3>4. HeldOK' BY <1>1, <1>2, <1>3, <1>4, <1>5, <3>2, <3>3, HeldChanged DEF ItemsInv
    <3>5. TailOK' BY <1>4, <3>1, <3>2, TailStays DEF ItemsInv
    <3> QED BY <1>4, <3>4, <3>5 DEF r
  <2>5. CASE tail[p] # <<>>
    <3>1. Len(tail[p]) > 0 BY <1>1, <2>5
    <3>2. /\ s \in Seq(Items) /\ Len(s) = Len(tail[p]) - 1
          /\ \A k \in 1 .. Len(s) : s[k] = tail[p][k + 1] /\ k + 1 \in 1 .. Len(tail[p])
      <4>1. s = [k \in 1 .. Len(tail[p]) - 1 |-> tail[p][k + 1]]
        <5>1. s = [k \in 1 .. (Len(tail[p]) - 2) + 1 |-> tail[p][2 + k - 1]]
          BY <2>3, <1>1, <3>1 DEF SubSeq
        <5>2. (Len(tail[p]) - 2) + 1 = Len(tail[p]) - 1 /\ \A k \in 1 .. Len(tail[p]) - 1 : 2 + k - 1 = k + 1
          BY <1>1
        <5> HIDE DEF s
        <5> QED BY <5>1, <5>2
      <4>2. \A k \in 1 .. Len(tail[p]) - 1 : k + 1 \in 1 .. Len(tail[p]) /\ tail[p][k + 1] \in Items
        BY <1>1
      <4> HIDE DEF s
      <4> QED BY <1>1, <3>1, <4>1, <4>2
    <3> HIDE DEF s
    <3>3. Positive(s) /\ Named(s) BY <1>1, <3>2 DEF Positive, Named
    <3>4. Len(r) + blanks[p] + Len(s) <= Carry BY <1>1, <2>1, <3>2, Sizes
    <3>5. HeldOK' BY <1>1, <1>2, <1>3, <1>4, <1>5, <3>2, <3>3, <3>4, HeldChanged DEF ItemsInv
    <3>6. TailOK' BY <1>4, <2>5, <3>2, TailStays DEF ItemsInv
    <3> QED BY <1>4, <3>5, <3>6 DEF r
  <2> QED BY <2>4, <2>5
<1>7. CASE ~(Len(r) > Len(inv[p]))
  <2>1. Len(r) = Len(inv[p]) /\ s = tail[p] BY <1>1, <1>2, <1>7
  <2>2. Len(r) + blanks[p] + Len(s) <= Carry BY <1>1, <2>1
  <2> HIDE DEF s
  <2>3. HeldOK' BY <1>1, <1>2, <1>3, <1>4, <1>5, <2>1, <2>2, HeldChanged DEF ItemsInv
  <2>4. TailOK' BY <1>1, <1>4, <2>1, TailStays DEF ItemsInv
  <2> QED BY <1>4, <2>3, <2>4 DEF r
<1> QED BY <1>6, <1>7

\* Nothing that anybody carries changes.
LEMMA PackStays ==
  ASSUME ItemsInv, UNCHANGED pack, doubled' = doubled, \A q \in Players : Here(q)' => Here(q)
  PROVE  HeldOK' /\ TailOK' /\ inv' = inv
<1>1. inv' = inv /\ tail' = tail BY DEF pack
<1>2. TailOK' BY <1>1 DEF ItemsInv, TailOK
<1> QED BY <1>1, <1>2, HeldStays DEF ItemsInv

\* What is listed under an id is picked up, and goes from the floor and the list.
LEMMA PickUpIs ==
  ASSUME ItemsInv, NEW p \in Players, NEW id, id # 0, PickUp(p, id)
  PROVE  \E i \in 1 .. Len(list) : LET it == floor[list[i]] IN
           /\ Here(p) /\ list[i] \in Slots /\ it \in Items /\ it.id # 0 /\ it.n > 0
           /\ \/ Go(p, floor, list) /\ UNCHANGED pack
              \/ /\ Gets(p, it) /\ ~NoRoom(p, it)
                 /\ Stay([floor EXCEPT ![list[i]] = NoItem], RemoveAt(list, i))
           /\ bank' = bank /\ tekked' = tekked /\ itemID' = itemID
           /\ playerItemID' = playerItemID /\ weapons' = weapons /\ doubled' = doubled
<1>1. PICK i \in 1 .. Len(list) :
        LET it == floor[list[i]]
            over == IsTool(it) /\ \E j \in ToolStack(inv[p]) : inv[p][j].n + it.n > Stack
        IN /\ it.id = id
           /\ IF over \/ NoRoom(p, it)
              THEN Go(p, floor, list) /\ UNCHANGED pack
              ELSE /\ Gets(p, it)
                   /\ Stay([floor EXCEPT ![list[i]] = NoItem], RemoveAt(list, i))
  BY DEF PickUp
<1>2. list[i] \in Slots /\ floor[list[i]].id # 0 /\ floor[list[i]] \in Items /\ floor[list[i]].n > 0
  BY <1>1 DEF ItemsInv, FloorOK, FloorFits
<1>3. /\ Here(p) /\ bank' = bank /\ tekked' = tekked /\ itemID' = itemID
      /\ playerItemID' = playerItemID /\ weapons' = weapons /\ doubled' = doubled
  BY DEF PickUp, made
<1>4. \/ Go(p, floor, list) /\ UNCHANGED pack
      \/ /\ Gets(p, floor[list[i]]) /\ ~NoRoom(p, floor[list[i]])
         /\ Stay([floor EXCEPT ![list[i]] = NoItem], RemoveAt(list, i))
  BY <1>1
<1> QED BY <1>2, <1>3, <1>4

LEMMA PickUpItems ==
  ASSUME ItemsInv, NEW p \in Players, NEW id, id # 0, PickUp(p, id)
  PROVE  ItemsInv' /\ DropStep
<1>1. PICK i \in 1 .. Len(list) : LET it == floor[list[i]] IN
           /\ Here(p) /\ list[i] \in Slots /\ it \in Items /\ it.id # 0 /\ it.n > 0
           /\ \/ Go(p, floor, list) /\ UNCHANGED pack
              \/ /\ Gets(p, it) /\ ~NoRoom(p, it)
                 /\ Stay([floor EXCEPT ![list[i]] = NoItem], RemoveAt(list, i))
           /\ bank' = bank /\ tekked' = tekked /\ itemID' = itemID
           /\ playerItemID' = playerItemID /\ weapons' = weapons /\ doubled' = doubled
  BY PickUpIs
<1> DEFINE it == floor[list[i]]
<1>2. BankOK' /\ TekOK' /\ IdsOK' BY <1>1 DEF ItemsInv, BankOK, TekOK, IdsOK
<1>3. CASE Go(p, floor, list) /\ UNCHANGED pack
  <2>1. /\ FloorOK(floor', list', blanked') /\ blanked' \in BOOLEAN /\ DropStep
        /\ SeatOK' /\ \A q \in Players : Here(q)' => Here(q)
    BY <1>3, GoIs DEF ItemsInv, Moved
  <2>2. HeldOK' /\ TailOK' BY <1>1, <1>3, <2>1, PackStays
  <2> QED BY <1>2, <2>1, <2>2 DEF ItemsInv
<1>4. CASE /\ Gets(p, it) /\ ~NoRoom(p, it)
           /\ Stay([floor EXCEPT ![list[i]] = NoItem], RemoveAt(list, i))
  <2> DEFINE fl == [floor EXCEPT ![list[i]] = NoItem]
             li == RemoveAt(list, i)
  <2>1. list \in Seq(Slots) /\ Len(list) \in Nat /\ FloorOK(floor, list, blanked)
    BY DEF ItemsInv, FloorOK, FloorFits
  <2>2. /\ li \in Seq(Slots) /\ Len(li) = Len(list) - 1
        /\ \A k \in 1 .. Len(list) - 1 : li[k] = IF k < i THEN list[k] ELSE list[k + 1]
    BY <2>1, RemoveAtIs
  <2>3. Stay(fl, li) BY <1>4
  <2> HIDE DEF li
  <2>4. FloorOK(fl, li, blanked) BY <2>1, <2>2, LiftIs
  <2>5. Len(li) < Len(list) BY <2>1, <2>2
  <2> HIDE DEF fl
  <2>6. /\ FloorOK(floor', list', blanked') /\ blanked' \in BOOLEAN /\ DropStep
        /\ SeatOK' /\ \A q \in Players : Here(q)' => Here(q)
    BY <2>3, <2>4, <2>5, StayIs DEF ItemsInv, Moved
  <2>7. it \in Items /\ it.id # 0 /\ it.n > 0 BY <1>1
  <2> HIDE DEF it
  <2>8. HeldOK' /\ TailOK' BY <1>1, <1>4, <2>6, <2>7, CarriedMore
  <2> QED BY <1>2, <2>6, <2>8 DEF ItemsInv
<1> QED BY <1>1, <1>3, <1>4

LEMMA ToolIs ==
  ASSUME NEW id \in Nat, NEW n \in 0 .. MaxBuy
  PROVE  /\ Tool(id, n) \in Items /\ Tool(id, n).id = id /\ Tool(id, n).n = n
         /\ ~Tool(id, n).raw /\ Tool(id, n).serial = None
<1>1. Tool(id, n) = [id |-> id, n |-> n, serial |-> None, raw |-> FALSE] BY DEF Tool
<1>2. None \in 0 .. MaxWeapons - 1 \cup {None} /\ FALSE \in BOOLEAN OBVIOUS
<1>3. [id |-> id, n |-> n, serial |-> None, raw |-> FALSE] \in Items BY <1>2, ItemMade
<1> QED BY <1>1, <1>3

LEMMA DropItems ==
  ASSUME ItemsInv, NEW p \in Players, NEW i \in 1 .. Len(inv[p]), Drop(p, i)
  PROVE  ItemsInv' /\ DropStep
<1> DEFINE r == RemoveAt(inv[p], i)
<1>1. /\ Here(p) /\ Lay(inv[p][i]) /\ CleanUp(p, r) /\ doubled' = doubled
      /\ bank' = bank /\ tekked' = tekked /\ seat' = seat /\ itemID' = itemID
      /\ playerItemID' = playerItemID /\ weapons' = weapons /\ blanked' = blanked
  BY DEF Drop, made
<1>2. inv[p][i] \in Items /\ inv[p][i].id # 0 /\ inv[p][i].n > 0 BY <1>1, CarriedIs
<1>3. FloorOK(floor', list', blanked') /\ DropStep BY <1>1, <1>2, LayIs DEF ItemsInv
<1>4. inv[p] \in Seq(Items) /\ Len(inv[p]) \in Nat /\ Positive(inv[p]) BY CarriedIs
<1>5. /\ r \in Seq(Items) /\ Len(r) = Len(inv[p]) - 1 /\ Positive(r)
      /\ \E f : Comes(inv[p], r, {}, f)
  BY <1>4, WithoutIs
<1> HIDE DEF r
<1>6. Len(r) <= Len(inv[p]) BY <1>4, <1>5
<1>7. \A q \in Players : Here(q)' => Here(q) BY <1>1 DEF Here
<1>8. HeldOK' /\ TailOK' BY <1>1, <1>5, <1>6, <1>7, CleanedUp
<1>9. BankOK' /\ TekOK' /\ SeatOK' /\ IdsOK' /\ blanked' \in BOOLEAN
  BY <1>1 DEF ItemsInv, BankOK, TekOK, SeatOK, IdsOK
<1> QED BY <1>3, <1>8, <1>9 DEF ItemsInv

\* The next id of p's seat.
LEMMA NextIdIs ==
  ASSUME ItemsInv, NEW p \in Players, Here(p)
  PROVE  /\ seat[p] \in 0 .. Seats - 1
         /\ playerItemID[seat[p]] \in Nat /\ playerItemID[seat[p]] # 0
         /\ playerItemID[seat[p]] >= FirstId[seat[p]]
<1>1. seat[p] \in 0 .. Seats - 1 BY DEF ItemsInv, SeatOK, Here
<1>2. playerItemID[seat[p]] \in Nat /\ playerItemID[seat[p]] >= FirstId[seat[p]]
  BY <1>1 DEF ItemsInv, IdsOK
<1>3. FirstId[seat[p]] \in Nat /\ FirstId[seat[p]] > 0 BY <1>1, IdsAre
<1> QED BY <1>1, <1>2, <1>3

LEMMA IdGiven ==
  ASSUME ItemsInv, NEW c \in 0 .. Seats - 1, playerItemID' = [playerItemID EXCEPT ![c] = @ + 1],
         itemID' = itemID, weapons' = weapons
  PROVE  IdsOK'
<1>1. /\ itemID \in Nat /\ itemID >= FirstFound /\ weapons \in Nat
      /\ playerItemID \in [0 .. Seats - 1 -> Nat]
      /\ \A d \in 0 .. Seats - 1 : playerItemID[d] >= FirstId[d]
  BY DEF ItemsInv, IdsOK
<1>2. playerItemID[c] + 1 \in Nat /\ playerItemID[c] + 1 >= FirstId[c]
  <2>1. playerItemID[c] \in Nat /\ playerItemID[c] >= FirstId[c] /\ FirstId[c] \in Nat BY <1>1, IdsAre
  <2> QED BY <2>1
<1>3. playerItemID' \in [0 .. Seats - 1 -> Nat] BY <1>1, <1>2
<1>4. \A d \in 0 .. Seats - 1 : playerItemID'[d] >= FirstId[d] BY <1>1, <1>2
<1>5. FirstId' = FirstId /\ FirstFound' = FirstFound BY DEF FirstId, FirstFound
<1> QED BY <1>1, <1>3, <1>4, <1>5 DEF IdsOK

LEMMA DropSomeItems ==
  ASSUME ItemsInv, NEW p \in Players, NEW i \in 1 .. Len(inv[p]), NEW n \in 1 .. MaxBuy,
         DropSome(p, i, n)
  PROVE  ItemsInv' /\ DropStep
<1>1. /\ Here(p) /\ bank' = bank /\ tekked' = tekked /\ itemID' = itemID /\ weapons' = weapons
      /\ doubled' = doubled
  BY DEF DropSome, made
<1>2. BankOK' /\ TekOK' BY <1>1 DEF ItemsInv, BankOK, TekOK
<1>3. CASE n > inv[p][i].n
  <2>1. Go(p, floor, list) /\ CleanUp(p, inv[p]) /\ playerItemID' = playerItemID BY <1>3 DEF DropSome
  <2>2. /\ FloorOK(floor', list', blanked') /\ blanked' \in BOOLEAN /\ DropStep
        /\ SeatOK' /\ \A q \in Players : Here(q)' => Here(q)
    BY <2>1, GoIs DEF ItemsInv, Moved
  <2>3. HeldOK' /\ TailOK' BY <1>1, <2>1, <2>2, CleanedSame
  <2>4. IdsOK' BY <1>1, <2>1 DEF ItemsInv, IdsOK
  <2> QED BY <1>2, <2>2, <2>3, <2>4 DEF ItemsInv
<1>4. CASE ~(n > inv[p][i].n)
  <2> DEFINE id == playerItemID[seat[p]]
             r == Take(inv[p], i, n)
             it == Tool(id, n)
  <2>1. /\ Lay(it) /\ CleanUp(p, r) /\ seat' = seat /\ blanked' = blanked
        /\ playerItemID' = [playerItemID EXCEPT ![seat[p]] = @ + 1]
    BY <1>4 DEF DropSome
  <2>2. seat[p] \in 0 .. Seats - 1 /\ id \in Nat /\ id # 0 BY <1>1, NextIdIs
  <2>3. n \in Nat /\ n \in 0 .. MaxBuy /\ n > 0 BY Sizes
  <2>4. it \in Items /\ it.id # 0 /\ it.n > 0 BY <2>2, <2>3, ToolIs
  <2> HIDE DEF it, id
  <2>5. FloorOK(floor', list', blanked') /\ DropStep BY <2>1, <2>4, LayIs DEF ItemsInv
  <2>6. inv[p] \in Seq(Items) /\ Positive(inv[p]) BY CarriedIs
  <2>7. /\ r \in Seq(Items) /\ Len(r) <= Len(inv[p]) /\ Positive(r)
        /\ \E f : Comes(inv[p], r, {}, f)
    BY <2>3, <2>6, TakeIs
  <2> HIDE DEF r
  <2>8. \A q \in Players : Here(q)' => Here(q) BY <2>1 DEF Here
  <2>9. HeldOK' /\ TailOK' BY <1>1, <2>1, <2>7, <2>8, CleanedUp
  <2>10. SeatOK' /\ blanked' \in BOOLEAN BY <2>1 DEF ItemsInv, SeatOK
  <2>11. IdsOK' BY <1>1, <2>1, <2>2, IdGiven
  <2> QED BY <1>2, <2>5, <2>9, <2>10, <2>11 DEF ItemsInv
<1> QED BY <1>3, <1>4

LEMMA DeleteItems ==
  ASSUME ItemsInv, NEW p \in Players, NEW i \in 1 .. Len(inv[p]), NEW n \in 1 .. MaxBuy,
         Delete(p, i, n)
  PROVE  ItemsInv' /\ DropStep
<1>1. /\ bank' = bank /\ tekked' = tekked /\ itemID' = itemID /\ weapons' = weapons
      /\ playerItemID' = playerItemID /\ Here(p) /\ doubled' = doubled
  BY DEF Delete, made
<1>2. BankOK' /\ TekOK' /\ IdsOK' BY <1>1 DEF ItemsInv, BankOK, TekOK, IdsOK
<1>3. CASE n > inv[p][i].n
  <2>1. Go(p, floor, list) /\ CleanUp(p, inv[p]) BY <1>3 DEF Delete
  <2>2. /\ FloorOK(floor', list', blanked') /\ blanked' \in BOOLEAN /\ DropStep
        /\ SeatOK' /\ \A q \in Players : Here(q)' => Here(q)
    BY <2>1, GoIs DEF ItemsInv, Moved
  <2>3. HeldOK' /\ TailOK' BY <1>1, <2>1, <2>2, CleanedSame
  <2> QED BY <1>2, <2>2, <2>3 DEF ItemsInv
<1>4. CASE ~(n > inv[p][i].n)
  <2> DEFINE r == Take(inv[p], i, n)
  <2>1. CleanUp(p, r) /\ Stay(floor, list) BY <1>4 DEF Delete
  <2>2. /\ FloorOK(floor', list', blanked') /\ blanked' \in BOOLEAN /\ DropStep
        /\ SeatOK' /\ \A q \in Players : Here(q)' => Here(q)
    BY <2>1, StayIs DEF ItemsInv, Moved
  <2>3. inv[p] \in Seq(Items) /\ Positive(inv[p]) /\ n \in Nat BY CarriedIs
  <2>4. /\ r \in Seq(Items) /\ Len(r) <= Len(inv[p]) /\ Positive(r)
        /\ \E f : Comes(inv[p], r, {}, f)
    BY <2>3, TakeIs
  <2> HIDE DEF r
  <2>5. HeldOK' /\ TailOK' BY <1>1, <2>1, <2>2, <2>4, CleanedUp
  <2> QED BY <1>2, <2>2, <2>5 DEF ItemsInv
<1> QED BY <1>3, <1>4

LEMMA BuyItems ==
  ASSUME ItemsInv, NEW p \in Players, NEW count \in 0 .. MaxBuy, Buy(p, count)
  PROVE  ItemsInv' /\ DropStep
<1> DEFINE n == IF count = 0 THEN 1 ELSE count
           it == Tool(playerItemID[seat[p]], n)
<1>1. /\ Here(p) /\ playerItemID' = [playerItemID EXCEPT ![seat[p]] = @ + 1]
      /\ bank' = bank /\ tekked' = tekked /\ itemID' = itemID /\ weapons' = weapons
      /\ doubled' = doubled
  BY DEF Buy
<1>2. BankOK' /\ TekOK' BY <1>1 DEF ItemsInv, BankOK, TekOK
<1>3. /\ seat[p] \in 0 .. Seats - 1 /\ playerItemID[seat[p]] \in Nat
      /\ playerItemID[seat[p]] # 0
  BY <1>1, NextIdIs
<1>4. n \in Nat /\ n \in 0 .. MaxBuy /\ n > 0 BY Sizes
<1> HIDE DEF n
<1>5. it \in Items /\ it.id # 0 /\ it.n > 0 BY <1>3, <1>4, ToolIs
<1>6. IdsOK' BY <1>1, <1>3, IdGiven
<1>7. CASE NoRoom(p, it)
  <2>1. Go(p, floor, list) /\ UNCHANGED pack BY <1>7 DEF Buy, n
  <2>2. /\ FloorOK(floor', list', blanked') /\ blanked' \in BOOLEAN /\ DropStep
        /\ SeatOK' /\ \A q \in Players : Here(q)' => Here(q)
    BY <2>1, GoIs DEF ItemsInv, Moved
  <2>3. HeldOK' /\ TailOK' BY <1>1, <2>1, <2>2, PackStays
  <2> QED BY <1>2, <1>6, <2>2, <2>3 DEF ItemsInv
<1>8. CASE ~NoRoom(p, it)
  <2>1. Gets(p, it) /\ Stay(floor, list) BY <1>8 DEF Buy, n
  <2> HIDE DEF it
  <2>2. /\ FloorOK(floor', list', blanked') /\ blanked' \in BOOLEAN /\ DropStep
        /\ SeatOK' /\ \A q \in Players : Here(q)' => Here(q)
    BY <2>1, StayIs DEF ItemsInv, Moved
  <2>3. HeldOK' /\ TailOK' BY <1>1, <1>5, <1>8, <2>1, <2>2, CarriedMore
  <2> QED BY <1>2, <1>6, <2>2, <2>3 DEF ItemsInv
<1> QED BY <1>7, <1>8

LEMMA BankedIs ==
  ASSUME ItemsInv, NEW p \in Players
  PROVE  /\ bank[p] \in Seq(Items) /\ Len(bank[p]) \in Nat /\ Len(bank[p]) <= BankSize
         /\ \A j \in 1 .. Len(bank[p]) : bank[p][j] \in Items
BY DEF ItemsInv, BankOK

LEMMA BankedChanged ==
  ASSUME ItemsInv, NEW p \in Players, NEW r \in Seq(Items), Len(r) <= BankSize,
         bank' = [bank EXCEPT ![p] = r]
  PROVE  BankOK'
<1>1. bank \in [Players -> Seq(Items)] /\ \A q \in Players : Len(bank[q]) <= BankSize
  BY DEF ItemsInv, BankOK
<1>2. bank' \in [Players -> Seq(Items)] BY <1>1
<1>3. bank'[p] = r /\ \A q \in Players : q # p => bank'[q] = bank[q] BY <1>1
<1>4. \A q \in Players : Len(bank'[q]) <= BankSize BY <1>1, <1>3
<1> QED BY <1>2, <1>4 DEF BankOK

LEMMA DepositItems ==
  ASSUME ItemsInv, NEW p \in Players, NEW i \in 1 .. Len(inv[p]), NEW n \in 1 .. MaxBuy,
         Deposit(p, i, n)
  PROVE  ItemsInv' /\ DropStep
<1>1. /\ tekked' = tekked /\ itemID' = itemID /\ playerItemID' = playerItemID /\ weapons' = weapons
      /\ Here(p) /\ doubled' = doubled
  BY DEF Deposit, made
<1>2. TekOK' /\ IdsOK' BY <1>1 DEF ItemsInv, TekOK, IdsOK
<1>3. CASE Len(bank[p]) >= BankSize \/ n > inv[p][i].n
  <2>1. /\ Go(p, floor, list) /\ bank' = bank
        /\ UNCHANGED pack \/ CleanUp(p, inv[p])
    BY <1>3 DEF Deposit
  <2>2. /\ FloorOK(floor', list', blanked') /\ blanked' \in BOOLEAN /\ DropStep
        /\ SeatOK' /\ \A q \in Players : Here(q)' => Here(q)
    BY <2>1, GoIs DEF ItemsInv, Moved
  <2>3. HeldOK' /\ TailOK' BY <1>1, <2>1, <2>2, PackStays, CleanedSame
  <2>4. BankOK' BY <2>1 DEF ItemsInv, BankOK
  <2> QED BY <1>2, <2>2, <2>3, <2>4 DEF ItemsInv
<1>4. CASE ~(Len(bank[p]) >= BankSize \/ n > inv[p][i].n)
  <2> DEFINE r == Take(inv[p], i, n)
             it == [inv[p][i] EXCEPT !.id = 0, !.n = n]
             b == Put(bank[p], it)
  <2>1. /\ CleanUp(p, r) /\ bank' = [bank EXCEPT ![p] = SortBankItems(b)]
        /\ Stay(floor, list)
    BY <1>4 DEF Deposit
  <2>2. /\ FloorOK(floor', list', blanked') /\ blanked' \in BOOLEAN /\ DropStep
        /\ SeatOK' /\ \A q \in Players : Here(q)' => Here(q)
    BY <2>1, StayIs DEF ItemsInv, Moved
  <2>3. inv[p] \in Seq(Items) /\ Positive(inv[p]) /\ inv[p][i] \in Items BY CarriedIs
  <2>4. n \in Nat /\ n \in 0 .. MaxBuy /\ n > 0 BY Sizes
  <2>5. /\ r \in Seq(Items) /\ Len(r) <= Len(inv[p]) /\ Positive(r)
        /\ \E f : Comes(inv[p], r, {}, f)
    BY <2>3, <2>4, TakeIs
  <2>6. it \in Items /\ it.n > 0 BY <2>3, <2>4 DEF Items
  <2>7. bank[p] \in Seq(Items) /\ Len(bank[p]) \in Nat /\ BankSize \in Nat /\ Len(bank[p]) < BankSize
    BY <1>4, BankedIs, Sizes
  <2> HIDE DEF r, it
  <2>8. b \in Seq(Items) /\ Len(b) <= Len(bank[p]) + 1 BY <2>6, <2>7, PutIs
  <2> HIDE DEF b
  <2>9. SortBankItems(b) \in Seq(Items) /\ Len(SortBankItems(b)) = Len(b) BY <2>8, SortIs
  <2>10. Len(b) \in Nat /\ Len(SortBankItems(b)) <= BankSize BY <2>7, <2>8, <2>9
  <2>11. BankOK' BY <2>1, <2>9, <2>10, BankedChanged
  <2>12. HeldOK' /\ TailOK' BY <1>1, <2>1, <2>2, <2>5, CleanedUp
  <2> QED BY <1>2, <2>2, <2>11, <2>12 DEF ItemsInv
<1> QED BY <1>3, <1>4

LEMMA WithdrawItems ==
  ASSUME ItemsInv, NEW p \in Players, NEW j \in 1 .. Len(bank[p]), NEW n \in 1 .. MaxBuy,
         Withdraw(p, j, n)
  PROVE  ItemsInv' /\ DropStep
<1> DEFINE it == bank[p][j]
           has == IF it.n = 0 THEN 1 ELSE it.n
           less == IF IsTool(it) THEN [bank[p] EXCEPT ![j].n = has - n] ELSE bank[p]
           one == [it EXCEPT !.id = itemID, !.n = n]
<1>0. tekked' = tekked /\ playerItemID' = playerItemID /\ weapons' = weapons /\ doubled' = doubled
  BY DEF Withdraw, made
<1>1. TekOK' BY <1>0 DEF ItemsInv, TekOK
<1>2. /\ bank[p] \in Seq(Items) /\ it \in Items /\ it.n \in 0 .. MaxBuy
      /\ Len(bank[p]) <= BankSize /\ BankSize \in Nat /\ Len(bank[p]) \in Nat
  BY BankedIs, ItemIs, Sizes
<1>3. n \in Nat /\ n \in 0 .. MaxBuy /\ n > 0 /\ MaxBuy \in Nat /\ MaxBuy > 0 BY Sizes
<1>4. itemID \in Nat /\ itemID # 0 /\ itemID >= FirstFound /\ FirstFound \in Nat
  BY IdsAre DEF ItemsInv, IdsOK
<1>5. one \in Items /\ one.id # 0 /\ one.n > 0 BY <1>2, <1>3, <1>4 DEF Items
<1>6. itemID' \in {itemID, itemID + 1} => IdsOK'
  <2>1. SUFFICES ASSUME itemID' \in {itemID, itemID + 1} PROVE IdsOK' OBVIOUS
  <2>2. itemID' \in Nat /\ itemID' >= FirstFound BY <1>4, <2>1
  <2>3. FirstId' = FirstId /\ FirstFound' = FirstFound BY DEF FirstId, FirstFound
  <2> QED BY <1>0, <2>2, <2>3 DEF ItemsInv, IdsOK
<1>7. has \in 0 .. MaxBuy BY <1>2, <1>3
<1>8. ~(n > has) => less \in Seq(Items) /\ Len(less) <= BankSize
  <2>1. SUFFICES ASSUME ~(n > has) PROVE less \in Seq(Items) /\ Len(less) <= BankSize OBVIOUS
  <2>2. CASE IsTool(it)
    <3>1. less = [bank[p] EXCEPT ![j].n = has - n] BY <2>2
    <3>2. has - n \in 0 .. MaxBuy BY <1>3, <1>7, <2>1
    <3> HIDE DEF has, less
    <3>3. [it EXCEPT !.n = has - n] \in Items BY <1>2, <3>2 DEF Items
    <3> QED BY <1>2, <3>1, <3>3
  <2>3. CASE ~IsTool(it) BY <1>2, <2>3
  <2> QED BY <2>2, <2>3
<1>9. CASE n > has
  <2>1. Go(p, floor, list) /\ UNCHANGED pack /\ bank' = bank /\ itemID' = itemID BY <1>9 DEF Withdraw, pack
  <2> HIDE DEF has, less, one, it
  <2>2. /\ FloorOK(floor', list', blanked') /\ blanked' \in BOOLEAN /\ DropStep
        /\ SeatOK' /\ \A q \in Players : Here(q)' => Here(q)
    BY <2>1, GoIs DEF ItemsInv, Moved
  <2>3. HeldOK' /\ TailOK' BY <1>0, <2>1, <2>2, PackStays
  <2>4. BankOK' BY <2>1 DEF ItemsInv, BankOK
  <2> QED BY <1>1, <1>6, <2>1, <2>2, <2>3, <2>4 DEF ItemsInv
<1>10. CASE ~(n > has) /\ NoRoom(p, it)
  <2>1. /\ Go(p, floor, list) /\ bank' = [bank EXCEPT ![p] = less] /\ UNCHANGED pack
        /\ itemID' = itemID
    BY <1>10 DEF Withdraw
  <2> HIDE DEF has, less, one, it
  <2>2. /\ FloorOK(floor', list', blanked') /\ blanked' \in BOOLEAN /\ DropStep
        /\ SeatOK' /\ \A q \in Players : Here(q)' => Here(q)
    BY <2>1, GoIs DEF ItemsInv, Moved
  <2>3. HeldOK' /\ TailOK' BY <1>0, <2>1, <2>2, PackStays
  <2>4. BankOK' BY <1>8, <1>10, <2>1, BankedChanged
  <2> QED BY <1>1, <1>6, <2>1, <2>2, <2>3, <2>4 DEF ItemsInv
<1>11. CASE ~(n > has) /\ ~NoRoom(p, it)
  <2>1. /\ Gets(p, one) /\ itemID' = itemID + 1 /\ Stay(floor, list)
        /\ bank' = [bank EXCEPT ![p] = IF n < has THEN less ELSE RemoveAt(bank[p], j)]
    BY <1>11 DEF Withdraw
  <2>2. ~NoRoom(p, one)
    <3>1. one.serial = it.serial BY <1>2 DEF Items
    <3> QED BY <1>11, <3>1 DEF NoRoom, IsTool
  <2>3. /\ RemoveAt(bank[p], j) \in Seq(Items) /\ Len(RemoveAt(bank[p], j)) <= BankSize
    <3>1. /\ RemoveAt(bank[p], j) \in Seq(Items)
          /\ Len(RemoveAt(bank[p], j)) = Len(bank[p]) - 1
      BY <1>2, WithoutIs
    <3> QED BY <1>2, <3>1
  <2> HIDE DEF has, less, one, it
  <2>4. BankOK'
    <3>1. CASE n < has BY <1>8, <1>11, <2>1, <3>1, BankedChanged
    <3>2. CASE ~(n < has) BY <2>1, <2>3, <3>2, BankedChanged
    <3> QED BY <3>1, <3>2
  <2>5. /\ FloorOK(floor', list', blanked') /\ blanked' \in BOOLEAN /\ DropStep
        /\ SeatOK' /\ \A q \in Players : Here(q)' => Here(q)
    BY <2>1, StayIs DEF ItemsInv, Moved
  <2>6. HeldOK' /\ TailOK' BY <1>0, <1>5, <2>1, <2>2, <2>5, CarriedMore
  <2> QED BY <1>1, <1>6, <2>1, <2>4, <2>5, <2>6 DEF ItemsInv
<1> QED BY <1>9, <1>10, <1>11

\* Part of a list.
LEMMA PartIs ==
  ASSUME NEW s \in Seq(Items), NEW a \in Nat, NEW b \in Nat, a > 0, b <= Len(s)
  PROVE  /\ SubSeq(s, a, b) \in Seq(Items)
         /\ Len(SubSeq(s, a, b)) = IF a <= b THEN b - a + 1 ELSE 0
         /\ \A k \in 1 .. Len(SubSeq(s, a, b)) :
              a + k - 1 \in 1 .. Len(s) /\ SubSeq(s, a, b)[k] = s[a + k - 1]
         /\ Positive(s) => Positive(SubSeq(s, a, b))
         /\ Named(s) => Named(SubSeq(s, a, b))
<1> DEFINE u == SubSeq(s, a, b)
           m == IF a <= b THEN b - a + 1 ELSE 0
<1>1. m \in Nat /\ Len(s) \in Nat OBVIOUS
<1>2. u = [k \in 1 .. (b - a) + 1 |-> s[a + k - 1]] BY DEF SubSeq
<1>3. 1 .. (b - a) + 1 = 1 .. m OBVIOUS
<1>4. \A k \in 1 .. m : a + k - 1 \in 1 .. Len(s) OBVIOUS
<1> HIDE DEF u, m
<1>5. u = [k \in 1 .. m |-> s[a + k - 1]] BY <1>2, <1>3
<1>6. u \in Seq(Items) /\ Len(u) = m BY <1>1, <1>4, <1>5
<1>7. \A k \in 1 .. m : u[k] = s[a + k - 1] BY <1>5
<1>8. (Positive(s) => Positive(u)) /\ (Named(s) => Named(u)) BY <1>4, <1>6, <1>7 DEF Positive, Named
<1> QED BY <1>4, <1>6, <1>7, <1>8 DEF u, m

\* The order a client asks for: entries it carries, as many as there may be.
LEMMA OrderIs ==
  ASSUME ItemsInv, NEW p \in Players, NEW order \in SeqOf(Answers(p), Carry)
  PROVE  /\ Len(order) \in Nat /\ Len(order) <= Carry
         /\ order \in [1 .. Len(order) -> 1 .. Len(inv[p])]
<1>1. PICK m \in 0 .. Carry : order \in [1 .. m -> Answers(p)] BY DEF SeqOf
<1>2. m \in Nat /\ m <= Carry BY <1>1, Sizes
<1>3. order \in Seq(Answers(p)) /\ Len(order) = m BY <1>1, <1>2
<1>4. Answers(p) \subseteq 1 .. Len(inv[p]) BY DEF Answers
<1> QED BY <1>1, <1>2, <1>3, <1>4

\* What a sort makes of p's entries.
LEMMA SortedIs ==
  ASSUME ItemsInv, NEW p \in Players, NEW order \in SeqOf(Answers(p), Carry), Sort(p, order)
  PROVE  LET named == [k \in 1 .. Len(order) |-> inv[p][order[k]]]
             m == Least(Len(order), inventoryUse(p))
         IN  /\ named \in Seq(Items) /\ Len(named) = Len(order) /\ Positive(named) /\ Named(named)
             /\ m \in Nat /\ m <= Len(named) /\ m <= inventoryUse(p) /\ inventoryUse(p) \in Nat
             /\ m = Len(named) \/ m = inventoryUse(p)
             /\ inv' = [inv EXCEPT ![p] = SubSeq(named, 1, m)]
             /\ blanks' = [blanks EXCEPT ![p] = inventoryUse(p) - m]
             /\ tail' = [tail EXCEPT ![p] = SubSeq(named, m + 1, Len(named))]
             /\ doubled' \in {doubled, doubled + 1}
             /\ doubled' = doubled =>
                  m = Len(named) /\ \E f : Comes(inv[p], named, {}, f)
<1> DEFINE named == [k \in 1 .. Len(order) |-> inv[p][order[k]]]
           m == Least(Len(order), inventoryUse(p))
           twice == \E j, k \in 1 .. Len(order) : j # k /\ order[j] = order[k]
<1>1. /\ Here(p)
      /\ inv' = [inv EXCEPT ![p] = SubSeq(named, 1, m)]
      /\ blanks' = [blanks EXCEPT ![p] = inventoryUse(p) - m]
      /\ tail' = [tail EXCEPT ![p] = SubSeq(named, m + 1, Len(named))]
  BY DEF Sort
<1>2. twice => doubled' = doubled + 1 BY DEF Sort
<1>3. ~twice => doubled' = doubled BY DEF Sort
<1>4. doubled \in Nat BY DEF ItemsInv, TailOK
<1>5. /\ inv[p] \in Seq(Items) /\ Len(inv[p]) \in Nat /\ Positive(inv[p]) /\ Named(inv[p])
      /\ blanks[p] \in Nat
  BY <1>1, CarriedIs
<1>6. Len(order) \in Nat /\ order \in [1 .. Len(order) -> 1 .. Len(inv[p])] BY OrderIs
<1>7. /\ named \in Seq(Items) /\ Len(named) = Len(order) /\ Positive(named)
      /\ (\A j, k \in 1 .. Len(order) : order[j] = order[k] => j = k) =>
           Len(order) <= Len(inv[p]) /\ \E f : Comes(inv[p], named, {}, f)
  <2>1. named = Picked(inv[p], order, Len(order)) BY DEF Picked
  <2> HIDE DEF named
  <2> QED BY <1>5, <1>6, <2>1, NamedIs
<1>8. Named(named) BY <1>5, <1>6, <1>7 DEF Named
<1>9. inventoryUse(p) \in Nat /\ inventoryUse(p) >= Len(inv[p]) BY <1>5 DEF inventoryUse
<1>10. /\ m \in Nat /\ m <= Len(order) /\ m <= inventoryUse(p)
       /\ m = Len(order) \/ m = inventoryUse(p)
       /\ Len(order) <= inventoryUse(p) => m = Len(order)
  BY <1>6, <1>9 DEF Least
<1>11. doubled' \in {doubled, doubled + 1} BY <1>2, <1>3
<1>12. doubled' = doubled => m = Len(named) /\ \E f : Comes(inv[p], named, {}, f)
  <2>1. SUFFICES ASSUME doubled' = doubled
                 PROVE  m = Len(named) /\ \E f : Comes(inv[p], named, {}, f)
    OBVIOUS
  <2>2. ~twice BY <1>2, <1>4, <2>1
  <2>3. \A j, k \in 1 .. Len(order) : order[j] = order[k] => j = k BY <2>2
  <2> HIDE DEF named, m, twice
  <2>4. Len(order) <= Len(inv[p]) /\ \E f : Comes(inv[p], named, {}, f) BY <1>7, <2>3
  <2>5. Len(order) <= inventoryUse(p) BY <1>5, <1>6, <1>9, <2>4
  <2> QED BY <1>7, <1>10, <2>4, <2>5
<1> QED BY <1>1, <1>7, <1>8, <1>9, <1>10, <1>11, <1>12

LEMMA SortItems ==
  ASSUME ItemsInv, NEW p \in Players, NEW order \in SeqOf(Answers(p), Carry), Sort(p, order)
  PROVE  ItemsInv' /\ DropStep
<1> DEFINE named == [k \in 1 .. Len(order) |-> inv[p][order[k]]]
           m == Least(Len(order), inventoryUse(p))
           r == SubSeq(named, 1, m)
           s == SubSeq(named, m + 1, Len(named))
           b == inventoryUse(p) - m
<1>1. /\ named \in Seq(Items) /\ Len(named) = Len(order) /\ Positive(named) /\ Named(named)
      /\ m \in Nat /\ m <= Len(named) /\ m <= inventoryUse(p) /\ inventoryUse(p) \in Nat
      /\ m = Len(named) \/ m = inventoryUse(p)
      /\ inv' = [inv EXCEPT ![p] = r] /\ blanks' = [blanks EXCEPT ![p] = b]
      /\ tail' = [tail EXCEPT ![p] = s] /\ doubled' \in {doubled, doubled + 1}
      /\ doubled' = doubled => m = Len(named)
  BY SortedIs
<1>2. /\ Here(p) /\ bank' = bank /\ tekked' = tekked /\ seat' = seat /\ floor' = floor /\ list' = list
      /\ itemID' = itemID /\ playerItemID' = playerItemID /\ weapons' = weapons /\ blanked' = blanked
  BY DEF Sort, game, made
<1>3. Len(order) \in Nat /\ Len(order) <= Carry BY OrderIs
<1> HIDE DEF named, m
<1>4. b \in Nat BY <1>1
<1>5. /\ r \in Seq(Items) /\ Positive(r) /\ Named(r) /\ Len(r) = m
  <2>1. /\ r \in Seq(Items) /\ Positive(r) /\ Named(r) /\ Len(r) = IF 1 <= m THEN m - 1 + 1 ELSE 0
    BY <1>1, PartIs
  <2> QED BY <1>1, <2>1
<1>6. /\ s \in Seq(Items) /\ Positive(s) /\ Named(s) /\ Len(s) = Len(named) - m
  <2>1. m + 1 \in Nat /\ m + 1 > 0 /\ Len(named) \in Nat BY <1>1, <1>3
  <2>2. /\ s \in Seq(Items) /\ Positive(s) /\ Named(s)
        /\ Len(s) = IF m + 1 <= Len(named) THEN Len(named) - (m + 1) + 1 ELSE 0
    BY <1>1, <2>1, PartIs
  <2> QED BY <1>1, <2>1, <2>2
<1>7. Len(r) + b + Len(s) <= Carry
  <2>1. inventoryUse(p) <= Carry
    <3>1. /\ Len(inv[p]) \in Nat /\ blanks[p] \in Nat /\ Len(tail[p]) \in Nat
          /\ Len(inv[p]) + blanks[p] + Len(tail[p]) <= Carry
      BY CarriedIs
    <3> QED BY <3>1, Sizes DEF inventoryUse
  <2>2. Len(r) + b + Len(s) = inventoryUse(p) + (Len(named) - m) BY <1>1, <1>3, <1>5, <1>6
  <2> HIDE DEF r, s, b
  <2>3. CASE m = Len(named) BY <1>1, <2>1, <2>2, <2>3
  <2>4. CASE m = inventoryUse(p) BY <1>1, <1>3, <2>2, <2>4
  <2> QED BY <1>1, <2>3, <2>4
<1>8. doubled' = doubled => s = <<>> BY <1>1, <1>3, <1>6
<1> HIDE DEF r, s, b
<1>9. \A q \in Players : Here(q)' => Here(q) BY <1>2 DEF Here
<1>10. HeldOK' BY <1>1, <1>4, <1>5, <1>6, <1>7, <1>9, HeldChanged DEF ItemsInv
<1>11. TailOK'
  <2>1. CASE doubled' = doubled BY <1>1, <1>6, <1>8, <2>1, TailStays DEF ItemsInv
  <2>2. CASE doubled' = doubled + 1
    <3>1. doubled' \in Nat /\ doubled' # 0 BY <2>2 DEF ItemsInv, TailOK
    <3> QED BY <3>1 DEF TailOK
  <2> QED BY <1>1, <2>1, <2>2
<1>12. /\ BankOK' /\ TekOK' /\ SeatOK' /\ IdsOK' /\ FloorOK(floor', list', blanked') /\ DropStep
       /\ blanked' \in BOOLEAN
  BY <1>2 DEF ItemsInv, BankOK, TekOK, SeatOK, IdsOK, DropStep
<1> QED BY <1>10, <1>11, <1>12 DEF ItemsInv

LEMMA TekAskItems ==
  ASSUME ItemsInv, NEW p \in Players, NEW i \in 1 .. Len(inv[p]), TekAsk(p, i)
  PROVE  ItemsInv' /\ DropStep
<1> DEFINE it == [inv[p][i] EXCEPT !.raw = FALSE]
<1>1. /\ tekked' = [tekked EXCEPT ![p] = it]
      /\ UNCHANGED pack /\ doubled' = doubled /\ blanked' = blanked /\ bank' = bank /\ seat' = seat /\ floor' = floor /\ list' = list
      /\ itemID' = itemID /\ playerItemID' = playerItemID /\ weapons' = weapons
  BY DEF TekAsk, game
<1>2. inv[p][i] \in Items /\ inv[p][i].n > 0 BY CarriedIs
<1>3. it \in Items /\ it.n > 0 BY <1>2 DEF Items
<1> HIDE DEF it
<1>4. TekOK' BY <1>1, <1>3 DEF ItemsInv, TekOK
<1>5. \A q \in Players : Here(q)' => Here(q) BY <1>1 DEF Here
<1>6. HeldOK' /\ TailOK' BY <1>1, <1>5, PackStays
<1>7. BankOK' /\ SeatOK' /\ IdsOK' /\ FloorOK(floor', list', blanked') /\ DropStep /\ blanked' \in BOOLEAN
  BY <1>1 DEF ItemsInv, BankOK, SeatOK, IdsOK, DropStep
<1> QED BY <1>4, <1>6, <1>7 DEF ItemsInv

\* What the tekker's handler takes from the floor.
Hit(p) == list # <<>> /\ floor[Head(list)].id = tekked[p].id

LEMMA HitIs ==
  ASSUME FloorOK(floor, list, blanked), NEW p, NEW fl, NEW li,
         fl = IF Hit(p) THEN [floor EXCEPT ![Head(list)] = NoItem] ELSE floor,
         li = IF Hit(p) THEN Tail(list) ELSE list
  PROVE  FloorOK(fl, li, blanked) /\ Moved(fl, li)
<1>1. CASE Hit(p)
  <2>1. list \in Seq(Slots) /\ list # <<>> BY <1>1 DEF FloorOK, FloorFits, Hit
  <2>2. Len(list) \in Nat /\ Len(list) > 0 /\ Head(list) = list[1] /\ 1 \in 1 .. Len(list) BY <2>1
  <2>3. /\ li \in Seq(Slots) /\ Len(li) = Len(list) - 1
        /\ \A k \in 1 .. Len(li) : li[k] = list[k + 1]
    BY <1>1, <2>1, HeadTailProperties
  <2>4. \A k \in 1 .. Len(list) - 1 : li[k] = IF k < 1 THEN list[k] ELSE list[k + 1]
    BY <2>2, <2>3
  <2>5. fl = [floor EXCEPT ![list[1]] = NoItem] BY <1>1, <2>2
  <2>6. FloorOK(fl, li, blanked)
    <3>1. FloorOK(floor, list, blanked) /\ 1 \in 1 .. Len(list) /\ li \in Seq(Slots) /\ Len(li) = Len(list) - 1
      BY <2>2, <2>3
    <3>2. FloorOK([floor EXCEPT ![list[1]] = NoItem], li, blanked) BY <2>4, <3>1, LiftIs, ZenonT(60)
    <3> QED BY <2>5, <3>2
  <2>7. Len(li) < Len(list) BY <2>2, <2>3
  <2> QED BY <2>6, <2>7 DEF Moved
<1>2. CASE ~Hit(p) BY <1>2 DEF Moved
<1> QED BY <1>1, <1>2

LEMMA TekAcceptIs ==
  ASSUME NEW p \in Players, TekAccept(p)
  PROVE  LET it == tekked[p]
             fl == IF Hit(p) THEN [floor EXCEPT ![Head(list)] = NoItem] ELSE floor
             li == IF Hit(p) THEN Tail(list) ELSE list
         IN  /\ Here(p) /\ it.id # 0
             /\ tekked' = tekked \/ tekked' = [tekked EXCEPT ![p] = NoItem]
             /\ \/ Go(p, fl, li) /\ UNCHANGED pack
                \/ /\ Gets(p, it) /\ ~NoRoom(p, it)
                   /\ Stay(fl, li) /\ tekked' = [tekked EXCEPT ![p] = NoItem]
             /\ bank' = bank /\ itemID' = itemID
             /\ playerItemID' = playerItemID /\ weapons' = weapons /\ doubled' = doubled
BY DEF TekAccept, Hit, made

LEMMA TekAcceptItems ==
  ASSUME ItemsInv, NEW p \in Players, TekAccept(p)
  PROVE  ItemsInv' /\ DropStep
<1> DEFINE it == tekked[p]
           fl == IF Hit(p) THEN [floor EXCEPT ![Head(list)] = NoItem] ELSE floor
           li == IF Hit(p) THEN Tail(list) ELSE list
<1>1. /\ Here(p) /\ it.id # 0
      /\ tekked' = tekked \/ tekked' = [tekked EXCEPT ![p] = NoItem]
      /\ \/ Go(p, fl, li) /\ UNCHANGED pack
         \/ /\ Gets(p, it) /\ ~NoRoom(p, it)
            /\ Stay(fl, li) /\ tekked' = [tekked EXCEPT ![p] = NoItem]
      /\ bank' = bank /\ itemID' = itemID
      /\ playerItemID' = playerItemID /\ weapons' = weapons /\ doubled' = doubled
  BY TekAcceptIs
<1>2. FloorOK(fl, li, blanked) /\ Moved(fl, li) BY HitIs DEF ItemsInv
<1>3. it \in Items /\ it.id # 0 /\ it.n > 0 BY <1>1 DEF ItemsInv, TekOK
<1> HIDE DEF fl, li, it
<1>4. TekOK'
  <2>1. tekked \in [Players -> Items] /\ \A q \in Players : tekked[q].id # 0 => tekked[q].n > 0
    BY DEF ItemsInv, TekOK
  <2>2. CASE tekked' = tekked BY <2>1, <2>2 DEF TekOK
  <2>3. CASE tekked' = [tekked EXCEPT ![p] = NoItem]
    <3>1. tekked' \in [Players -> Items] BY <2>1, <2>3, NothingIs
    <3>2. \A q \in Players : tekked'[q] = IF q = p THEN NoItem ELSE tekked[q] BY <2>1, <2>3
    <3> QED BY <2>1, <3>1, <3>2, NothingIs DEF TekOK
  <2> QED BY <1>1, <2>2, <2>3
<1>5. BankOK' /\ IdsOK' BY <1>1 DEF ItemsInv, BankOK, IdsOK
<1>6. CASE Go(p, fl, li) /\ UNCHANGED pack
  <2>1. /\ FloorOK(floor', list', blanked') /\ blanked' \in BOOLEAN /\ DropStep
        /\ SeatOK' /\ \A q \in Players : Here(q)' => Here(q)
    BY <1>2, <1>6, GoIs DEF ItemsInv
  <2>2. HeldOK' /\ TailOK' BY <1>1, <1>6, <2>1, PackStays
  <2> QED BY <1>4, <1>5, <2>1, <2>2 DEF ItemsInv
<1>7. CASE Gets(p, it) /\ ~NoRoom(p, it) /\ Stay(fl, li)
  <2>1. /\ FloorOK(floor', list', blanked') /\ blanked' \in BOOLEAN /\ DropStep
        /\ SeatOK' /\ \A q \in Players : Here(q)' => Here(q)
    BY <1>2, <1>7, StayIs DEF ItemsInv
  <2>2. HeldOK' /\ TailOK' BY <1>1, <1>3, <1>7, <2>1, CarriedMore
  <2> QED BY <1>4, <1>5, <2>1, <2>2 DEF ItemsInv
<1> QED BY <1>1, <1>6, <1>7

----------------------------------------------------------------------------
(* The theorems                                                            *)

LEMMA NextItems ==
  ASSUME ItemsInv, [Next]_vars
  PROVE  ItemsInv' /\ DropStep
<1>1. CASE FindWeapon \/ FindTool BY <1>1, FindItems
<1>2. ASSUME NEW p \in Players, Join(p) PROVE ItemsInv' /\ DropStep BY <1>2, JoinItems
<1>3. ASSUME NEW p \in Players, Leave(p) PROVE ItemsInv' /\ DropStep BY <1>3, LeaveItems
<1>13. CASE FindNothing BY <1>13, FindNothingItems
<1>4. ASSUME NEW p \in Players, NEW s \in Slots, floor[s].id # 0, PickUp(p, floor[s].id)
      PROVE  ItemsInv' /\ DropStep
  BY <1>4, PickUpItems
<1>5. ASSUME NEW p \in Players, NEW order \in SeqOf(Answers(p), Carry), Sort(p, order)
      PROVE  ItemsInv' /\ DropStep
  BY <1>5, SortItems
<1>6. ASSUME NEW p \in Players, TekAccept(p) PROVE ItemsInv' /\ DropStep BY <1>6, TekAcceptItems
<1>7. ASSUME NEW p \in Players, NEW n \in 0 .. MaxBuy, Buy(p, n) PROVE ItemsInv' /\ DropStep
  BY <1>7, BuyItems
<1>8. ASSUME NEW p \in Players, NEW i \in 1 .. Len(inv[p]), Drop(p, i) PROVE ItemsInv' /\ DropStep
  BY <1>8, DropItems
<1>9. ASSUME NEW p \in Players, NEW i \in 1 .. Len(inv[p]), TekAsk(p, i) PROVE ItemsInv' /\ DropStep
  BY <1>9, TekAskItems
<1>10. ASSUME NEW p \in Players, NEW i \in 1 .. Len(inv[p]), NEW n \in 1 .. MaxBuy,
              DropSome(p, i, n) \/ Delete(p, i, n) \/ Deposit(p, i, n)
       PROVE  ItemsInv' /\ DropStep
  BY <1>10, DropSomeItems, DeleteItems, DepositItems
<1>11. ASSUME NEW p \in Players, NEW j \in 1 .. Len(bank[p]), NEW n \in 1 .. MaxBuy, Withdraw(p, j, n)
       PROVE  ItemsInv' /\ DropStep
  BY <1>11, WithdrawItems
<1>12. CASE UNCHANGED vars BY <1>12, StutterItems
<1>14. \A p \in Players : Answers(p) \subseteq 1 .. Len(inv[p]) BY DEF Answers
<1> QED BY <1>1, <1>2, <1>3, <1>4, <1>5, <1>6, <1>7, <1>8, <1>9, <1>10, <1>11, <1>12, <1>13, <1>14
  DEF Next

\* Inventories, banks, the floor, its list and the counters of ids fit their
\* limits and each other in every reachable state: the inductive invariant.
THEOREM ItemsAlwaysSound == Spec => []ItemsInv
<1>1. ItemsInv /\ [Next]_vars => ItemsInv' BY NextItems
<1> QED BY <1>1, InitItems, PTL DEF Spec

\* Whatever the players ask for, they never carry or bank more than the arrays of
\* their characters hold, be it behind inventoryUse (AddToInventory, SortClientItems,
\* CleanUpInventory, DepositIntoBank, WithdrawFromBank).
THEOREM LimitsAlwaysKept == Spec => []TypeOK
<1>1. ItemsInv => TypeOK
  <2> SUFFICES ASSUME ItemsInv PROVE TypeOK OBVIOUS
  <2>1. ASSUME NEW p \in Players
        PROVE  /\ \A i \in 1 .. Len(inv[p]) : inv[p][i] \in Items /\ inv[p][i].n > 0
               /\ \A i \in 1 .. Len(tail[p]) : tail[p][i] \in Items /\ tail[p][i].n > 0
               /\ \A j \in 1 .. Len(bank[p]) : bank[p][j] \in Items
               /\ blanks[p] \in Nat /\ inventoryUse(p) + Len(tail[p]) <= Carry
               /\ Len(bank[p]) <= BankSize
               /\ seat[p] \in 0 .. Seats - 1 \cup {None} /\ tekked[p] \in Items
    <3>1. \A i \in 1 .. Len(tail[p]) : tail[p][i] \in Items /\ tail[p][i].n > 0
      BY CarriedIs DEF Positive
    <3>2. inventoryUse(p) + Len(tail[p]) <= Carry BY CarriedIs DEF inventoryUse
    <3> QED BY <3>1, <3>2, CarriedIs, BankedIs DEF ItemsInv, SeatOK, TekOK
  <2>2. floor \in [Slots -> Items] /\ list \in Seq(Slots) /\ Len(list) <= MAX_SAVED_ITEMS
    BY DEF ItemsInv, FloorOK, FloorFits
  <2>3. blanked \in BOOLEAN /\ doubled \in Nat BY DEF ItemsInv, TailOK
  <2> QED BY <2>1, <2>2, <2>3 DEF TypeOK
<1> QED BY <1>1, ItemsAlwaysSound, PTL

\* The game's list names what lies on the floor, everything and nothing else, each
\* thing once (free_game_item, AddItemToClient, CleanUpGameInventory), until a listed
\* thing is taken away for one that never comes.
THEOREM ListAlwaysExact == Spec => []ListExact
<1>1. ItemsInv => ListExact
  <2> SUFFICES ASSUME ItemsInv, ~blanked
               PROVE  /\ ToSet(list) = {s \in Slots : floor[s].id # 0}
                      /\ \A i, j \in 1 .. Len(list) : list[i] = list[j] => i = j
    BY DEF ListExact
  <2>1. /\ list \in Seq(Slots) /\ Distinct(list)
        /\ \A s \in Slots : floor[s].id # 0 => \E i \in 1 .. Len(list) : list[i] = s
        /\ \A i \in 1 .. Len(list) : list[i] \in Slots /\ floor[list[i]].id # 0
    BY DEF ItemsInv, FloorOK, FloorFits, FloorExact
  <2>2. DOMAIN list = 1 .. Len(list) BY <2>1
  <2>3. ToSet(list) = {s \in Slots : floor[s].id # 0} BY <2>1, <2>2 DEF ToSet
  <2> QED BY <2>1, <2>3 DEF Distinct
<1> QED BY <1>1, ItemsAlwaysSound, PTL

\* What a player dropped is never overwritten on the floor as long as there is a
\* free entry or a thing a monster left (free_game_item).
THEOREM DroppedAlwaysGoesLast == Spec => DroppedGoesLast
<1>1. DropStep =>
        \A s \in Slots :
          LET dropped(t) == floor[t].id \in 1 .. FirstFound - 1
          IN  dropped(s) /\ floor'[s].id # floor[s].id =>
                \/ Len(list') < Len(list)
                \/ \A p \in Players : ~Here(p)'
                \/ \A t \in Slots : dropped(t)
  BY DEF DropStep, Dropped
<1>2. ItemsInv /\ [Next]_vars =>
        [\A s \in Slots :
          LET dropped(t) == floor[t].id \in 1 .. FirstFound - 1
          IN  dropped(s) /\ floor'[s].id # floor[s].id =>
                \/ Len(list') < Len(list)
                \/ \A p \in Players : ~Here(p)'
                \/ \A t \in Slots : dropped(t)]_vars
  BY <1>1, NextItems
<1> QED BY <1>2, ItemsAlwaysSound, PTL DEF Spec, DroppedGoesLast

----------------------------------------------------------------------------
(* An id means one thing                                                   *)

\* a and b may be in the game together.
Ok(a, b) == ~(a.id # 0 /\ a.id = b.id /\ (IsTool(a) \/ a.serial # b.serial))

\* The game gave out this id before its counters were these.
GivenBy(id, next, seats) ==
  \/ \E c \in 0 .. Seats - 1 : FirstId[c] <= id /\ id < seats[c]
  \/ FirstFound <= id /\ id < next

Given(id) == GivenBy(id, itemID, playerItemID)

\* Only a weapon can be unidentified.
RawOK(it) == it.raw => it.serial # None

RawInv ==
  /\ \A q \in Players : /\ \A i \in 1 .. Len(inv[q]) : RawOK(inv[q][i])
                        /\ \A j \in 1 .. Len(bank[q]) : RawOK(bank[q][j])
  /\ \A s \in Slots : RawOK(floor[s])
  /\ \A q \in Players : RawOK(tekked[q])

GivenInv ==
  /\ \A c \in 0 .. Seats - 1 : playerItemID[c] <= FirstId[c] + Width
  /\ \A q \in Players : Here(q) => \A i \in 1 .. Len(inv[q]) : Given(inv[q][i].id)
  /\ \A s \in Slots : floor[s].id # 0 => Given(floor[s].id)
  /\ \A q \in Players : Here(q) /\ tekked[q].id # 0 => Given(tekked[q].id)
  /\ (\A q \in Players : ~Here(q)) => \A s \in Slots : floor[s].id = 0

\* No two clash of the things carried, of those on the floor, and of those the
\* tekker offers.
UniqueInv ==
  /\ \A p, q \in Players : Here(p) /\ Here(q) =>
       \A i \in 1 .. Len(inv[p]), j \in 1 .. Len(inv[q]) :
         (p # q \/ i # j) => Ok(inv[p][i], inv[q][j])
  /\ \A q \in Players : Here(q) =>
       \A i \in 1 .. Len(inv[q]), s \in Slots : Ok(inv[q][i], floor[s])
  /\ \A s, t \in Slots : s # t => Ok(floor[s], floor[t])
  /\ \A p, q \in Players : Here(p) /\ Here(q) =>
       \A i \in 1 .. Len(inv[p]) : Ok(inv[p][i], tekked[q])
  /\ \A q \in Players : Here(q) => \A s \in Slots : Ok(floor[s], tekked[q])
  /\ \A p, q \in Players : Here(p) /\ Here(q) /\ p # q => Ok(tekked[p], tekked[q])

IdInv == RawInv /\ GivenInv /\ UniqueInv

\* It holds as long as nobody named a thing twice in a sort.
IdInvOnce == doubled = 0 => IdInv

LEMMA OkIs ==
  /\ \A a, b : Ok(a, b) => Ok(b, a)
  /\ \A a, b, c : Ok(a, b) /\ Like(c, a) => Ok(c, b)
  /\ \A a, b : a.id = 0 \/ b.id = 0 => Ok(a, b)
  /\ \A a, b : a.id # b.id => Ok(a, b)
BY DEF Ok, Like, IsTool

\* The ranges of the seats, and of the things found, are apart.
LEMMA RangesApart ==
  /\ \A c, d \in 0 .. Seats - 1 : c < d => FirstId[c] + Width <= FirstId[d]
  /\ \A c \in 0 .. Seats - 1 : FirstId[c] + Width <= FirstFound
<1>1. Seats \in Nat /\ Width \in Nat BY Sizes
<1>2. \A c, d \in Nat : c < d => c * Width + Width <= d * Width
  <2>1. ASSUME NEW c \in Nat, NEW d \in Nat, c < d PROVE c * Width + Width <= d * Width
    <3>1. PICK k \in Nat : d = (c + 1) + k
      <4>1. d - (c + 1) \in Nat /\ d = (c + 1) + (d - (c + 1)) BY <2>1
      <4> QED BY <4>1
    <3>2. d * Width = (c * Width + Width) + k * Width BY <1>1, <3>1
    <3>3. c * Width \in Nat /\ k * Width \in Nat BY <1>1
    <3> QED BY <1>1, <3>2, <3>3
  <2> QED BY <2>1
<1>3. ASSUME NEW c \in 0 .. Seats - 1, NEW d \in 0 .. Seats - 1, c < d
      PROVE  FirstId[c] + Width <= FirstId[d]
  <2>1. c \in Nat /\ d \in Nat BY <1>1
  <2>2. c * Width + Width <= d * Width /\ c * Width \in Nat /\ d * Width \in Nat
    BY <1>1, <1>2, <1>3, <2>1
  <2>3. FirstId[c] = 1 + c * Width /\ FirstId[d] = 1 + d * Width BY IdsAre
  <2> QED BY <1>1, <2>2, <2>3
<1>4. ASSUME NEW c \in 0 .. Seats - 1 PROVE FirstId[c] + Width <= FirstFound
  <2>1. c \in Nat /\ c < Seats BY <1>1
  <2>2. c * Width + Width <= Seats * Width /\ c * Width \in Nat /\ Seats * Width \in Nat
    BY <1>1, <1>2, <2>1
  <2>3. FirstId[c] = 1 + c * Width /\ FirstFound = 1 + Seats * Width BY IdsAre DEF FirstFound
  <2> QED BY <1>1, <2>2, <2>3
<1> QED BY <1>3, <1>4

\* The ids that come next were not given.
LEMMA NextNotGiven ==
  ASSUME ItemsInv, GivenInv
  PROVE  /\ ~Given(itemID) /\ ~Given(0)
         /\ \A c \in 0 .. Seats - 1 : \A id \in Nat :
              playerItemID[c] <= id /\ id < FirstId[c] + Width => ~Given(id)
<1>1. /\ itemID \in Nat /\ itemID >= FirstFound /\ FirstFound \in Nat /\ FirstFound > 0
      /\ \A c \in 0 .. Seats - 1 : /\ playerItemID[c] \in Nat /\ FirstId[c] \in Nat /\ FirstId[c] > 0
                                   /\ playerItemID[c] >= FirstId[c]
                                   /\ playerItemID[c] <= FirstId[c] + Width
      /\ Width \in Nat /\ Seats \in Nat
  BY IdsAre, Sizes DEF ItemsInv, IdsOK, GivenInv
<1>2. ~Given(itemID)
  <2>1. ASSUME NEW c \in 0 .. Seats - 1, FirstId[c] <= itemID, itemID < playerItemID[c] PROVE FALSE
    <3>1. FirstId[c] + Width <= FirstFound BY RangesApart
    <3> QED BY <1>1, <2>1, <3>1
  <2>2. ~(itemID < itemID) BY <1>1
  <2> QED BY <2>1, <2>2 DEF Given, GivenBy
<1>3. ~Given(0) BY <1>1 DEF Given, GivenBy
<1>4. ASSUME NEW c \in 0 .. Seats - 1, NEW id \in Nat, playerItemID[c] <= id, id < FirstId[c] + Width
      PROVE  ~Given(id)
  <2>1. ASSUME NEW d \in 0 .. Seats - 1, FirstId[d] <= id, id < playerItemID[d] PROVE FALSE
    <3>0. c \in Nat /\ d \in Nat BY <1>1
    <3>1. CASE c = d BY <1>1, <1>4, <2>1, <3>1
    <3>2. CASE c < d
      <4>1. FirstId[c] + Width <= FirstId[d] BY <3>2, RangesApart
      <4> QED BY <1>1, <1>4, <2>1, <4>1
    <3>3. CASE d < c
      <4>1. FirstId[d] + Width <= FirstId[c] BY <3>3, RangesApart
      <4>2. playerItemID[d] <= FirstId[d] + Width /\ FirstId[c] <= playerItemID[c] BY <1>1
      <4> QED BY <1>1, <1>4, <2>1, <4>1, <4>2
    <3> QED BY <3>0, <3>1, <3>2, <3>3
  <2>2. ~(FirstFound <= id)
    <3>1. FirstId[c] + Width <= FirstFound BY RangesApart
    <3> QED BY <1>1, <1>4, <3>1
  <2> QED BY <2>1, <2>2 DEF Given, GivenBy
<1> QED BY <1>2, <1>3, <1>4

\* What is given stays so while the counters go up.
LEMMA StaysGiven ==
  ASSUME itemID \in Nat, itemID' \in Nat, itemID <= itemID',
         \A c \in 0 .. Seats - 1 : /\ playerItemID[c] \in Nat /\ playerItemID'[c] \in Nat
                                   /\ playerItemID[c] <= playerItemID'[c],
         NEW id \in Nat, Given(id)
  PROVE  GivenBy(id, itemID', playerItemID')
<1>2. FirstFound \in Nat /\ \A c \in 0 .. Seats - 1 : FirstId[c] \in Nat BY IdsAre
<1>3. CASE \E c \in 0 .. Seats - 1 : FirstId[c] <= id /\ id < playerItemID[c]
  <2>1. PICK c \in 0 .. Seats - 1 : FirstId[c] <= id /\ id < playerItemID[c] BY <1>3
  <2>2. id < playerItemID'[c] BY <2>1
  <2> QED BY <2>1, <2>2 DEF Given, GivenBy
<1>4. CASE FirstFound <= id /\ id < itemID
  <2>1. id < itemID' BY <1>4
  <2> QED BY <1>4, <2>1 DEF Given, GivenBy
<1> QED BY <1>3, <1>4 DEF Given, GivenBy

\* A thing that clashes with nothing that is carried, or will be on the floor or
\* offered.
FitsIn(x) ==
  /\ \A q \in Players : Here(q) => \A i \in 1 .. Len(inv[q]) : Ok(x, inv[q][i])
  /\ \A s \in Slots : floor'[s].id # 0 => Ok(x, floor'[s])
  /\ \A q \in Players : Here(q) /\ tekked'[q].id # 0 => Ok(x, tekked'[q])

\* What p carries becomes r, with new at most one thing more; from the floor
\* things go, and y, if it comes there, fits.
LEMMA KeepsUnique ==
  ASSUME ItemsInv, UniqueInv, NEW p \in Players, NEW r \in Seq(Items), NEW f, NEW x, NEW new,
         new \in {{}, {x}}, Comes(inv[p], r, new, f), inv' = [inv EXCEPT ![p] = r],
         \A q \in Players : Here(q)' => Here(q),
         new # {} => FitsIn(x),
         \A s \in Slots : \/ floor'[s].id = 0
                          \/ floor'[s] = floor[s]
                          \/ /\ \A q \in Players : Here(q)' =>
                                  \A i \in 1 .. Len(inv'[q]) : Ok(inv'[q][i], floor'[s])
                             /\ \A t \in Slots : t # s => Ok(floor'[s], floor'[t])
                             /\ \A q \in Players : Here(q)' => Ok(floor'[s], tekked'[q]),
         \A q \in Players : tekked'[q].id = 0 \/ tekked'[q] = tekked[q]
  PROVE  UniqueInv'
<1> DEFINE F(q, i) == IF q = p THEN f[i] ELSE i
<1>0. /\ inv'[p] = r /\ \A q \in Players : q # p => inv'[q] = inv[q]
      /\ inv[p] \in Seq(Items) /\ Len(inv[p]) \in Nat
  BY DEF ItemsInv, HeldOK
<1>1. ASSUME NEW q \in Players, NEW i \in 1 .. Len(inv'[q]), Here(q)'
      PROVE  /\ Here(q)
             /\ \/ F(q, i) \in 1 .. Len(inv[q]) /\ Like(inv'[q][i], inv[q][F(q, i)])
                \/ q = p /\ F(q, i) = Len(inv[p]) + 1 /\ new = {x} /\ Like(inv'[q][i], x)
  <2>1. CASE q = p
    <3>1. i \in 1 .. Len(r) /\ inv'[q][i] = r[i] BY <1>0, <2>1
    <3>2. \/ f[i] \in 1 .. Len(inv[p]) /\ Like(r[i], inv[p][f[i]])
          \/ f[i] = Len(inv[p]) + 1 /\ \E z \in new : Like(r[i], z)
      BY <3>1 DEF Comes
    <3>3. (\E z \in new : Like(r[i], z)) => new = {x} /\ Like(r[i], x) OBVIOUS
    <3>4. F(q, i) = f[i] BY <2>1
    <3> HIDE DEF F
    <3> QED BY <1>1, <2>1, <3>1, <3>2, <3>3, <3>4
  <2>2. CASE q # p
    <3>1. F(q, i) = i /\ inv'[q] = inv[q] BY <1>0, <2>2
    <3> HIDE DEF F
    <3> QED BY <1>1, <3>1 DEF Like
  <2> QED BY <2>1, <2>2
<1>2. ASSUME NEW q \in Players, NEW i \in 1 .. Len(inv'[q]), NEW j \in 1 .. Len(inv'[q]), i # j
      PROVE  F(q, i) # F(q, j)
  <2>1. CASE q = p
    <3>1. i \in 1 .. Len(r) /\ j \in 1 .. Len(r) BY <1>0, <2>1
    <3>2. f[i] # f[j] BY <1>2, <3>1 DEF Comes
    <3> QED BY <2>1, <3>2
  <2>2. CASE q # p BY <1>2, <2>2
  <2> QED BY <2>1, <2>2
<1> HIDE DEF F
<1>3. \A a, b, c, d : Ok(a, b) /\ Like(c, a) /\ Like(d, b) => Ok(c, d) BY DEF Ok, Like, IsTool
<1>4. ASSUME NEW q \in Players, NEW i \in 1 .. Len(inv'[q]), NEW u \in Players,
             NEW j \in 1 .. Len(inv'[u]), Here(q)', Here(u)', q # u \/ i # j
      PROVE  Ok(inv'[q][i], inv'[u][j])
  <2>1. Here(q) /\ Here(u) BY <1>1, <1>4
  <2>2. CASE /\ F(q, i) \in 1 .. Len(inv[q]) /\ Like(inv'[q][i], inv[q][F(q, i)])
             /\ F(u, j) \in 1 .. Len(inv[u]) /\ Like(inv'[u][j], inv[u][F(u, j)])
    <3>1. q # u \/ F(q, i) # F(u, j) BY <1>2, <1>4
    <3>2. Ok(inv[q][F(q, i)], inv[u][F(u, j)]) BY <2>1, <2>2, <3>1 DEF UniqueInv
    <3> QED BY <1>3, <2>2, <3>2
  <2>3. CASE /\ F(q, i) \in 1 .. Len(inv[q]) /\ Like(inv'[q][i], inv[q][F(q, i)])
             /\ new = {x} /\ Like(inv'[u][j], x)
    <3>1. Ok(x, inv[q][F(q, i)]) BY <2>1, <2>3 DEF FitsIn
    <3> QED BY <1>3, <2>3, <3>1, OkIs
  <2>4. CASE /\ F(u, j) \in 1 .. Len(inv[u]) /\ Like(inv'[u][j], inv[u][F(u, j)])
             /\ new = {x} /\ Like(inv'[q][i], x)
    <3>1. Ok(x, inv[u][F(u, j)]) BY <2>1, <2>4 DEF FitsIn
    <3> QED BY <1>3, <2>4, <3>1
  <2>5. CASE q = p /\ u = p /\ F(q, i) = Len(inv[p]) + 1 /\ F(u, j) = Len(inv[p]) + 1
    <3>1. i # j /\ q = u BY <1>4, <2>5
    <3> QED BY <1>2, <2>5, <3>1
  <2> QED BY <1>1, <1>4, <2>2, <2>3, <2>4, <2>5
<1>5. ASSUME NEW q \in Players, NEW i \in 1 .. Len(inv'[q]), Here(q)', NEW s \in Slots
      PROVE  Ok(inv'[q][i], floor'[s])
  <2>1. CASE floor'[s].id = 0 BY <2>1, OkIs
  <2>2. CASE floor'[s].id # 0 /\ floor'[s] = floor[s]
    <3>1. CASE F(q, i) \in 1 .. Len(inv[q]) /\ Like(inv'[q][i], inv[q][F(q, i)])
      <4>1. Ok(inv[q][F(q, i)], floor[s]) BY <1>1, <1>5, <3>1 DEF UniqueInv
      <4> QED BY <2>2, <3>1, <4>1, OkIs
    <3>2. CASE new = {x} /\ Like(inv'[q][i], x)
      <4>1. Ok(x, floor'[s]) BY <2>2, <3>2 DEF FitsIn
      <4> QED BY <3>2, <4>1, OkIs
    <3> QED BY <1>1, <1>5, <3>1, <3>2
  <2>3. CASE \A z \in Players : Here(z)' => \A k \in 1 .. Len(inv'[z]) : Ok(inv'[z][k], floor'[s])
    BY <1>5, <2>3
  <2> QED BY <2>1, <2>2, <2>3
<1>6. ASSUME NEW s \in Slots, NEW t \in Slots, s # t PROVE Ok(floor'[s], floor'[t])
  <2>1. CASE floor'[s].id = 0 \/ floor'[t].id = 0 BY <2>1, OkIs
  <2>2. CASE floor'[s] = floor[s] /\ floor'[t] = floor[t] BY <1>6, <2>2 DEF UniqueInv
  <2>3. CASE \A z \in Slots : z # s => Ok(floor'[s], floor'[z]) BY <1>6, <2>3
  <2>4. CASE \A z \in Slots : z # t => Ok(floor'[t], floor'[z]) BY <1>6, <2>4, OkIs
  <2> QED BY <2>1, <2>2, <2>3, <2>4
<1>7. ASSUME NEW q \in Players, NEW i \in 1 .. Len(inv'[q]), NEW u \in Players, Here(q)', Here(u)'
      PROVE  Ok(inv'[q][i], tekked'[u])
  <2>0. Here(q) /\ Here(u) BY <1>1, <1>7
  <2>1. CASE tekked'[u].id = 0 BY <2>1, OkIs
  <2>2. CASE tekked'[u].id # 0 /\ tekked'[u] = tekked[u]
    <3>1. CASE F(q, i) \in 1 .. Len(inv[q]) /\ Like(inv'[q][i], inv[q][F(q, i)])
      <4>1. Ok(inv[q][F(q, i)], tekked[u]) BY <2>0, <3>1 DEF UniqueInv
      <4> QED BY <2>2, <3>1, <4>1, OkIs
    <3>2. CASE new = {x} /\ Like(inv'[q][i], x)
      <4>1. Ok(x, tekked'[u]) BY <2>0, <2>2, <3>2 DEF FitsIn
      <4> QED BY <3>2, <4>1, OkIs
    <3> QED BY <1>1, <1>7, <3>1, <3>2
  <2> QED BY <2>1, <2>2
<1>8. ASSUME NEW q \in Players, Here(q)', NEW s \in Slots PROVE Ok(floor'[s], tekked'[q])
  <2>1. CASE floor'[s].id = 0 \/ tekked'[q].id = 0 BY <2>1, OkIs
  <2>2. CASE floor'[s] = floor[s] /\ tekked'[q] = tekked[q] BY <1>8, <2>2 DEF UniqueInv
  <2>3. CASE \A z \in Players : Here(z)' => Ok(floor'[s], tekked'[z]) BY <1>8, <2>3
  <2> QED BY <2>1, <2>2, <2>3
<1>9. ASSUME NEW q \in Players, NEW u \in Players, Here(q)', Here(u)', q # u
      PROVE  Ok(tekked'[q], tekked'[u])
  <2>1. CASE tekked'[q].id = 0 \/ tekked'[u].id = 0 BY <2>1, OkIs
  <2>2. CASE tekked'[q] = tekked[q] /\ tekked'[u] = tekked[u] BY <1>9, <2>2 DEF UniqueInv
  <2> QED BY <2>1, <2>2
<1> QED BY <1>4, <1>5, <1>6, <1>7, <1>8, <1>9 DEF UniqueInv, Ok, IsTool

\* The counters of ids only go up, and no seat's leaves its range.
CountersUp ==
  /\ itemID <= itemID'
  /\ \A c \in 0 .. Seats - 1 : /\ playerItemID[c] <= playerItemID'[c]
                               /\ playerItemID'[c] <= FirstId[c] + Width

GivenNext(id) == GivenBy(id, itemID', playerItemID')

\* What comes to p, and what comes to the floor, if anything does.
NewHeld(x) == RawOK(x) /\ GivenNext(x.id) /\ FitsIn(x)
NewOnFloor(s) ==
  /\ RawOK(floor'[s]) /\ GivenNext(floor'[s].id)
  /\ \A q \in Players : Here(q)' => \A i \in 1 .. Len(inv'[q]) : Ok(inv'[q][i], floor'[s])
  /\ \A t \in Slots : t # s => Ok(floor'[s], floor'[t])
  /\ \A q \in Players : Here(q)' => Ok(floor'[s], tekked'[q])

\* Of the floor things only go, but for what comes there; with the last player
\* all go.
FloorMoves ==
  /\ \A s \in Slots : floor'[s] = NoItem \/ floor'[s] = floor[s] \/ NewOnFloor(s)
  /\ (\A q \in Players : ~Here(q)') => \A s \in Slots : floor'[s].id = 0

TekMoves == \A q \in Players : tekked'[q] = NoItem \/ tekked'[q] = tekked[q]

BankRaw == \A q \in Players : \A j \in 1 .. Len(bank'[q]) : RawOK(bank'[q][j])

LEMMA GivenMonotone ==
  ASSUME ItemsInv, ItemsInv', CountersUp, NEW id \in Nat, Given(id)
  PROVE  GivenNext(id)
<1>1. itemID \in Nat /\ itemID' \in Nat /\ itemID <= itemID'
  BY DEF ItemsInv, IdsOK, CountersUp
<1>2. \A c \in 0 .. Seats - 1 : /\ playerItemID[c] \in Nat /\ playerItemID'[c] \in Nat
                                /\ playerItemID[c] <= playerItemID'[c]
  BY DEF ItemsInv, IdsOK, CountersUp
<1> QED BY <1>1, <1>2, StaysGiven DEF GivenNext

LEMMA PrimesOf ==
  /\ \A id : (Given(id))' <=> GivenNext(id)
  /\ FirstId' = FirstId /\ NoItem' = NoItem
BY DEF Given, GivenNext, GivenBy, FirstId, FirstFound, NoItem, Tool

\* The invariant of the ids after a step of which this is known.
LEMMA KeepsIds ==
  ASSUME ItemsInv, ItemsInv', IdInv, CountersUp,
         NEW p \in Players, NEW r \in Seq(Items), NEW f, NEW x, NEW new,
         new \in {{}, {x}}, Comes(inv[p], r, new, f), inv' = [inv EXCEPT ![p] = r],
         \A q \in Players : Here(q)' => Here(q),
         new # {} => NewHeld(x), FloorMoves, TekMoves, BankRaw
  PROVE  IdInv'
<1>0. /\ inv'[p] = r /\ \A q \in Players : q # p => inv'[q] = inv[q]
      /\ inv[p] \in Seq(Items) /\ Len(inv[p]) \in Nat
  BY DEF ItemsInv, HeldOK
<1>1. NoItem.id = 0 /\ RawOK(NoItem) BY DEF NoItem, Tool, RawOK
<1>2. UniqueInv'
  <2>1. UniqueInv BY DEF IdInv
  <2>2. new # {} => FitsIn(x) BY DEF NewHeld
  <2>3. \A s \in Slots : \/ floor'[s].id = 0
                         \/ floor'[s] = floor[s]
                         \/ /\ \A q \in Players : Here(q)' =>
                                 \A i \in 1 .. Len(inv'[q]) : Ok(inv'[q][i], floor'[s])
                            /\ \A t \in Slots : t # s => Ok(floor'[s], floor'[t])
                            /\ \A q \in Players : Here(q)' => Ok(floor'[s], tekked'[q])
    BY <1>1 DEF FloorMoves, NewOnFloor
  <2>4. \A q \in Players : tekked'[q].id = 0 \/ tekked'[q] = tekked[q] BY <1>1 DEF TekMoves
  <2> QED BY <2>1, <2>2, <2>3, <2>4, KeepsUnique
<1>3. ASSUME NEW q \in Players, NEW i \in 1 .. Len(inv'[q])
      PROVE  \/ \E j \in 1 .. Len(inv[q]) : Like(inv'[q][i], inv[q][j])
             \/ new # {} /\ Like(inv'[q][i], x)
  <2>1. CASE q = p
    <3>1. i \in 1 .. Len(r) /\ inv'[q][i] = r[i] BY <1>0, <2>1
    <3>2. \/ f[i] \in 1 .. Len(inv[p]) /\ Like(r[i], inv[p][f[i]])
          \/ \E z \in new : Like(r[i], z)
      BY <3>1 DEF Comes
    <3> QED BY <2>1, <3>1, <3>2
  <2>2. CASE q # p BY <1>0, <2>2 DEF Like
  <2> QED BY <2>1, <2>2
<1>4. RawInv'
  <2>1. ASSUME NEW q \in Players, NEW i \in 1 .. Len(inv'[q]) PROVE RawOK(inv'[q][i])
    <3>1. CASE \E j \in 1 .. Len(inv[q]) : Like(inv'[q][i], inv[q][j])
      BY <3>1 DEF IdInv, RawInv, RawOK, Like
    <3>2. CASE new # {} /\ Like(inv'[q][i], x) BY <3>2 DEF NewHeld, RawOK, Like
    <3> QED BY <1>3, <3>1, <3>2
  <2>2. \A s \in Slots : RawOK(floor'[s]) BY <1>1 DEF FloorMoves, NewOnFloor, IdInv, RawInv
  <2>3. \A q \in Players : RawOK(tekked'[q]) BY <1>1 DEF TekMoves, IdInv, RawInv
  <2> QED BY <2>1, <2>2, <2>3 DEF BankRaw, RawInv, RawOK
<1>5. GivenInv'
  <2>1. \A id \in Nat : Given(id) => GivenNext(id) BY GivenMonotone
  <2>2. ASSUME NEW q \in Players, Here(q)', NEW i \in 1 .. Len(inv'[q])
        PROVE  GivenNext(inv'[q][i].id)
    <3>1. CASE \E j \in 1 .. Len(inv[q]) : Like(inv'[q][i], inv[q][j])
      <4>1. PICK j \in 1 .. Len(inv[q]) : Like(inv'[q][i], inv[q][j]) BY <3>1
      <4>2. Here(q) /\ Given(inv[q][j].id) BY <2>2 DEF IdInv, GivenInv
      <4>3. inv[q][j].id \in Nat BY CarriedIs, ItemIs
      <4>4. inv'[q][i].id = inv[q][j].id BY <4>1 DEF Like
      <4> QED BY <2>1, <4>2, <4>3, <4>4
    <3>2. CASE new # {} /\ Like(inv'[q][i], x) BY <3>2 DEF NewHeld, Like
    <3> QED BY <1>3, <3>1, <3>2
  <2>3. ASSUME NEW s \in Slots, floor'[s].id # 0 PROVE GivenNext(floor'[s].id)
    <3>1. floor[s].id \in Nat BY ItemIs DEF ItemsInv, FloorOK, FloorFits
    <3>2. floor'[s] = floor[s] => Given(floor[s].id) BY <2>3 DEF IdInv, GivenInv
    <3> QED BY <1>1, <2>1, <2>3, <3>1, <3>2 DEF FloorMoves, NewOnFloor
  <2>4. ASSUME NEW q \in Players, Here(q)', tekked'[q].id # 0 PROVE GivenNext(tekked'[q].id)
    <3>1. tekked[q].id \in Nat BY ItemIs DEF ItemsInv, TekOK
    <3>2. tekked'[q] = tekked[q] /\ Given(tekked[q].id) BY <1>1, <2>4 DEF TekMoves, IdInv, GivenInv
    <3> QED BY <2>1, <3>1, <3>2
  <2>5. \A c \in 0 .. Seats - 1 : playerItemID'[c] <= FirstId'[c] + Width
    BY PrimesOf DEF CountersUp
  <2>6. (\A q \in Players : ~Here(q)') => \A s \in Slots : floor'[s].id = 0 BY DEF FloorMoves
  <2>7. \A q \in Players : Here(q)' => \A i \in 1 .. Len(inv'[q]) : (Given(inv[q][i].id))'
    BY <2>2 DEF Given, GivenNext, GivenBy, FirstId, FirstFound
  <2>8. \A s \in Slots : floor'[s].id # 0 => (Given(floor[s].id))'
    BY <2>3 DEF Given, GivenNext, GivenBy, FirstId, FirstFound
  <2>9. \A q \in Players : Here(q)' /\ tekked'[q].id # 0 => (Given(tekked[q].id))'
    BY <2>4 DEF Given, GivenNext, GivenBy, FirstId, FirstFound
  <2> QED BY <2>5, <2>6, <2>7, <2>8, <2>9 DEF GivenInv
<1> QED BY <1>2, <1>4, <1>5 DEF IdInv

\* A thing of which nothing else has the id clashes with nothing.
LEMMA FreshFits ==
  ASSUME ItemsInv, IdInv, NEW x, ~Given(x.id),
         \A s \in Slots : floor'[s] = NoItem \/ floor'[s] = floor[s], TekMoves
  PROVE  FitsIn(x)
<1>1. NoItem.id = 0 BY NothingIs
<1>2. \A q \in Players : Here(q) => \A i \in 1 .. Len(inv[q]) : Ok(x, inv[q][i])
  BY OkIs DEF IdInv, GivenInv
<1>3. \A s \in Slots : floor'[s].id # 0 => Ok(x, floor'[s]) BY <1>1, OkIs DEF IdInv, GivenInv
<1>4. \A q \in Players : Here(q) /\ tekked'[q].id # 0 => Ok(x, tekked'[q])
  BY <1>1, OkIs DEF IdInv, GivenInv, TekMoves
<1> QED BY <1>2, <1>3, <1>4 DEF FitsIn

\* The floor after p's request, when nothing comes there.
LEMMA FloorLess ==
  ASSUME ItemsInv, NEW p \in Players, Here(p), NEW fl, NEW li,
         \A s \in Slots : fl[s] = NoItem \/ fl[s] = floor[s],
         Go(p, fl, li) \/ Stay(fl, li)
  PROVE  /\ FloorMoves /\ \A q \in Players : Here(q)' => Here(q)
         /\ \A s \in Slots : floor'[s] = NoItem \/ floor'[s] = floor[s]
<1>0. NoItem.id = 0 /\ \A s \in Slots : NoFloor[s] = NoItem BY NothingIs DEF NoFloor
<1>1. CASE Stay(fl, li)
  <2>1. floor' = fl /\ seat' = seat BY <1>1 DEF Stay
  <2>2. \A q \in Players : Here(q)' <=> Here(q) BY <2>1 DEF Here
  <2> QED BY <2>1, <2>2 DEF FloorMoves
<1>2. CASE Go(p, fl, li)
  <2> DEFINE last == \A q \in Players \ {p} : ~Here(q)
  <2>1. /\ seat' = [seat EXCEPT ![p] = None]
        /\ last => floor' = NoFloor
        /\ ~last => floor' = fl
    BY <1>2 DEF Go
  <2>2. seat'[p] = None /\ \A q \in Players : q # p => seat'[q] = seat[q]
    BY <2>1 DEF ItemsInv, SeatOK
  <2>3. \A q \in Players : Here(q)' => Here(q) BY <2>2 DEF Here
  <2>4. (\A q \in Players : ~Here(q)') => last BY <2>2 DEF Here
  <2>5. \A s \in Slots : floor'[s] = NoItem \/ floor'[s] = floor[s]
    <3>1. CASE last BY <1>0, <2>1, <3>1
    <3>2. CASE ~last BY <2>1, <3>2
    <3> QED BY <3>1, <3>2
  <2>6. (\A q \in Players : ~Here(q)') => \A s \in Slots : floor'[s].id = 0 BY <1>0, <2>1, <2>4
  <2> HIDE DEF last
  <2> QED BY <2>3, <2>5, <2>6 DEF FloorMoves
<1> QED BY <1>1, <1>2

LEMMA CountersAre ==
  ASSUME ItemsInv, IdInv, itemID' = itemID \/ itemID' = itemID + 1,
         \/ playerItemID' = playerItemID
         \/ \E c \in 0 .. Seats - 1 : /\ playerItemID[c] < FirstId[c] + Width
                                      /\ playerItemID' = [playerItemID EXCEPT ![c] = @ + 1]
  PROVE  CountersUp
<1>1. /\ itemID \in Nat /\ playerItemID \in [0 .. Seats - 1 -> Nat]
      /\ \A c \in 0 .. Seats - 1 : playerItemID[c] <= FirstId[c] + Width
  BY DEF ItemsInv, IdsOK, IdInv, GivenInv
<1>2. itemID <= itemID' BY <1>1
<1>3. Width \in Nat /\ \A c \in 0 .. Seats - 1 : FirstId[c] \in Nat BY IdsAre, Sizes
<1>4. ASSUME NEW d \in 0 .. Seats - 1
      PROVE  playerItemID[d] <= playerItemID'[d] /\ playerItemID'[d] <= FirstId[d] + Width
  <2>1. playerItemID[d] \in Nat /\ FirstId[d] \in Nat BY <1>1, <1>3
  <2>2. CASE playerItemID' = playerItemID BY <1>1, <2>1, <2>2
  <2>3. CASE \E c \in 0 .. Seats - 1 : /\ playerItemID[c] < FirstId[c] + Width
                                       /\ playerItemID' = [playerItemID EXCEPT ![c] = @ + 1]
    <3>1. PICK c \in 0 .. Seats - 1 : /\ playerItemID[c] < FirstId[c] + Width
                                      /\ playerItemID' = [playerItemID EXCEPT ![c] = @ + 1]
      BY <2>3
    <3>2. CASE d = c
      <4>1. playerItemID'[d] = playerItemID[d] + 1 BY <1>1, <3>1, <3>2
      <4> QED BY <1>3, <2>1, <3>1, <3>2, <4>1
    <3>3. CASE d # c
      <4>1. playerItemID'[d] = playerItemID[d] BY <1>1, <3>1, <3>3
      <4> QED BY <1>1, <2>1, <4>1
    <3> QED BY <3>2, <3>3
  <2> QED BY <2>2, <2>3
<1> QED BY <1>2, <1>4 DEF CountersUp

LEMMA RawBanks ==
  ASSUME IdInv, bank' = bank
  PROVE  BankRaw
BY DEF IdInv, RawInv, BankRaw

\* Nothing changes hands.
LEMMA KeepsSame ==
  ASSUME ItemsInv, ItemsInv', IdInv, CountersUp, NEW p \in Players, inv' = inv,
         \A q \in Players : Here(q)' => Here(q), FloorMoves, TekMoves, BankRaw
  PROVE  IdInv'
<1>1. inv[p] \in Seq(Items) /\ \A i \in 1 .. Len(inv[p]) : Like(inv[p][i], inv[p][i])
  BY CarriedIs DEF Like
<1>2. PICK f : Comes(inv[p], inv[p], {}, f) BY <1>1, ComesSame
<1>3. inv' = [inv EXCEPT ![p] = inv[p]] BY DEF ItemsInv, HeldOK
<1>4. {} \in {{}, {NoItem}} OBVIOUS
<1> QED BY <1>1, <1>2, <1>3, <1>4, KeepsIds

\* p only loses what it carries.
LEMMA KeepsLess ==
  ASSUME ItemsInv, ItemsInv', IdInv, CountersUp, NEW p \in Players, NEW r \in Seq(Items),
         \E f : Comes(inv[p], r, {}, f), inv' = [inv EXCEPT ![p] = r],
         \A q \in Players : Here(q)' => Here(q), FloorMoves, TekMoves, BankRaw
  PROVE  IdInv'
<1>1. PICK f : Comes(inv[p], r, {}, f) OBVIOUS
<1>2. {} \in {{}, {NoItem}} OBVIOUS
<1> QED BY <1>1, <1>2, KeepsIds

\* p gets one thing more.
LEMMA KeepsMore ==
  ASSUME ItemsInv, ItemsInv', IdInv, CountersUp, NEW p \in Players, NEW x \in Items, x.n > 0,
         inv' = [inv EXCEPT ![p] = Put(inv[p], x)],
         \A q \in Players : Here(q)' => Here(q), NewHeld(x), FloorMoves, TekMoves, BankRaw
  PROVE  IdInv'
<1> DEFINE r == Put(inv[p], x)
<1>1. inv[p] \in Seq(Items) BY CarriedIs
<1>2. r \in Seq(Items) /\ \E f : Comes(inv[p], r, {x}, f) BY <1>1, PutIs
<1>3. PICK f : Comes(inv[p], r, {x}, f) BY <1>2
<1>4. {x} \in {{}, {x}} OBVIOUS
<1>5. inv' = [inv EXCEPT ![p] = r] OBVIOUS
<1> HIDE DEF r
<1> QED BY <1>2, <1>3, <1>4, <1>5, KeepsIds

\* As long as nobody named a thing twice, nothing is behind what is carried.
LEMMA CleanIs ==
  ASSUME ItemsInv, doubled = 0, NEW p \in Players, NEW r \in Seq(Items), CleanUp(p, r)
  PROVE  /\ inv' = [inv EXCEPT ![p] = r]
         /\ r = inv[p] => inv' = inv
<1>1. tail[p] = <<>> /\ inv \in [Players -> Seq(Items)] BY DEF ItemsInv, HeldOK, TailOK
<1>2. r \o tail[p] = r BY <1>1
<1>3. inv' = [inv EXCEPT ![p] = r] BY <1>2 DEF CleanUp
<1>4. r = inv[p] => inv' = inv BY <1>1, <1>3
<1> QED BY <1>3, <1>4

LEMMA LeaveIds ==
  ASSUME ItemsInv, IdInv, NEW p \in Players, Leave(p)
  PROVE  IdInv'
<1>1. /\ Here(p) /\ Go(p, floor, list) /\ inv' = inv /\ bank' = bank /\ tekked' = tekked
      /\ itemID' = itemID /\ playerItemID' = playerItemID
  BY DEF Leave, pack
<1>2. FloorMoves /\ \A q \in Players : Here(q)' => Here(q) BY <1>1, FloorLess
<1>3. CountersUp /\ BankRaw /\ TekMoves BY <1>1, CountersAre, RawBanks DEF TekMoves
<1> QED BY <1>1, <1>2, <1>3, LeaveItems, KeepsSame

LEMMA SortIds ==
  ASSUME ItemsInv, IdInv, NEW p \in Players, NEW order \in SeqOf(Answers(p), Carry),
         Sort(p, order), doubled' = doubled
  PROVE  IdInv'
<1> DEFINE named == [k \in 1 .. Len(order) |-> inv[p][order[k]]]
           m == Least(Len(order), inventoryUse(p))
           r == SubSeq(named, 1, m)
<1>1. /\ Here(p) /\ bank' = bank /\ tekked' = tekked /\ seat' = seat /\ floor' = floor
      /\ list' = list /\ itemID' = itemID /\ playerItemID' = playerItemID /\ blanked' = blanked
  BY DEF Sort, game
<1>2. Stay(floor, list) BY <1>1 DEF Stay
<1>3. FloorMoves /\ \A q \in Players : Here(q)' => Here(q) BY <1>1, <1>2, FloorLess
<1>4. CountersUp /\ BankRaw /\ TekMoves BY <1>1, CountersAre, RawBanks DEF TekMoves
<1>5. /\ named \in Seq(Items) /\ m = Len(named) /\ inv' = [inv EXCEPT ![p] = r]
      /\ \E f : Comes(inv[p], named, {}, f)
  BY SortedIs
<1>6. r = named
  <2> HIDE DEF named, m
  <2>1. r = SubSeq(named, 1, Len(named)) BY <1>5
  <2> HIDE DEF r
  <2> QED BY <1>5, <2>1
<1>7. ItemsInv' BY SortItems
<1> HIDE DEF r, named, m
<1>8. r \in Seq(Items) /\ \E f : Comes(inv[p], r, {}, f) BY <1>5, <1>6
<1> QED BY <1>3, <1>4, <1>5, <1>7, <1>8, KeepsLess

LEMMA DeleteIds ==
  ASSUME ItemsInv, IdInv, doubled = 0, NEW p \in Players, NEW i \in 1 .. Len(inv[p]), NEW n \in 1 .. MaxBuy,
         Delete(p, i, n)
  PROVE  IdInv'
<1>1. /\ Here(p) /\ bank' = bank /\ tekked' = tekked /\ itemID' = itemID
      /\ playerItemID' = playerItemID
  BY DEF Delete
<1>2. Go(p, floor, list) \/ Stay(floor, list) BY DEF Delete
<1>3. FloorMoves /\ \A q \in Players : Here(q)' => Here(q) BY <1>1, <1>2, FloorLess
<1>4. CountersUp /\ BankRaw /\ TekMoves BY <1>1, CountersAre, RawBanks DEF TekMoves
<1>5. ItemsInv' BY DeleteItems
<1>6. CASE CleanUp(p, inv[p])
  <2>1. inv' = inv BY <1>6, CarriedIs, CleanIs
  <2> QED BY <1>3, <1>4, <1>5, <2>1, KeepsSame
<1>7. CASE CleanUp(p, Take(inv[p], i, n))
  <2>1. inv[p] \in Seq(Items) /\ n \in Nat BY CarriedIs
  <2>2. Take(inv[p], i, n) \in Seq(Items) /\ \E f : Comes(inv[p], Take(inv[p], i, n), {}, f)
    BY <2>1, TakeIs
  <2>3. inv' = [inv EXCEPT ![p] = Take(inv[p], i, n)] BY <1>7, <2>2, CleanIs
  <2> QED BY <1>3, <1>4, <1>5, <2>2, <2>3, KeepsLess
<1> QED BY <1>6, <1>7 DEF Delete

LEMMA DepositIds ==
  ASSUME ItemsInv, IdInv, doubled = 0, NEW p \in Players, NEW i \in 1 .. Len(inv[p]), NEW n \in 1 .. MaxBuy,
         Deposit(p, i, n)
  PROVE  IdInv'
<1>1. Here(p) /\ tekked' = tekked /\ itemID' = itemID /\ playerItemID' = playerItemID
  BY DEF Deposit
<1>2. Go(p, floor, list) \/ Stay(floor, list) BY DEF Deposit
<1>3. FloorMoves /\ \A q \in Players : Here(q)' => Here(q) BY <1>1, <1>2, FloorLess
<1>4. CountersUp /\ TekMoves BY <1>1, CountersAre DEF TekMoves
<1>5. ItemsInv' BY DepositItems
<1>6. CASE (UNCHANGED pack \/ CleanUp(p, inv[p])) /\ bank' = bank
  <2>1. inv' = inv BY <1>6, CarriedIs, CleanIs DEF pack
  <2> QED BY <1>3, <1>4, <1>5, <1>6, <2>1, RawBanks, KeepsSame
<1>7. CASE /\ CleanUp(p, Take(inv[p], i, n))
           /\ bank' = [bank EXCEPT ![p] = SortBankItems(Put(@, [inv[p][i] EXCEPT !.id = 0, !.n = n]))]
  <2> DEFINE it == [inv[p][i] EXCEPT !.id = 0, !.n = n]
             b == Put(bank[p], it)
  <2>1. inv[p] \in Seq(Items) /\ inv[p][i] \in Items /\ bank[p] \in Seq(Items) BY CarriedIs, BankedIs
  <2>2. n \in Nat /\ n \in 0 .. MaxBuy /\ n > 0 BY Sizes
  <2>3. Take(inv[p], i, n) \in Seq(Items) /\ \E f : Comes(inv[p], Take(inv[p], i, n), {}, f)
    BY <2>1, <2>2, TakeIs
  <2>4. it \in Items /\ it.n > 0 BY <2>1, <2>2 DEF Items
  <2>5. RawOK(it)
    <3>1. RawOK(inv[p][i]) BY DEF IdInv, RawInv
    <3>2. it.raw = inv[p][i].raw /\ it.serial = inv[p][i].serial BY <2>1 DEF Items
    <3> QED BY <3>1, <3>2 DEF RawOK
  <2>6. bank' = [bank EXCEPT ![p] = SortBankItems(b)] BY <1>7
  <2> HIDE DEF it
  <2>7. b \in Seq(Items) /\ \E f : Comes(bank[p], b, {it}, f) BY <2>1, <2>4, PutIs
  <2> HIDE DEF b
  <2>8. ASSUME NEW k \in 1 .. Len(b) PROVE RawOK(b[k])
    <3>1. PICK f : Comes(bank[p], b, {it}, f) BY <2>7
    <3>2. \/ f[k] \in 1 .. Len(bank[p]) /\ Like(b[k], bank[p][f[k]])
          \/ Like(b[k], it)
      BY <3>1 DEF Comes
    <3> QED BY <2>5, <3>2 DEF IdInv, RawInv, RawOK, Like
  <2>9. /\ SortBankItems(b) \in Seq(Items) /\ Len(SortBankItems(b)) = Len(b)
        /\ \A k \in 1 .. Len(b) : \E m \in 1 .. Len(b) : SortBankItems(b)[k] = b[m]
    BY <2>7, SortIs
  <2>10. BankRaw
    <3>1. ASSUME NEW q \in Players, NEW j \in 1 .. Len(bank'[q]) PROVE RawOK(bank'[q][j])
      <4>1. bank'[p] = SortBankItems(b) /\ \A u \in Players : u # p => bank'[u] = bank[u]
        BY <2>6 DEF ItemsInv, BankOK
      <4>2. CASE q = p BY <2>8, <2>9, <4>1, <4>2
      <4>3. CASE q # p BY <4>1, <4>3 DEF IdInv, RawInv
      <4> QED BY <4>2, <4>3
    <3> QED BY <3>1 DEF BankRaw
  <2>11. inv' = [inv EXCEPT ![p] = Take(inv[p], i, n)] BY <1>7, <2>3, CleanIs
  <2> QED BY <1>3, <1>4, <1>5, <2>3, <2>10, <2>11, KeepsLess
<1> QED BY <1>6, <1>7 DEF Deposit

\* p's bank becomes r, of the same things or fewer.
LEMMA RawBank ==
  ASSUME ItemsInv, IdInv, NEW p \in Players, NEW r, bank' = [bank EXCEPT ![p] = r],
         \A k \in 1 .. Len(r) : \E j \in 1 .. Len(bank[p]) : Like(r[k], bank[p][j])
  PROVE  BankRaw
<1>1. bank'[p] = r /\ \A u \in Players : u # p => bank'[u] = bank[u]
  BY DEF ItemsInv, BankOK
<1>2. ASSUME NEW q \in Players, NEW k \in 1 .. Len(bank'[q]) PROVE RawOK(bank'[q][k])
  <2>1. CASE q = p
    <3>1. PICK j \in 1 .. Len(bank[p]) : Like(r[k], bank[p][j]) BY <1>1, <1>2, <2>1
    <3> QED BY <1>1, <2>1, <3>1 DEF IdInv, RawInv, RawOK, Like
  <2>2. CASE q # p BY <1>1, <2>2 DEF IdInv, RawInv
  <2> QED BY <2>1, <2>2
<1> QED BY <1>2 DEF BankRaw

LEMMA PickUpIds ==
  ASSUME ItemsInv, IdInv, NEW p \in Players, NEW id, id # 0, PickUp(p, id)
  PROVE  IdInv'
<1>1. PICK i \in 1 .. Len(list) : LET it == floor[list[i]] IN
           /\ Here(p) /\ list[i] \in Slots /\ it \in Items /\ it.id # 0 /\ it.n > 0
           /\ \/ Go(p, floor, list) /\ UNCHANGED pack
              \/ /\ Gets(p, it) /\ ~NoRoom(p, it)
                 /\ Stay([floor EXCEPT ![list[i]] = NoItem], RemoveAt(list, i))
           /\ bank' = bank /\ tekked' = tekked /\ itemID' = itemID
           /\ playerItemID' = playerItemID /\ weapons' = weapons /\ doubled' = doubled
  BY PickUpIs
<1> DEFINE it == floor[list[i]]
           fl == [floor EXCEPT ![list[i]] = NoItem]
<1>2. CountersUp /\ BankRaw /\ TekMoves BY <1>1, CountersAre, RawBanks DEF TekMoves
<1>3. ItemsInv' BY PickUpItems
<1>4. CASE Go(p, floor, list) /\ UNCHANGED pack
  <2>1. FloorMoves /\ \A q \in Players : Here(q)' => Here(q) BY <1>1, <1>4, FloorLess
  <2>2. inv' = inv BY <1>4 DEF pack
  <2> QED BY <1>2, <1>3, <2>1, <2>2, KeepsSame
<1>5. CASE Gets(p, it) /\ Stay(fl, RemoveAt(list, i))
  <2>1. list[i] \in Slots /\ Here(p) /\ it \in Items /\ it.id # 0 /\ it.n > 0 BY <1>1
  <2>2. floor \in [Slots -> Items] BY DEF ItemsInv, FloorOK, FloorFits
  <2>3. fl[list[i]] = NoItem /\ \A s \in Slots : s # list[i] => fl[s] = floor[s] BY <2>1, <2>2
  <2>4. floor' = fl BY <1>5 DEF Stay
  <2> HIDE DEF fl
  <2>5. FloorMoves /\ \A q \in Players : Here(q)' => Here(q)
    <3>1. \A s \in Slots : fl[s] = NoItem \/ fl[s] = floor[s] BY <2>3
    <3> QED BY <1>5, <2>1, <3>1, FloorLess
  <2>6. FitsIn(it)
    <3>1. \A q \in Players : Here(q) => \A k \in 1 .. Len(inv[q]) : Ok(it, inv[q][k])
      BY <2>1, OkIs DEF IdInv, UniqueInv
    <3>2. ASSUME NEW s \in Slots, floor'[s].id # 0 PROVE Ok(it, floor'[s])
      <4>1. s # list[i] /\ floor'[s] = floor[s] BY <2>3, <2>4, <3>2, NothingIs
      <4> QED BY <2>1, <4>1 DEF IdInv, UniqueInv
    <3>3. \A q \in Players : Here(q) => Ok(it, tekked'[q])
      BY <1>1, <2>1 DEF IdInv, UniqueInv
    <3> QED BY <3>1, <3>2, <3>3 DEF FitsIn
  <2>7. RawOK(it) /\ Given(it.id) /\ it.id \in Nat
    BY <2>1, ItemIs DEF IdInv, RawInv, GivenInv
  <2>8. GivenNext(it.id) BY <1>2, <1>3, <2>7, GivenMonotone
  <2>9. NewHeld(it) BY <2>6, <2>7, <2>8 DEF NewHeld
  <2>10. inv' = [inv EXCEPT ![p] = Put(inv[p], it)] BY <1>5 DEF Gets
  <2> HIDE DEF it
  <2> QED BY <1>2, <1>3, <2>1, <2>5, <2>9, <2>10, KeepsMore
<1> QED BY <1>1, <1>4, <1>5

LEMMA TekAcceptIds ==
  ASSUME ItemsInv, IdInv, NEW p \in Players, TekAccept(p)
  PROVE  IdInv'
<1> DEFINE it == tekked[p]
           fl == IF Hit(p) THEN [floor EXCEPT ![Head(list)] = NoItem] ELSE floor
           li == IF Hit(p) THEN Tail(list) ELSE list
<1>1. /\ Here(p) /\ it.id # 0
      /\ tekked' = tekked \/ tekked' = [tekked EXCEPT ![p] = NoItem]
      /\ \/ Go(p, fl, li) /\ UNCHANGED pack
         \/ /\ Gets(p, it) /\ ~NoRoom(p, it)
            /\ Stay(fl, li) /\ tekked' = [tekked EXCEPT ![p] = NoItem]
      /\ bank' = bank /\ itemID' = itemID
      /\ playerItemID' = playerItemID /\ weapons' = weapons /\ doubled' = doubled
  BY TekAcceptIs
<1>2. \A s \in Slots : fl[s] = NoItem \/ fl[s] = floor[s] BY DEF ItemsInv, FloorOK, FloorFits
<1>3. it \in Items /\ it.n > 0 /\ it.id \in Nat BY <1>1, ItemIs DEF ItemsInv, TekOK
<1>4. tekked \in [Players -> Items] BY DEF ItemsInv, TekOK
<1> HIDE DEF fl, li
<1>5. TekMoves BY <1>1, <1>4 DEF TekMoves
<1>6. CountersUp /\ BankRaw BY <1>1, CountersAre, RawBanks
<1>7. ItemsInv' BY TekAcceptItems
<1>8. /\ FloorMoves /\ \A q \in Players : Here(q)' => Here(q)
      /\ \A s \in Slots : floor'[s] = NoItem \/ floor'[s] = floor[s]
  <2>1. Go(p, fl, li) \/ Stay(fl, li) BY <1>1
  <2> QED BY <1>1, <1>2, <2>1, FloorLess
<1>9. CASE UNCHANGED pack
  <2>1. inv' = inv BY <1>9 DEF pack
  <2> QED BY <1>5, <1>6, <1>7, <1>8, <2>1, KeepsSame
<1>10. CASE Gets(p, it) /\ tekked' = [tekked EXCEPT ![p] = NoItem]
  <2>1. tekked'[p] = NoItem /\ \A q \in Players : q # p => tekked'[q] = tekked[q]
    BY <1>4, <1>10
  <2>2. FitsIn(it)
    <3>1. \A q \in Players : Here(q) => \A k \in 1 .. Len(inv[q]) : Ok(it, inv[q][k])
      BY <1>1, OkIs DEF IdInv, UniqueInv
    <3>2. ASSUME NEW s \in Slots, floor'[s].id # 0 PROVE Ok(it, floor'[s])
      <4>1. floor'[s] = floor[s] BY <1>8, <3>2, NothingIs
      <4> QED BY <1>1, <4>1, OkIs DEF IdInv, UniqueInv
    <3>3. ASSUME NEW q \in Players, Here(q), tekked'[q].id # 0 PROVE Ok(it, tekked'[q])
      <4>1. q # p /\ tekked'[q] = tekked[q] BY <2>1, <3>3, NothingIs
      <4> QED BY <1>1, <3>3, <4>1 DEF IdInv, UniqueInv
    <3> QED BY <3>1, <3>2, <3>3 DEF FitsIn
  <2>3. RawOK(it) /\ Given(it.id) BY <1>1 DEF IdInv, RawInv, GivenInv
  <2>4. GivenNext(it.id) BY <1>3, <1>6, <1>7, <2>3, GivenMonotone
  <2>5. NewHeld(it) BY <2>2, <2>3, <2>4 DEF NewHeld
  <2>6. inv' = [inv EXCEPT ![p] = Put(inv[p], it)] BY <1>10 DEF Gets
  <2> HIDE DEF it
  <2> QED BY <1>3, <1>5, <1>6, <1>7, <1>8, <2>5, <2>6, KeepsMore
<1> QED BY <1>1, <1>9, <1>10

\* An id just given is given from now on.
LEMMA NextGiven ==
  ASSUME ItemsInv, IdInv
  PROVE  /\ itemID' = itemID + 1 => GivenNext(itemID)
         /\ \A c \in 0 .. Seats - 1 :
              playerItemID' = [playerItemID EXCEPT ![c] = @ + 1] => GivenNext(playerItemID[c])
<1>1. /\ itemID \in Nat /\ itemID >= FirstFound /\ FirstFound \in Nat
      /\ playerItemID \in [0 .. Seats - 1 -> Nat]
      /\ \A c \in 0 .. Seats - 1 : playerItemID[c] >= FirstId[c] /\ FirstId[c] \in Nat
  BY IdsAre DEF ItemsInv, IdsOK
<1>2. itemID' = itemID + 1 => GivenNext(itemID) BY <1>1 DEF GivenNext, GivenBy
<1>3. ASSUME NEW c \in 0 .. Seats - 1, playerItemID' = [playerItemID EXCEPT ![c] = @ + 1]
      PROVE  GivenNext(playerItemID[c])
  <2>1. playerItemID'[c] = playerItemID[c] + 1 /\ playerItemID[c] \in Nat BY <1>1, <1>3
  <2>2. FirstId[c] <= playerItemID[c] /\ playerItemID[c] < playerItemID'[c] BY <1>1, <2>1
  <2> QED BY <2>2 DEF GivenNext, GivenBy
<1> QED BY <1>2, <1>3

LEMMA BuyIds ==
  ASSUME ItemsInv, IdInv, NEW p \in Players, NEW count \in 0 .. MaxBuy, Buy(p, count)
  PROVE  IdInv'
<1> DEFINE n == IF count = 0 THEN 1 ELSE count
           id == playerItemID[seat[p]]
           it == Tool(id, n)
<1>1. /\ Here(p) /\ playerItemID' = [playerItemID EXCEPT ![seat[p]] = @ + 1]
      /\ id < FirstId[seat[p]] + Width
      /\ bank' = bank /\ tekked' = tekked /\ itemID' = itemID
  BY DEF Buy
<1>2. seat[p] \in 0 .. Seats - 1 /\ id \in Nat /\ id # 0 BY <1>1, NextIdIs
<1>3. n \in Nat /\ n \in 0 .. MaxBuy /\ n > 0 BY Sizes
<1>4. it \in Items /\ it.id = id /\ it.n > 0 /\ ~it.raw BY <1>2, <1>3, ToolIs
<1>5. CountersUp /\ BankRaw /\ TekMoves BY <1>1, <1>2, CountersAre, RawBanks DEF TekMoves
<1>6. Go(p, floor, list) \/ Stay(floor, list) BY DEF Buy
<1>7. /\ FloorMoves /\ \A q \in Players : Here(q)' => Here(q)
      /\ \A s \in Slots : floor'[s] = NoItem \/ floor'[s] = floor[s]
  BY <1>1, <1>6, FloorLess
<1>8. ItemsInv' BY BuyItems
<1>9. ~Given(id)
  <2>1. id <= id BY <1>2
  <2> QED BY <1>1, <1>2, <2>1, NextNotGiven DEF IdInv
<1>10. GivenNext(id) BY <1>1, <1>2, NextGiven
<1>11. inv' = inv \/ inv' = [inv EXCEPT ![p] = Put(inv[p], it)] BY DEF Buy, Gets, pack
<1> HIDE DEF it, id, n
<1>12. NewHeld(it)
  <2>1. FitsIn(it) BY <1>4, <1>5, <1>7, <1>9, FreshFits
  <2> QED BY <1>4, <1>10, <2>1 DEF NewHeld, RawOK
<1>13. CASE inv' = inv BY <1>5, <1>7, <1>8, <1>13, KeepsSame
<1>14. CASE inv' = [inv EXCEPT ![p] = Put(inv[p], it)]
  BY <1>4, <1>5, <1>7, <1>8, <1>12, <1>14, KeepsMore
<1> QED BY <1>11, <1>13, <1>14

LEMMA WithdrawIds ==
  ASSUME ItemsInv, IdInv, NEW p \in Players, NEW j \in 1 .. Len(bank[p]), NEW n \in 1 .. MaxBuy,
         Withdraw(p, j, n)
  PROVE  IdInv'
<1> DEFINE it == bank[p][j]
           has == IF it.n = 0 THEN 1 ELSE it.n
           less == IF IsTool(it) THEN [bank[p] EXCEPT ![j].n = has - n] ELSE bank[p]
           one == [it EXCEPT !.id = itemID, !.n = n]
<1>1. Here(p) /\ tekked' = tekked /\ playerItemID' = playerItemID BY DEF Withdraw
<1>2. bank[p] \in Seq(Items) /\ it \in Items /\ RawOK(it) BY BankedIs DEF IdInv, RawInv
<1>3. n \in Nat /\ n \in 0 .. MaxBuy /\ n > 0 /\ itemID \in Nat BY Sizes DEF ItemsInv, IdsOK
<1>4. one \in Items /\ one.id = itemID /\ one.n > 0 /\ RawOK(one)
  <2>1. one \in Items /\ one.id = itemID /\ one.n = n /\ one.raw = it.raw /\ one.serial = it.serial
    BY <1>2, <1>3 DEF Items
  <2> QED BY <1>2, <1>3, <2>1 DEF RawOK
<1>5. \A k \in 1 .. Len(less) : \E m \in 1 .. Len(bank[p]) : Like(less[k], bank[p][m])
  <2>1. CASE IsTool(it)
    <3>1. less = [bank[p] EXCEPT ![j].n = has - n] BY <2>1
    <3>2. Len(less) = Len(bank[p]) /\ \A k \in 1 .. Len(bank[p]) : k # j => less[k] = bank[p][k]
      BY <1>2, <3>1
    <3>3. less[j] = [it EXCEPT !.n = has - n] BY <1>2, <3>1
    <3>4. Like(less[j], it) BY <1>2, <3>3 DEF Like, Items
    <3> HIDE DEF less
    <3> QED BY <3>2, <3>4 DEF Like
  <2>2. CASE ~IsTool(it) BY <2>2 DEF Like
  <2> QED BY <2>1, <2>2
<1>6. \A k \in 1 .. Len(RemoveAt(bank[p], j)) :
        \E m \in 1 .. Len(bank[p]) : Like(RemoveAt(bank[p], j)[k], bank[p][m])
  <2>1. PICK f : Comes(bank[p], RemoveAt(bank[p], j), {}, f) BY <1>2, WithoutIs
  <2> QED BY <2>1 DEF Comes
<1>7. Go(p, floor, list) \/ Stay(floor, list) BY DEF Withdraw
<1>8. \/ inv' = inv /\ bank' = bank /\ itemID' = itemID
      \/ inv' = inv /\ bank' = [bank EXCEPT ![p] = less] /\ itemID' = itemID
      \/ /\ inv' = [inv EXCEPT ![p] = Put(inv[p], one)] /\ itemID' = itemID + 1
         /\ \/ bank' = [bank EXCEPT ![p] = less]
            \/ bank' = [bank EXCEPT ![p] = RemoveAt(bank[p], j)]
  BY DEF Withdraw, Gets, pack
<1> HIDE DEF it, has, less, one
<1>9. BankRaw
  <2>1. CASE bank' = bank BY <2>1, RawBanks
  <2>2. CASE bank' = [bank EXCEPT ![p] = less] BY <1>5, <2>2, RawBank
  <2>3. CASE bank' = [bank EXCEPT ![p] = RemoveAt(bank[p], j)] BY <1>6, <2>3, RawBank
  <2> QED BY <1>8, <2>1, <2>2, <2>3
<1>10. CountersUp /\ TekMoves BY <1>1, <1>8, CountersAre DEF TekMoves
<1>11. /\ FloorMoves /\ \A q \in Players : Here(q)' => Here(q)
       /\ \A s \in Slots : floor'[s] = NoItem \/ floor'[s] = floor[s]
  BY <1>1, <1>7, FloorLess
<1>12. ItemsInv' BY WithdrawItems
<1>13. CASE inv' = inv BY <1>9, <1>10, <1>11, <1>12, <1>13, KeepsSame
<1>14. CASE inv' = [inv EXCEPT ![p] = Put(inv[p], one)] /\ itemID' = itemID + 1
  <2>1. ~Given(itemID) /\ GivenNext(itemID) BY <1>14, NextNotGiven, NextGiven DEF IdInv
  <2>2. FitsIn(one) BY <1>4, <1>10, <1>11, <2>1, FreshFits
  <2>3. NewHeld(one) BY <1>4, <2>1, <2>2 DEF NewHeld
  <2> QED BY <1>4, <1>9, <1>10, <1>11, <1>12, <1>14, <2>3, KeepsMore
<1> QED BY <1>8, <1>13, <1>14

\* Something comes to the floor, and p has it no more.
LEMMA KeepsLaid ==
  ASSUME ItemsInv, ItemsInv', IdInv, CountersUp, NEW p \in Players, Here(p),
         NEW r \in Seq(Items), \E f : Comes(inv[p], r, {}, f), inv' = [inv EXCEPT ![p] = r],
         seat' = seat, tekked' = tekked, bank' = bank,
         NEW s \in Slots, NEW y, floor' = [floor EXCEPT ![s] = y], RawOK(y), GivenNext(y.id),
         \A q \in Players : q # p /\ Here(q) => \A k \in 1 .. Len(inv[q]) : Ok(inv[q][k], y),
         \A k \in 1 .. Len(r) : Ok(r[k], y),
         \A t \in Slots : t # s => Ok(y, floor[t]),
         \A q \in Players : Here(q) => Ok(y, tekked[q])
  PROVE  IdInv'
<1>1. floor'[s] = y /\ \A t \in Slots : t # s => floor'[t] = floor[t]
  BY DEF ItemsInv, FloorOK, FloorFits
<1>2. inv'[p] = r /\ \A q \in Players : q # p => inv'[q] = inv[q]
  BY DEF ItemsInv, HeldOK
<1>3. \A q \in Players : Here(q)' <=> Here(q) BY DEF Here
<1>4. NewOnFloor(s)
  <2>1. ASSUME NEW q \in Players, Here(q)', NEW k \in 1 .. Len(inv'[q]) PROVE Ok(inv'[q][k], floor'[s])
    <3>1. CASE q = p BY <1>1, <1>2, <3>1
    <3>2. CASE q # p BY <1>1, <1>2, <1>3, <2>1, <3>2
    <3> QED BY <3>1, <3>2
  <2>2. \A t \in Slots : t # s => Ok(floor'[s], floor'[t]) BY <1>1
  <2>3. \A q \in Players : Here(q)' => Ok(floor'[s], tekked'[q]) BY <1>1, <1>3
  <2> QED BY <1>1, <2>1, <2>2, <2>3 DEF NewOnFloor
<1>5. FloorMoves BY <1>1, <1>3, <1>4 DEF FloorMoves
<1>6. TekMoves /\ BankRaw BY RawBanks DEF TekMoves
<1> QED BY <1>3, <1>5, <1>6, KeepsLess

LEMMA FindIds ==
  ASSUME ItemsInv, IdInv, FindWeapon \/ FindTool
  PROVE  IdInv'
<1>1. PICK it \in Items : /\ Find(it) /\ it.id = itemID /\ it.id # 0 /\ it.n > 0
                          /\ it.raw => it.serial # None
  BY FoundIs
<1>2. /\ Lay(it) /\ itemID' = itemID + 1 /\ inv' = inv /\ bank' = bank /\ tekked' = tekked
      /\ seat' = seat /\ playerItemID' = playerItemID /\ blanked' = blanked
  BY <1>1 DEF Find, pack
<1>3. PICK p \in Players : Here(p) BY <1>1 DEF Find
<1>4. PICK s \in Slots : floor' = [floor EXCEPT ![s] = it] BY <1>1, <1>2, LayIs DEF ItemsInv
<1>5. CountersUp BY <1>2, CountersAre
<1>6. ItemsInv' BY FindItems
<1>7. ~Given(it.id) /\ GivenNext(it.id) BY <1>1, <1>2, NextNotGiven, NextGiven DEF IdInv
<1>8. RawOK(it) BY <1>1 DEF RawOK
<1>9. inv[p] \in Seq(Items) /\ \A i \in 1 .. Len(inv[p]) : Like(inv[p][i], inv[p][i])
  BY CarriedIs DEF Like
<1>10. \E f : Comes(inv[p], inv[p], {}, f) BY <1>9, ComesSame
<1>11. inv' = [inv EXCEPT ![p] = inv[p]] BY <1>2 DEF ItemsInv, HeldOK
<1>12. \A q \in Players : Here(q) => \A k \in 1 .. Len(inv[q]) : Ok(inv[q][k], it)
  BY <1>7, OkIs DEF IdInv, GivenInv
<1>13. \A t \in Slots : Ok(it, floor[t]) BY <1>7, OkIs DEF IdInv, GivenInv
<1>14. \A q \in Players : Here(q) => Ok(it, tekked[q]) BY <1>7, OkIs DEF IdInv, GivenInv
<1> QED BY <1>2, <1>3, <1>4, <1>5, <1>6, <1>7, <1>8, <1>9, <1>10, <1>11, <1>12, <1>13, <1>14, KeepsLaid

LEMMA FindNothingIds ==
  ASSUME ItemsInv, IdInv, FindNothing
  PROVE  IdInv'
<1>1. /\ inv' = inv /\ bank' = bank /\ tekked' = tekked /\ seat' = seat /\ itemID' = itemID
      /\ playerItemID' = playerItemID /\ floor' = [floor EXCEPT ![free_game_item] = NoItem]
  BY DEF FindNothing, pack
<1>2. PICK p \in Players : Here(p) BY DEF FindNothing
<1>3. \A q \in Players : Here(q)' <=> Here(q) BY <1>1 DEF Here
<1>4. \A s \in Slots : floor'[s] = NoItem \/ floor'[s] = floor[s]
  BY <1>1 DEF ItemsInv, FloorOK, FloorFits
<1>5. FloorMoves BY <1>2, <1>3, <1>4 DEF FloorMoves
<1>6. CountersUp /\ BankRaw /\ TekMoves BY <1>1, CountersAre, RawBanks DEF TekMoves
<1> QED BY <1>1, <1>3, <1>5, <1>6, FindNothingItems, KeepsSame

LEMMA DropIds ==
  ASSUME ItemsInv, IdInv, doubled = 0, NEW p \in Players, NEW i \in 1 .. Len(inv[p]), Drop(p, i)
  PROVE  IdInv'
<1> DEFINE r == RemoveAt(inv[p], i)
           y == inv[p][i]
<1>1. /\ Here(p) /\ Lay(y) /\ CleanUp(p, r) /\ blanked' = blanked
      /\ bank' = bank /\ tekked' = tekked /\ seat' = seat /\ itemID' = itemID
      /\ playerItemID' = playerItemID
  BY DEF Drop
<1>2. y \in Items /\ y.id # 0 /\ y.n > 0 /\ y.id \in Nat BY <1>1, CarriedIs, ItemIs
<1>3. PICK s \in Slots : floor' = [floor EXCEPT ![s] = y] BY <1>1, <1>2, LayIs DEF ItemsInv
<1>4. CountersUp BY <1>1, CountersAre
<1>5. ItemsInv' BY DropItems
<1>6. RawOK(y) /\ Given(y.id) BY <1>1 DEF IdInv, RawInv, GivenInv
<1>7. GivenNext(y.id) BY <1>2, <1>4, <1>5, <1>6, GivenMonotone
<1>8. inv[p] \in Seq(Items) BY CarriedIs
<1>9. /\ r \in Seq(Items)
      /\ \E f : Comes(inv[p], r, {}, f) /\ \A k \in 1 .. Len(r) : f[k] # i
  BY <1>8, WithoutIs
<1>14. inv' = [inv EXCEPT ![p] = r] BY <1>1, <1>9, CleanIs
<1> HIDE DEF r
<1>10. \A q \in Players : q # p /\ Here(q) => \A k \in 1 .. Len(inv[q]) : Ok(inv[q][k], y)
  BY <1>1 DEF IdInv, UniqueInv
<1>11. ASSUME NEW k \in 1 .. Len(r) PROVE Ok(r[k], y)
  <2>1. PICK f : Comes(inv[p], r, {}, f) /\ \A m \in 1 .. Len(r) : f[m] # i BY <1>9
  <2>2. f[k] \in 1 .. Len(inv[p]) /\ Like(r[k], inv[p][f[k]]) /\ f[k] # i BY <2>1 DEF Comes
  <2>3. Ok(inv[p][f[k]], y) BY <1>1, <2>2 DEF IdInv, UniqueInv
  <2> HIDE DEF y
  <2> QED BY <2>2, <2>3, OkIs
<1>12. \A t \in Slots : Ok(y, floor[t]) BY <1>1 DEF IdInv, UniqueInv
<1>13. \A q \in Players : Here(q) => Ok(y, tekked[q]) BY <1>1 DEF IdInv, UniqueInv
<1> HIDE DEF y
<1> QED BY <1>1, <1>3, <1>4, <1>5, <1>6, <1>7, <1>9, <1>10, <1>11, <1>12, <1>13, <1>14, KeepsLaid

LEMMA DropSomeIds ==
  ASSUME ItemsInv, IdInv, doubled = 0, NEW p \in Players, NEW i \in 1 .. Len(inv[p]), NEW n \in 1 .. MaxBuy,
         DropSome(p, i, n)
  PROVE  IdInv'
<1>1. Here(p) /\ bank' = bank /\ tekked' = tekked /\ itemID' = itemID BY DEF DropSome
<1>2. ItemsInv' BY DropSomeItems
<1>3. CASE n > inv[p][i].n
  <2>1. Go(p, floor, list) /\ CleanUp(p, inv[p]) /\ playerItemID' = playerItemID BY <1>3 DEF DropSome
  <2>4. inv' = inv BY <2>1, CarriedIs, CleanIs
  <2>2. FloorMoves /\ \A q \in Players : Here(q)' => Here(q) BY <1>1, <2>1, FloorLess
  <2>3. CountersUp /\ BankRaw /\ TekMoves BY <1>1, <2>1, CountersAre, RawBanks DEF TekMoves
  <2> QED BY <1>2, <2>2, <2>3, <2>4, KeepsSame
<1>4. CASE ~(n > inv[p][i].n)
  <2> DEFINE id == playerItemID[seat[p]]
             r == Take(inv[p], i, n)
             it == Tool(id, n)
  <2>1. /\ id < FirstId[seat[p]] + Width /\ Lay(it) /\ CleanUp(p, r) /\ seat' = seat
        /\ blanked' = blanked
        /\ playerItemID' = [playerItemID EXCEPT ![seat[p]] = @ + 1]
    BY <1>4 DEF DropSome
  <2>2. seat[p] \in 0 .. Seats - 1 /\ id \in Nat /\ id # 0 BY <1>1, NextIdIs
  <2>3. n \in Nat /\ n \in 0 .. MaxBuy /\ n > 0 BY Sizes
  <2>4. it \in Items /\ it.id = id /\ it.id # 0 /\ it.n > 0 /\ ~it.raw BY <2>2, <2>3, ToolIs
  <2>5. ~Given(id)
    <3>1. id <= id BY <2>2
    <3> QED BY <2>1, <2>2, <3>1, NextNotGiven DEF IdInv
  <2>6. GivenNext(id) BY <2>1, <2>2, NextGiven
  <2>7. CountersUp BY <1>1, <2>1, <2>2, CountersAre
  <2> HIDE DEF it, id
  <2>8. PICK s \in Slots : floor' = [floor EXCEPT ![s] = it] BY <2>1, <2>4, LayIs DEF ItemsInv
  <2>9. RawOK(it) BY <2>4 DEF RawOK
  <2>10. inv[p] \in Seq(Items) BY CarriedIs
  <2>11. r \in Seq(Items) /\ \E f : Comes(inv[p], r, {}, f) BY <2>3, <2>10, TakeIs
  <2>17. inv' = [inv EXCEPT ![p] = r] BY <2>1, <2>11, CleanIs
  <2> HIDE DEF r
  <2>12. \A q \in Players : Here(q) => \A k \in 1 .. Len(inv[q]) : Ok(inv[q][k], it)
    BY <2>4, <2>5, OkIs DEF IdInv, GivenInv
  <2>13. ASSUME NEW k \in 1 .. Len(r) PROVE Ok(r[k], it)
    <3>1. PICK f : Comes(inv[p], r, {}, f) BY <2>11
    <3>2. f[k] \in 1 .. Len(inv[p]) /\ Like(r[k], inv[p][f[k]]) BY <3>1 DEF Comes
    <3>3. Ok(inv[p][f[k]], it) BY <1>1, <2>12, <3>2
    <3> QED BY <3>2, <3>3, OkIs
  <2>14. \A t \in Slots : Ok(it, floor[t]) BY <2>4, <2>5, OkIs DEF IdInv, GivenInv
  <2>15. \A q \in Players : Here(q) => Ok(it, tekked[q]) BY <2>4, <2>5, OkIs DEF IdInv, GivenInv
  <2>16. GivenNext(it.id) BY <2>4, <2>6
  <2> QED BY <1>1, <1>2, <2>1, <2>7, <2>8, <2>9, <2>11, <2>12, <2>13, <2>14, <2>15, <2>16, <2>17, KeepsLaid
<1> QED BY <1>3, <1>4

\* What the tekker offers is the weapon the player has, identified.
LEMMA TekAskIds ==
  ASSUME ItemsInv, IdInv, NEW p \in Players, NEW i \in 1 .. Len(inv[p]), TekAsk(p, i)
  PROVE  IdInv'
<1> DEFINE w == inv[p][i]
           it == [w EXCEPT !.raw = FALSE]
<1>1. /\ Here(p) /\ w.raw /\ tekked' = [tekked EXCEPT ![p] = it]
      /\ inv' = inv /\ bank' = bank /\ seat' = seat /\ floor' = floor
      /\ itemID' = itemID /\ playerItemID' = playerItemID
  BY DEF TekAsk, game, pack
<1>2. w \in Items BY CarriedIs
<1>3. it.id = w.id /\ it.serial = w.serial /\ ~it.raw BY <1>2 DEF Items
<1>4. RawOK(w) /\ Given(w.id) BY <1>1 DEF IdInv, RawInv, GivenInv
<1>5. ~IsTool(w) BY <1>1, <1>4 DEF RawOK, IsTool
<1>6. tekked'[p] = it /\ \A q \in Players : q # p => tekked'[q] = tekked[q]
  BY <1>1 DEF ItemsInv, TekOK
<1> HIDE DEF it
<1>7. \A a : Ok(a, w) => Ok(a, it) BY <1>3 DEF Ok
<1>8. Ok(w, it) BY <1>3, <1>5 DEF Ok
<1>9. \A q \in Players : Here(q)' <=> Here(q) BY <1>1 DEF Here
<1>10. RawInv' BY <1>1, <1>3, <1>6 DEF IdInv, RawInv, RawOK
<1>11. GivenInv'
  <2>1. \A c : (Given(c))' <=> Given(c)
    BY <1>1 DEF Given, GivenBy, FirstId, FirstFound
  <2>2. \A c \in 0 .. Seats - 1 : playerItemID'[c] <= FirstId'[c] + Width
    BY <1>1, PrimesOf DEF IdInv, GivenInv
  <2>3. \A q \in Players : Here(q)' => \A k \in 1 .. Len(inv'[q]) : (Given(inv[q][k].id))'
    BY <1>1, <1>9 DEF IdInv, GivenInv, Given, GivenBy, FirstId, FirstFound
  <2>4. \A s \in Slots : floor'[s].id # 0 => (Given(floor[s].id))'
    BY <1>1 DEF IdInv, GivenInv, Given, GivenBy, FirstId, FirstFound
  <2>5. ASSUME NEW q \in Players, Here(q)', tekked'[q].id # 0 PROVE Given(tekked'[q].id)
    <3>1. CASE q = p BY <1>3, <1>4, <1>6, <3>1
    <3>2. CASE q # p BY <1>6, <1>9, <2>5, <3>2 DEF IdInv, GivenInv
    <3> QED BY <3>1, <3>2
  <2>6. \A q \in Players : Here(q)' /\ tekked'[q].id # 0 => (Given(tekked[q].id))'
    BY <1>1, <2>5 DEF Given, GivenBy, FirstId, FirstFound
  <2>7. (\A q \in Players : ~Here(q)') => \A s \in Slots : floor'[s].id = 0 BY <1>1, <1>9
  <2> QED BY <2>2, <2>3, <2>4, <2>6, <2>7 DEF GivenInv
<1>12. UniqueInv'
  <2>1. ASSUME NEW q \in Players, Here(q), NEW k \in 1 .. Len(inv[q]) PROVE Ok(inv[q][k], it)
    <3>1. CASE q = p /\ k = i BY <1>8, <3>1
    <3>2. CASE ~(q = p /\ k = i)
      <4>1. Ok(inv[q][k], w) BY <1>1, <2>1, <3>2 DEF IdInv, UniqueInv
      <4> QED BY <1>7, <4>1
    <3> QED BY <3>1, <3>2
  <2>2. ASSUME NEW s \in Slots PROVE Ok(floor[s], it)
    <3>1. Ok(w, floor[s]) BY <1>1 DEF IdInv, UniqueInv
    <3> QED BY <1>7, <3>1, OkIs
  <2>3. ASSUME NEW q \in Players, Here(q), q # p PROVE Ok(tekked[q], it)
    <3>1. Ok(w, tekked[q]) BY <1>1, <2>3 DEF IdInv, UniqueInv
    <3> QED BY <1>7, <3>1, OkIs
  <2>4. ASSUME NEW q \in Players, NEW u \in Players, Here(q), Here(u), NEW k \in 1 .. Len(inv[q])
        PROVE  Ok(inv[q][k], tekked'[u])
    BY <1>6, <2>1, <2>4 DEF IdInv, UniqueInv
  <2>5. ASSUME NEW q \in Players, Here(q), NEW s \in Slots PROVE Ok(floor[s], tekked'[q])
    BY <1>6, <2>2, <2>5 DEF IdInv, UniqueInv
  <2>6. ASSUME NEW q \in Players, NEW u \in Players, Here(q), Here(u), q # u
        PROVE  Ok(tekked'[q], tekked'[u])
    <3>1. CASE q = p BY <1>6, <2>3, <2>6, <3>1, OkIs
    <3>2. CASE u = p BY <1>6, <2>3, <2>6, <3>2
    <3>3. CASE q # p /\ u # p BY <1>6, <2>6, <3>3 DEF IdInv, UniqueInv
    <3> QED BY <3>1, <3>2, <3>3
  <2>7. \A q, u \in Players : Here(q) /\ Here(u) =>
          \A k \in 1 .. Len(inv[q]), j \in 1 .. Len(inv[u]) :
            (q # u \/ k # j) => Ok(inv[q][k], inv[u][j])
    BY DEF IdInv, UniqueInv
  <2>8. \A q \in Players : Here(q) => \A k \in 1 .. Len(inv[q]), s \in Slots : Ok(inv[q][k], floor[s])
    BY DEF IdInv, UniqueInv
  <2>9. \A s, t \in Slots : s # t => Ok(floor[s], floor[t]) BY DEF IdInv, UniqueInv
  <2> QED BY <1>1, <1>9, <2>4, <2>5, <2>6, <2>7, <2>8, <2>9 DEF UniqueInv, Ok, IsTool
<1> QED BY <1>10, <1>11, <1>12 DEF IdInv

\* What a player brings is numbered from the seat's range, where nothing was
\* given out yet.
LEMMA JoinIds ==
  ASSUME ItemsInv, IdInv, NEW p \in Players, Join(p)
  PROVE  IdInv'
<1> DEFINE some == \E q \in Players : Here(q)
<1>1. PICK next, c, r : JoinsAs(p, next, c, r) BY JoinIs
<1>2. /\ next \in [0 .. Seats - 1 -> Nat] /\ c \in 0 .. Seats - 1 /\ r \in Seq(Items)
      /\ \A d \in 0 .. Seats - 1 : next[d] >= FirstId[d] /\ FirstId[d] \in Nat
      /\ next[c] + Len(r) + blanks[p] <= FirstId[c] + Width
      /\ Len(r) \in Nat /\ Width \in Nat /\ blanks[p] \in Nat
  <2>1. \A d \in 0 .. Seats - 1 : FirstId[d] \in Nat BY IdsAre
  <2>2. /\ next \in [0 .. Seats - 1 -> Nat] /\ c \in 0 .. Seats - 1 /\ r \in Seq(Items)
        /\ \A d \in 0 .. Seats - 1 : next[d] >= FirstId[d]
        /\ next[c] + Len(r) + blanks[p] <= FirstId[c] + Width
    BY <1>1 DEF JoinsAs
  <2>3. Len(r) \in Nat /\ Width \in Nat /\ blanks[p] \in Nat BY <2>2, CarriedIs, Sizes
  <2> QED BY <2>1, <2>2, <2>3
<1>3. /\ some => next = playerItemID /\ itemID' = itemID
      /\ ~some => next = FirstId /\ itemID' = FirstFound
  BY <1>1 DEF Join, JoinsAs
<1>4. bank' = bank /\ floor' = floor BY DEF Join
<1>5. ~Here(p) /\ \A q \in Players : Here(q)' <=> q = p \/ Here(q)
  <2>1. seat' = [seat EXCEPT ![p] = c] /\ ~Here(p) BY <1>1 DEF JoinsAs
  <2>2. c \in Nat /\ Seats \in Nat /\ c # None BY <1>2, Sizes, ItemsAssumption
  <2>3. seat'[p] = c /\ \A q \in Players : q # p => seat'[q] = seat[q]
    BY <2>1 DEF ItemsInv, SeatOK
  <2> QED BY <2>1, <2>2, <2>3 DEF Here
<1>6. inv'[p] = r /\ \A q \in Players : q # p => inv'[q] = inv[q]
  BY <1>1 DEF ItemsInv, HeldOK, JoinsAs
<1>7. tekked'[p] = NoItem /\ \A q \in Players : q # p => tekked'[q] = tekked[q]
  BY DEF Join, ItemsInv, TekOK
<1>8. NoItem.id = 0 /\ RawOK(NoItem) BY DEF NoItem, Tool, RawOK
<1>9. /\ playerItemID'[c] = next[c] + Len(r) + blanks[p]
      /\ \A d \in 0 .. Seats - 1 : d # c => playerItemID'[d] = next[d]
  BY <1>1, <1>2 DEF JoinsAs
<1>10. ASSUME NEW i \in 1 .. Len(r)
       PROVE  /\ r[i].id = next[c] + i - 1 /\ r[i].id \in Nat
              /\ \E j \in 1 .. Len(inv[p]) : r[i].serial = inv[p][j].serial /\ r[i].raw = inv[p][j].raw
  <2>1. /\ Len(r) = Len(inv[p]) /\ r[i] = [inv[p][i] EXCEPT !.id = next[c] + i - 1]
    BY <1>1 DEF JoinsAs
  <2>2. i \in 1 .. Len(inv[p]) /\ inv[p][i] \in Items BY <2>1, CarriedIs
  <2>3. /\ r[i].id = next[c] + i - 1 /\ r[i].serial = inv[p][i].serial
        /\ r[i].raw = inv[p][i].raw
    BY <2>1, <2>2 DEF Items
  <2>4. r[i] \in Items BY <1>2
  <2> QED BY <2>2, <2>3, <2>4, ItemIs
<1>11. ASSUME NEW i \in 1 .. Len(r)
       PROVE  FirstId[c] <= r[i].id /\ r[i].id < next[c] + Len(r) /\ next[c] <= r[i].id
  <2>1. r[i].id = next[c] + i - 1 /\ next[c] \in Nat /\ FirstId[c] \in Nat /\ next[c] >= FirstId[c]
    BY <1>2, <1>10
  <2> QED BY <1>2, <2>1
<1>12. ItemsInv' BY JoinItems
<1>13. some => CountersUp
  <2> SUFFICES ASSUME some PROVE CountersUp OBVIOUS
  <2>1. itemID' = itemID /\ itemID \in Nat /\ next = playerItemID BY <1>3 DEF ItemsInv, IdsOK
  <2>2. ASSUME NEW d \in 0 .. Seats - 1
        PROVE  playerItemID[d] <= playerItemID'[d] /\ playerItemID'[d] <= FirstId[d] + Width
    <3>1. playerItemID[d] \in Nat /\ playerItemID[d] <= FirstId[d] + Width
      BY DEF ItemsInv, IdsOK, IdInv, GivenInv
    <3>2. CASE d = c BY <1>2, <1>9, <2>1, <3>1, <3>2
    <3>3. CASE d # c BY <1>2, <1>9, <2>1, <3>1, <3>3
    <3> QED BY <3>2, <3>3
  <2>3. itemID <= itemID' BY <2>1
  <2> QED BY <2>2, <2>3 DEF CountersUp
<1>14. some => \A id \in Nat : Given(id) => GivenNext(id) BY <1>12, <1>13, GivenMonotone
<1>15. some => \A i \in 1 .. Len(r) : ~Given(r[i].id)
  <2> SUFFICES ASSUME some, NEW i \in 1 .. Len(r) PROVE ~Given(r[i].id) OBVIOUS
  <2>1. r[i].id \in Nat /\ next[c] <= r[i].id /\ r[i].id < next[c] + Len(r) BY <1>10, <1>11
  <2>3. next[c] \in Nat /\ FirstId[c] \in Nat /\ Len(r) \in Nat /\ Width \in Nat /\ blanks[p] \in Nat
        /\ next[c] + Len(r) + blanks[p] <= FirstId[c] + Width
    BY <1>2
  <2>4. r[i].id < FirstId[c] + Width BY <2>1, <2>3
  <2>2. r[i].id < FirstId[c] + Width /\ next = playerItemID BY <1>3, <2>4
  <2> QED BY <1>2, <2>1, <2>2, NextNotGiven DEF IdInv
<1>16. ~some => \A s \in Slots : floor[s].id = 0 BY DEF IdInv, GivenInv
<1> HIDE DEF some
<1>17. \A q \in Players : Here(q) => some BY DEF some
<1>18. \A i \in 1 .. Len(r) :
         /\ \A q \in Players : Here(q) =>
              /\ \A j \in 1 .. Len(inv[q]) : Ok(r[i], inv[q][j])
              /\ Ok(r[i], tekked[q])
         /\ \A s \in Slots : Ok(r[i], floor[s])
  <2> SUFFICES ASSUME NEW i \in 1 .. Len(r)
               PROVE  /\ \A q \in Players : Here(q) =>
                           /\ \A j \in 1 .. Len(inv[q]) : Ok(r[i], inv[q][j])
                           /\ Ok(r[i], tekked[q])
                      /\ \A s \in Slots : Ok(r[i], floor[s])
    OBVIOUS
  <2>1. CASE some
    <3>1. ~Given(r[i].id) BY <1>15, <2>1
    <3>2. \A q \in Players : Here(q) => \A j \in 1 .. Len(inv[q]) : Ok(r[i], inv[q][j])
      BY <3>1, OkIs DEF IdInv, GivenInv
    <3>3. \A q \in Players : Here(q) => Ok(r[i], tekked[q]) BY <3>1, OkIs DEF IdInv, GivenInv
    <3>4. \A s \in Slots : Ok(r[i], floor[s]) BY <3>1, OkIs DEF IdInv, GivenInv
    <3> QED BY <3>2, <3>3, <3>4
  <2>2. CASE ~some BY <1>16, <1>17, <2>2, OkIs
  <2> QED BY <2>1, <2>2
<1>19. \A i, j \in 1 .. Len(r) : i # j => Ok(r[i], r[j])
  <2> SUFFICES ASSUME NEW i \in 1 .. Len(r), NEW j \in 1 .. Len(r), i # j PROVE Ok(r[i], r[j]) OBVIOUS
  <2>1. r[i].id = next[c] + i - 1 /\ r[j].id = next[c] + j - 1 /\ next[c] \in Nat BY <1>2, <1>10
  <2>2. r[i].id # r[j].id BY <1>2, <2>1
  <2> QED BY <2>2, OkIs
<1>20. RawInv'
  <2>1. ASSUME NEW q \in Players, NEW i \in 1 .. Len(inv'[q]) PROVE RawOK(inv'[q][i])
    <3>1. CASE q = p
      <4>1. PICK j \in 1 .. Len(inv[p]) : r[i].serial = inv[p][j].serial /\ r[i].raw = inv[p][j].raw
        BY <1>6, <1>10, <2>1, <3>1
      <4> QED BY <1>6, <3>1, <4>1 DEF IdInv, RawInv, RawOK
    <3>2. CASE q # p BY <1>6, <2>1, <3>2 DEF IdInv, RawInv
    <3> QED BY <3>1, <3>2
  <2>2. \A q \in Players : \A j \in 1 .. Len(bank'[q]) : RawOK(bank'[q][j])
    BY <1>4 DEF IdInv, RawInv
  <2>3. \A s \in Slots : RawOK(floor'[s]) BY <1>4 DEF IdInv, RawInv
  <2>4. \A q \in Players : RawOK(tekked'[q]) BY <1>7, <1>8 DEF IdInv, RawInv
  <2> QED BY <2>1, <2>2, <2>3, <2>4 DEF RawInv, RawOK
<1>21. GivenInv'
  <2>1. ASSUME NEW q \in Players, Here(q)', NEW i \in 1 .. Len(inv'[q])
        PROVE  GivenNext(inv'[q][i].id)
    <3>1. CASE q = p
      <4>1. i \in 1 .. Len(r) /\ inv'[q][i] = r[i] BY <1>6, <3>1
      <4>2. FirstId[c] <= r[i].id /\ r[i].id < playerItemID'[c] BY <1>2, <1>9, <1>10, <1>11, <4>1
      <4> QED BY <1>2, <4>1, <4>2 DEF GivenNext, GivenBy
    <3>2. CASE q # p
      <4>1. Here(q) /\ inv'[q] = inv[q] BY <1>5, <1>6, <2>1, <3>2
      <4>2. Given(inv[q][i].id) /\ inv[q][i].id \in Nat BY <4>1, CarriedIs, ItemIs DEF IdInv, GivenInv
      <4> QED BY <1>14, <1>17, <4>1, <4>2
    <3> QED BY <3>1, <3>2
  <2>2. ASSUME NEW s \in Slots, floor'[s].id # 0 PROVE GivenNext(floor'[s].id)
    <3>1. floor[s].id \in Nat /\ Given(floor[s].id)
      BY <1>4, <2>2, ItemIs DEF ItemsInv, FloorOK, FloorFits, IdInv, GivenInv
    <3> QED BY <1>4, <1>14, <1>16, <2>2, <3>1
  <2>3. ASSUME NEW q \in Players, Here(q)', tekked'[q].id # 0 PROVE GivenNext(tekked'[q].id)
    <3>1. q # p BY <1>7, <1>8, <2>3
    <3>2. Here(q) /\ tekked'[q] = tekked[q] BY <1>5, <1>7, <2>3, <3>1
    <3>3. tekked[q].id \in Nat BY ItemIs DEF ItemsInv, TekOK
    <3>4. Given(tekked[q].id) BY <2>3, <3>2 DEF IdInv, GivenInv
    <3> QED BY <1>14, <1>17, <3>2, <3>3, <3>4
  <2>4. ASSUME NEW d \in 0 .. Seats - 1 PROVE playerItemID'[d] <= FirstId'[d] + Width
    <3>1. CASE d = c BY <1>2, <1>9, <3>1, PrimesOf
    <3>2. CASE d # c
      <4>1. CASE some BY <1>3, <1>9, <3>2, <4>1, PrimesOf DEF IdInv, GivenInv
      <4>2. CASE ~some
        <5>1. playerItemID'[d] = FirstId[d] /\ FirstId[d] \in Nat BY <1>2, <1>3, <1>9, <3>2, <4>2
        <5> QED BY <1>2, <5>1, PrimesOf
      <4> QED BY <4>1, <4>2
    <3> QED BY <3>1, <3>2
  <2>5. Here(p)' BY <1>5
  <2>6. \A q \in Players : Here(q)' => \A k \in 1 .. Len(inv'[q]) : (Given(inv[q][k].id))'
    BY <2>1 DEF Given, GivenNext, GivenBy, FirstId, FirstFound
  <2>7. \A s \in Slots : floor'[s].id # 0 => (Given(floor[s].id))'
    BY <2>2 DEF Given, GivenNext, GivenBy, FirstId, FirstFound
  <2>8. \A q \in Players : Here(q)' /\ tekked'[q].id # 0 => (Given(tekked[q].id))'
    BY <2>3 DEF Given, GivenNext, GivenBy, FirstId, FirstFound
  <2> QED BY <2>4, <2>5, <2>6, <2>7, <2>8 DEF GivenInv
<1>22. UniqueInv'
  <2>0. \A q \in Players : Here(q)' /\ q # p => Here(q) /\ inv'[q] = inv[q] /\ tekked'[q] = tekked[q]
    BY <1>5, <1>6, <1>7
  <2>1. ASSUME NEW q \in Players, NEW u \in Players, Here(q)', Here(u)',
               NEW i \in 1 .. Len(inv'[q]), NEW j \in 1 .. Len(inv'[u]), q # u \/ i # j
        PROVE  Ok(inv'[q][i], inv'[u][j])
    <3>1. CASE q = p /\ u = p BY <1>6, <1>19, <2>1, <3>1
    <3>2. CASE q = p /\ u # p BY <1>6, <1>18, <2>0, <2>1, <3>2
    <3>3. CASE q # p /\ u = p BY <1>6, <1>18, <2>0, <2>1, <3>3, OkIs
    <3>4. CASE q # p /\ u # p BY <2>0, <2>1, <3>4 DEF IdInv, UniqueInv
    <3> QED BY <3>1, <3>2, <3>3, <3>4
  <2>2. ASSUME NEW q \in Players, Here(q)', NEW i \in 1 .. Len(inv'[q]), NEW s \in Slots
        PROVE  Ok(inv'[q][i], floor[s])
    <3>1. CASE q = p BY <1>6, <1>18, <3>1
    <3>2. CASE q # p BY <2>0, <2>2, <3>2 DEF IdInv, UniqueInv
    <3> QED BY <3>1, <3>2
  <2>3. \A s, t \in Slots : s # t => Ok(floor[s], floor[t]) BY DEF IdInv, UniqueInv
  <2>4. ASSUME NEW q \in Players, NEW u \in Players, Here(q)', Here(u)', NEW i \in 1 .. Len(inv'[q])
        PROVE  Ok(inv'[q][i], tekked'[u])
    <3>1. CASE u = p BY <1>7, <1>8, <3>1, OkIs
    <3>2. CASE q = p /\ u # p BY <1>6, <1>18, <2>0, <2>4, <3>2
    <3>3. CASE q # p /\ u # p BY <2>0, <2>4, <3>3 DEF IdInv, UniqueInv
    <3> QED BY <3>1, <3>2, <3>3
  <2>5. ASSUME NEW q \in Players, Here(q)', NEW s \in Slots PROVE Ok(floor[s], tekked'[q])
    <3>1. CASE q = p BY <1>7, <1>8, <3>1, OkIs
    <3>2. CASE q # p BY <2>0, <2>5, <3>2 DEF IdInv, UniqueInv
    <3> QED BY <3>1, <3>2
  <2>6. ASSUME NEW q \in Players, NEW u \in Players, Here(q)', Here(u)', q # u
        PROVE  Ok(tekked'[q], tekked'[u])
    <3>1. CASE q = p \/ u = p BY <1>7, <1>8, <3>1, OkIs
    <3>2. CASE q # p /\ u # p BY <2>0, <2>6, <3>2 DEF IdInv, UniqueInv
    <3> QED BY <3>1, <3>2
  <2> QED BY <1>4, <2>1, <2>2, <2>3, <2>4, <2>5, <2>6 DEF UniqueInv, Ok, IsTool
<1> QED BY <1>20, <1>21, <1>22 DEF IdInv

LEMMA InitIds == Init => IdInv
<1> SUFFICES ASSUME Init PROVE IdInv OBVIOUS
<1>1. NoItem.id = 0 /\ RawOK(NoItem) BY DEF NoItem, Tool, RawOK
<1>2. \A q \in Players : /\ ~Here(q) /\ Len(inv[q]) = 0 /\ Len(bank[q]) = 0 /\ tekked[q] = NoItem
  BY DEF Init, Here
<1>3. \A s \in Slots : floor[s] = NoItem BY DEF Init, NoFloor
<1>4. RawInv BY <1>1, <1>2, <1>3 DEF RawInv
<1>5. ASSUME NEW c \in 0 .. Seats - 1 PROVE playerItemID[c] <= FirstId[c] + Width
  <2>1. playerItemID[c] = FirstId[c] /\ FirstId[c] \in Nat /\ Width \in Nat BY IdsAre, Sizes DEF Init
  <2> QED BY <2>1
<1>6. GivenInv BY <1>1, <1>2, <1>3, <1>5 DEF GivenInv
<1>7. UniqueInv BY <1>1, <1>2, <1>3, OkIs DEF UniqueInv
<1> QED BY <1>4, <1>6, <1>7 DEF IdInv

LEMMA StutterIds ==
  ASSUME IdInv, UNCHANGED vars
  PROVE  IdInv'
<1>1. /\ inv' = inv /\ bank' = bank /\ tekked' = tekked /\ seat' = seat /\ floor' = floor
      /\ itemID' = itemID /\ playerItemID' = playerItemID
  BY DEF vars, game, pack
<1>2. RawInv' BY <1>1 DEF IdInv, RawInv, RawOK
<1>3. GivenInv' BY <1>1 DEF IdInv, GivenInv, Given, GivenBy, FirstId, FirstFound, Here
<1>4. UniqueInv' BY <1>1 DEF IdInv, UniqueInv, Ok, IsTool, Here
<1> QED BY <1>2, <1>3, <1>4 DEF IdInv

LEMMA NextIds ==
  ASSUME ItemsInv, IdInv, doubled = 0, doubled' = 0, [Next]_vars
  PROVE  IdInv'
<1>1. CASE FindWeapon \/ FindTool BY <1>1, FindIds
<1>13. CASE FindNothing BY <1>13, FindNothingIds
<1>2. ASSUME NEW p \in Players, Join(p) PROVE IdInv' BY <1>2, JoinIds
<1>3. ASSUME NEW p \in Players, Leave(p) PROVE IdInv' BY <1>3, LeaveIds
<1>4. ASSUME NEW p \in Players, NEW s \in Slots, floor[s].id # 0, PickUp(p, floor[s].id) PROVE IdInv'
  BY <1>4, PickUpIds
<1>5. ASSUME NEW p \in Players, NEW order \in SeqOf(Answers(p), Carry), Sort(p, order)
      PROVE  IdInv'
  BY <1>5, SortIds
<1>6. ASSUME NEW p \in Players, TekAccept(p) PROVE IdInv' BY <1>6, TekAcceptIds
<1>7. ASSUME NEW p \in Players, NEW n \in 0 .. MaxBuy, Buy(p, n) PROVE IdInv' BY <1>7, BuyIds
<1>8. ASSUME NEW p \in Players, NEW i \in 1 .. Len(inv[p]), Drop(p, i) PROVE IdInv' BY <1>8, DropIds
<1>9. ASSUME NEW p \in Players, NEW i \in 1 .. Len(inv[p]), TekAsk(p, i) PROVE IdInv'
  BY <1>9, TekAskIds
<1>10. ASSUME NEW p \in Players, NEW i \in 1 .. Len(inv[p]), NEW n \in 1 .. MaxBuy,
              DropSome(p, i, n) \/ Delete(p, i, n) \/ Deposit(p, i, n)
       PROVE  IdInv'
  BY <1>10, DropSomeIds, DeleteIds, DepositIds
<1>11. ASSUME NEW p \in Players, NEW j \in 1 .. Len(bank[p]), NEW n \in 1 .. MaxBuy, Withdraw(p, j, n)
       PROVE  IdInv'
  BY <1>11, WithdrawIds
<1>12. CASE UNCHANGED vars BY <1>12, StutterIds
<1>14. \A p \in Players : Answers(p) \subseteq 1 .. Len(inv[p]) BY DEF Answers
<1> QED BY <1>1, <1>2, <1>3, <1>4, <1>5, <1>6, <1>7, <1>8, <1>9, <1>10, <1>11, <1>12, <1>13, <1>14
  DEF Next

\* A sort that names a thing twice is never forgotten.
LEMMA NeverLess ==
  ASSUME ItemsInv, [Next]_vars, doubled' = 0
  PROVE  doubled = 0
<1>1. doubled \in Nat BY DEF ItemsInv, TailOK
<1>2. doubled' = doubled \/ doubled' = doubled + 1
  <2>1. CASE FindWeapon \/ FindTool \/ FindNothing
    BY <2>1 DEF FindWeapon, FindTool, Find, FindNothing
  <2>2. ASSUME NEW p \in Players, Join(p) \/ Leave(p) \/ TekAccept(p) PROVE doubled' = doubled
    BY <2>2 DEF Join, Leave, TekAccept
  <2>3. ASSUME NEW p \in Players, NEW id, PickUp(p, id) PROVE doubled' = doubled
    BY <2>3 DEF PickUp
  <2>4. ASSUME NEW p \in Players, NEW order, Sort(p, order)
        PROVE  doubled' = doubled \/ doubled' = doubled + 1
    BY <2>4 DEF Sort
  <2>5. ASSUME NEW p \in Players, NEW n, Buy(p, n) PROVE doubled' = doubled BY <2>5 DEF Buy
  <2>6. ASSUME NEW p \in Players, NEW i, Drop(p, i) \/ TekAsk(p, i) PROVE doubled' = doubled
    BY <2>6 DEF Drop, TekAsk
  <2>7. ASSUME NEW p \in Players, NEW i, NEW n,
               DropSome(p, i, n) \/ Delete(p, i, n) \/ Deposit(p, i, n) \/ Withdraw(p, i, n)
        PROVE  doubled' = doubled
    BY <2>7 DEF DropSome, Delete, Deposit, Withdraw
  <2>8. CASE UNCHANGED vars BY <2>8 DEF vars
  <2> QED BY <2>1, <2>2, <2>3, <2>4, <2>5, <2>6, <2>7, <2>8 DEF Next
<1> QED BY <1>1, <1>2

LEMMA IdsKept == Spec => []IdInvOnce
<1>1. ItemsInv /\ IdInvOnce /\ [Next]_vars => IdInvOnce'
  <2> SUFFICES ASSUME ItemsInv, IdInvOnce, [Next]_vars, doubled' = 0 PROVE IdInv'
    BY DEF IdInvOnce
  <2>1. doubled = 0 BY NeverLess
  <2>2. IdInv BY <2>1 DEF IdInvOnce
  <2> QED BY <2>1, <2>2, NextIds
<1>2. Init => IdInvOnce BY InitIds DEF IdInvOnce
<1> QED BY <1>1, <1>2, ItemsAlwaysSound, PTL DEF Spec

\* In a game an id names one thing only, carried or on the floor, whoever split,
\* dropped, bought or withdrew what (UpdateGameItem, playerItemID and itemID); the
\* one exception is a weapon and what the tekker made of it.  A sort that names a
\* thing twice ends this.
THEOREM IdsAlwaysUnique == Spec => []IdsUnique
<1>1. ItemsInv /\ IdInvOnce => IdsUnique
  <2>0. CASE doubled # 0 BY <2>0 DEF IdsUnique
  <2> SUFFICES ASSUME ItemsInv, IdInv, doubled = 0 PROVE IdsUnique BY <2>0 DEF IdInvOnce
  <2> DEFINE carried == {x \in Players \X (1 .. Carry) : Here(x[1]) /\ x[2] <= Len(inv[x[1]])}
             held(x) == inv[x[1]][x[2]]
             same(a, b) == a.id # 0 /\ a.id = b.id /\ (IsTool(a) \/ a.serial # b.serial)
  <2>1. ASSUME NEW x \in carried
        PROVE  /\ x[1] \in Players /\ Here(x[1]) /\ x[2] \in 1 .. Len(inv[x[1]])
               /\ x = <<x[1], x[2]>>
    <3>1. x \in Players \X (1 .. Carry) /\ Here(x[1]) /\ x[2] <= Len(inv[x[1]]) OBVIOUS
    <3>2. x[1] \in Players /\ x[2] \in 1 .. Carry /\ x = <<x[1], x[2]>> BY <3>1
    <3>3. Len(inv[x[1]]) \in Nat /\ Carry \in Nat BY <3>2, CarriedIs, Sizes
    <3> QED BY <3>1, <3>2, <3>3
  <2>2. \A a, b : Ok(a, b) => ~same(a, b) BY DEF Ok
  <2>3. ASSUME NEW x \in carried, NEW y \in carried, x # y PROVE ~same(held(x), held(y))
    <3>1. x[1] # y[1] \/ x[2] # y[2] BY <2>1, <2>3
    <3>2. Ok(inv[x[1]][x[2]], inv[y[1]][y[2]]) BY <2>1, <3>1 DEF IdInv, UniqueInv
    <3> QED BY <2>2, <3>2
  <2>4. \A s, t \in Slots : s # t => ~same(floor[s], floor[t]) BY <2>2 DEF IdInv, UniqueInv
  <2>5. ASSUME NEW x \in carried, NEW s \in Slots PROVE ~same(held(x), floor[s])
    <3>1. Ok(inv[x[1]][x[2]], floor[s]) BY <2>1 DEF IdInv, UniqueInv
    <3> QED BY <2>2, <3>1
  <2> QED BY <2>3, <2>4, <2>5 DEF IdsUnique
<1> QED BY <1>1, IdsKept, ItemsAlwaysSound, PTL

----------------------------------------------------------------------------
(* How much there is                                                       *)

\* B has an element for each of A that is not gone, and what is extra.
LEMMA Balanced ==
  ASSUME NEW A, IsFiniteSet(A), NEW B, NEW gone \in SUBSET A, NEW extra, IsFiniteSet(extra), NEW from,
         \A x \in B \ extra : from[x] \in A \ gone,
         \A x, y \in B \ extra : from[x] = from[y] => x = y
  PROVE  IsFiniteSet(B) /\ Cardinality(B) + Cardinality(gone) <= Cardinality(A) + Cardinality(extra)
<1> DEFINE f == [x \in B \ extra |-> from[x]]
           C == B \ extra
           D == A \ gone
<1>1. f \in Injection(C, D)
  <2>1. f \in [C -> D] OBVIOUS
  <2>2. \A x, y \in C : f[x] = f[y] => x = y OBVIOUS
  <2> HIDE DEF f, C, D
  <2> QED BY <2>1, <2>2 DEF Injection, IsInjective
<1>2. IsFiniteSet(gone) /\ Cardinality(gone) \in Nat /\ Cardinality(A) \in Nat BY FS_Subset, FS_CardinalityType
<1>3. IsFiniteSet(D) /\ Cardinality(D) = Cardinality(A) - Cardinality(gone)
  <2>1. A \cap gone = gone OBVIOUS
  <2> QED BY <2>1, FS_Difference
<1> HIDE DEF f, D
<1>4. IsFiniteSet(C) /\ Cardinality(C) <= Cardinality(D) BY <1>1, <1>3, FS_Injection
<1>5. Cardinality(C) \in Nat /\ Cardinality(extra) \in Nat BY <1>4, FS_CardinalityType
<1>6. /\ IsFiniteSet(C \cup extra)
      /\ Cardinality(C \cup extra) <= Cardinality(C) + Cardinality(extra)
  <2>1. /\ IsFiniteSet(C \cup extra)
        /\ Cardinality(C \cup extra) = Cardinality(C) + Cardinality(extra) - Cardinality(C \cap extra)
    BY <1>4, FS_Union
  <2>2. IsFiniteSet(C \cap extra) BY <1>4, FS_Subset
  <2>3. Cardinality(C \cap extra) \in Nat BY <2>2, FS_CardinalityType
  <2> QED BY <1>5, <2>1, <2>3
<1>7. B \in SUBSET (C \cup extra) OBVIOUS
<1>8. IsFiniteSet(B) /\ Cardinality(B) <= Cardinality(C \cup extra) BY <1>6, <1>7, FS_Subset
<1>9. Cardinality(B) \in Nat /\ Cardinality(C \cup extra) \in Nat BY <1>6, <1>8, FS_CardinalityType
<1> HIDE DEF C
<1> QED BY <1>2, <1>3, <1>4, <1>5, <1>6, <1>8, <1>9

\* A set of as many elements as there are numbers up to k.
LEMMA ColumnIs ==
  ASSUME NEW k \in Nat, NEW S, NEW f, \A n \in 1 .. k : f[n] \in S,
         \A x \in S : \E n \in 1 .. k : f[n] = x,
         \A n, m \in 1 .. k : f[n] = f[m] => n = m
  PROVE  IsFiniteSet(S) /\ Cardinality(S) = k
<1> DEFINE g == [n \in 1 .. k |-> f[n]]
<1>1. g \in Bijection(1 .. k, S)
  <2>1. g \in [1 .. k -> S] OBVIOUS
  <2>2. \A n, m \in 1 .. k : g[n] = g[m] => n = m OBVIOUS
  <2>3. \A x \in S : \E n \in 1 .. k : g[n] = x
    <3>1. \A n \in 1 .. k : g[n] = f[n] OBVIOUS
    <3> HIDE DEF g
    <3> QED BY <3>1
  <2> HIDE DEF g
  <2> QED BY <2>1, <2>2, <2>3 DEF Bijection, Injection, Surjection, IsInjective
<1>2. IsFiniteSet(1 .. k) /\ Cardinality(1 .. k) = k BY FS_Interval
<1> HIDE DEF g
<1>3. ExistsBijection(1 .. k, S) BY <1>1 DEF ExistsBijection
<1> QED BY <1>2, <1>3, FS_Bijection

\* How much of w is at i in s.
In(s, i, w) == IF i \in 1 .. Len(s) /\ s[i].serial = w THEN Size(s[i]) ELSE 0

MaxLen == Carry + BankSize

Lists == [Players -> Seq(Items)]

LEMMA SizeIs ==
  ASSUME NEW x \in Items
  PROVE  Size(x) \in Nat /\ Size(x) > 0 /\ Size(x) <= MaxBuy
BY ItemIs, Sizes DEF Size

LEMMA StockHas ==
  ASSUME NEW L \in Lists, NEW w, NEW p \in Players, NEW i \in Nat, NEW k \in Nat, Len(L[p]) <= MaxLen
  PROVE  <<p, i, k>> \in Stock(L, w) <=>
           i \in 1 .. Len(L[p]) /\ L[p][i].serial = w /\ k \in 1 .. Size(L[p][i])
<1>1. Len(L[p]) \in Nat /\ \A j \in 1 .. Len(L[p]) : L[p][j] \in Items BY DEF Lists
<1>2. MaxLen \in Nat /\ MaxBuy \in Nat BY Sizes DEF MaxLen
<1>3. \A j \in 1 .. Len(L[p]) : Size(L[p][j]) \in Nat /\ Size(L[p][j]) <= MaxBuy BY <1>1, SizeIs
<1> DEFINE x == <<p, i, k>>
<1>4. x[1] = p /\ x[2] = i /\ x[3] = k OBVIOUS
<1>5. x \in Players \X (1 .. MaxLen) \X (1 .. MaxBuy) <=> i \in 1 .. MaxLen /\ k \in 1 .. MaxBuy OBVIOUS
<1>6. x \in Stock(L, w) <=>
        /\ x \in Players \X (1 .. MaxLen) \X (1 .. MaxBuy)
        /\ i <= Len(L[p]) /\ L[p][i].serial = w /\ k <= Size(L[p][i])
  BY <1>4 DEF Stock, MaxLen
<1> HIDE DEF x
<1> QED BY <1>1, <1>2, <1>3, <1>5, <1>6 DEF x

LEMMA StockOf ==
  ASSUME NEW L, NEW w, NEW x \in Stock(L, w)
  PROVE  \E q \in Players, i, k \in Nat : x = <<q, i, k>>
<1>1. x \in Players \X (1 .. Carry + BankSize) \X (1 .. MaxBuy) BY DEF Stock
<1>2. Carry + BankSize \in Nat /\ MaxBuy \in Nat BY Sizes
<1> QED BY <1>1, <1>2

LEMMA StockAt ==
  ASSUME NEW L \in Lists, NEW w, NEW p \in Players, NEW d \in Nat, Len(L[p]) <= MaxLen
  PROVE  LET S == {x \in Stock(L, w) : x[1] = p /\ x[2] = d}
         IN  IsFiniteSet(S) /\ Cardinality(S) = In(L[p], d, w)
<1> DEFINE S == {x \in Stock(L, w) : x[1] = p /\ x[2] = d}
           k == In(L[p], d, w)
           f == [n \in 1 .. k |-> <<p, d, n>>]
<1>1. k \in Nat
  <2>1. \A j \in 1 .. Len(L[p]) : L[p][j] \in Items BY DEF Lists
  <2> QED BY <2>1, SizeIs DEF In
<1>2. \A n \in Nat : <<p, d, n>> \in Stock(L, w) <=> n \in 1 .. k
  <2>1. ASSUME NEW n \in Nat PROVE <<p, d, n>> \in Stock(L, w) <=> n \in 1 .. k
    BY <1>1, StockHas DEF In
  <2> QED BY <2>1
<1> HIDE DEF k
<1>3. \A n \in 1 .. k : f[n] \in S BY <1>1, <1>2
<1>4. \A n, m \in 1 .. k : f[n] = f[m] => n = m OBVIOUS
<1>5. ASSUME NEW x \in S PROVE \E n \in 1 .. k : f[n] = x
  <2>1. x \in Stock(L, w) /\ x[1] = p /\ x[2] = d OBVIOUS
  <2>2. PICK n \in Nat : x = <<p, d, n>> BY <2>1, StockOf
  <2>3. n \in 1 .. k BY <1>2, <2>1, <2>2
  <2> QED BY <2>2, <2>3
<1> HIDE DEF S, f
<1>6. IsFiniteSet(S) /\ Cardinality(S) = k BY <1>1, <1>3, <1>4, <1>5, ColumnIs
<1> QED BY <1>6 DEF S, k

\* But for place e, what is in r comes from other places than d of s.
Moves(s, r, f, d, e) ==
  /\ \A i \in 1 .. Len(r) : i # e =>
       f[i] \in 1 .. Len(s) /\ f[i] # d /\ r[i].serial = s[f[i]].serial /\ r[i].n = s[f[i]].n
  /\ \A i, j \in 1 .. Len(r) : i # e /\ j # e /\ f[i] = f[j] => i = j

\* Of the lists L, p's becomes r.
Becomes(L, p, r, M) == M[p] = r /\ \A q \in Players : q # p => M[q] = L[q]

\* p's list becomes r: but for place e, what is in it comes from other places
\* than d of what it was.
LEMMA StockMoves ==
  ASSUME NEW L \in Lists, NEW p \in Players, NEW r \in Seq(Items), Len(L[p]) <= MaxLen, Len(r) <= MaxLen,
         NEW f, NEW d \in Nat, NEW e \in Nat, Moves(L[p], r, f, d, e),
         NEW w, IsFiniteSet(Stock(L, w)), NEW M \in Lists, Becomes(L, p, r, M)
  PROVE  /\ IsFiniteSet(Stock(M, w))
         /\ Cardinality(Stock(M, w)) + In(L[p], d, w) <= Cardinality(Stock(L, w)) + In(r, e, w)
<1> DEFINE A == Stock(L, w)
           B == Stock(M, w)
           gone == {x \in A : x[1] = p /\ x[2] = d}
           extra == {x \in B : x[1] = p /\ x[2] = e}
           from == [x \in B |-> IF x[1] = p THEN <<p, f[x[2]], x[3]>> ELSE x]
           Traced(x, q, i, k) ==
             /\ x = <<q, i, k>>
             /\ q # p => from[x] = <<q, i, k>> /\ <<q, i, k>> \in A
             /\ q = p => /\ i \in 1 .. Len(r) /\ i # e /\ from[x] = <<p, f[i], k>>
                        /\ <<p, f[i], k>> \in A /\ f[i] # d
<1>1. M[p] = r /\ \A q \in Players : q # p => M[q] = L[q] BY DEF Becomes
<1>0. /\ \A i \in 1 .. Len(r) : i # e =>
           f[i] \in 1 .. Len(L[p]) /\ f[i] # d /\ r[i].serial = L[p][f[i]].serial /\ r[i].n = L[p][f[i]].n
      /\ \A i, j \in 1 .. Len(r) : i # e /\ j # e /\ f[i] = f[j] => i = j
  BY DEF Moves
<1>2. Cardinality(gone) = In(L[p], d, w) BY StockAt
<1>3. IsFiniteSet(extra) /\ Cardinality(extra) = In(r, e, w)
  <2>1. Len(M[p]) <= MaxLen /\ In(M[p], e, w) = In(r, e, w) BY <1>1
  <2>2. IsFiniteSet(extra) /\ Cardinality(extra) = In(M[p], e, w) BY <1>1, <2>1, StockAt, Zenon
  <2> QED BY <2>1, <2>2
<1>4. ASSUME NEW i \in Nat, NEW k \in Nat, <<p, i, k>> \in B, i # e
      PROVE  /\ i \in 1 .. Len(r) /\ from[<<p, i, k>>] = <<p, f[i], k>>
             /\ <<p, f[i], k>> \in A /\ f[i] # d
  <2>1. i \in 1 .. Len(r) /\ r[i].serial = w /\ k \in 1 .. Size(r[i])
    <3>1. Len(M[p]) <= MaxLen /\ <<p, i, k>> \in Stock(M, w) BY <1>1, <1>4
    <3>2. i \in 1 .. Len(M[p]) /\ M[p][i].serial = w /\ k \in 1 .. Size(M[p][i])
      BY <3>1, StockHas
    <3> QED BY <1>1, <3>2
  <2>2. /\ f[i] \in 1 .. Len(L[p]) /\ f[i] # d
        /\ L[p][f[i]].serial = w /\ Size(L[p][f[i]]) = Size(r[i])
    BY <1>0, <1>4, <2>1 DEF Size
  <2>3. f[i] \in Nat BY <2>2
  <2>4. <<p, f[i], k>> \in A BY <2>1, <2>2, <2>3, StockHas
  <2>5. from[<<p, i, k>>] = <<p, f[i], k>> BY <1>4
  <2> QED BY <2>1, <2>2, <2>4, <2>5
<1>5. ASSUME NEW q \in Players, NEW i \in Nat, NEW k \in Nat, <<q, i, k>> \in B, q # p
      PROVE  from[<<q, i, k>>] = <<q, i, k>> /\ <<q, i, k>> \in A
  <2>1. M[q] = L[q] BY <1>1, <1>5
  <2> QED BY <1>5, <2>1 DEF Stock
<1>6. \A x \in B : \E q \in Players, i, k \in Nat : x = <<q, i, k>> BY StockOf
<1>7. \A q, i, k : <<q, i, k>> \in extra <=> <<q, i, k>> \in B /\ q = p /\ i = e OBVIOUS
<1>8. \A q, i, k : <<q, i, k>> \in gone <=> <<q, i, k>> \in A /\ q = p /\ i = d OBVIOUS
<1>9. gone \in SUBSET A OBVIOUS
<1>10. IsFiniteSet(A) OBVIOUS
<1> HIDE DEF A, B, from, gone, extra
<1>11. ASSUME NEW x \in B \ extra
       PROVE  \E q \in Players, i, k \in Nat : Traced(x, q, i, k)
  <2>1. PICK q \in Players, i \in Nat, k \in Nat : x = <<q, i, k>> BY <1>6
  <2>2. <<q, i, k>> \in B /\ ~(<<q, i, k>> \in extra) BY <2>1
  <2>3. q # p => from[<<q, i, k>>] = <<q, i, k>> /\ <<q, i, k>> \in A BY <1>5, <2>2
  <2>4. q = p => i # e BY <1>7, <2>2
  <2>5. q = p => <<p, i, k>> \in B BY <2>2
  <2>6. q = p => /\ i \in 1 .. Len(r) /\ from[<<p, i, k>>] = <<p, f[i], k>>
                 /\ <<p, f[i], k>> \in A /\ f[i] # d
    BY <1>4, <2>4, <2>5
  <2>7. q = p => from[x] = <<p, f[i], k>> BY <2>1, <2>6
  <2>8. q # p => from[x] = <<q, i, k>> BY <2>1, <2>3
  <2> QED BY <2>1, <2>3, <2>4, <2>6, <2>7, <2>8
<1>12. ASSUME NEW x \in B \ extra PROVE from[x] \in A \ gone
  <2>1. PICK q \in Players, i \in Nat, k \in Nat : Traced(x, q, i, k)
    BY <1>11
  <2>2. CASE q = p
    <3>1. ~(<<p, f[i], k>> \in gone) BY <1>8, <2>1, <2>2
    <3> QED BY <2>1, <2>2, <3>1
  <2>3. CASE q # p
    <3>1. ~(<<q, i, k>> \in gone) BY <1>8, <2>1, <2>3
    <3> QED BY <2>1, <2>3, <3>1
  <2> QED BY <2>2, <2>3
<1>13. ASSUME NEW x \in B \ extra, NEW y \in B \ extra, from[x] = from[y] PROVE x = y
  <2>1. PICK q \in Players, i \in Nat, k \in Nat : Traced(x, q, i, k)
    BY <1>11
  <2>2. PICK u \in Players, j \in Nat, m \in Nat : Traced(y, u, j, m)
    BY <1>11
  <2>3. from[x] = from[y] BY <1>13
  <2>4. CASE q = p /\ u = p
    <3>1. <<p, f[i], k>> = <<p, f[j], m>> BY <2>1, <2>2, <2>3, <2>4
    <3>2. f[i] = f[j] /\ k = m BY <3>1
    <3>3. i = j BY <1>0, <2>1, <2>2, <2>4, <3>2
    <3> QED BY <2>1, <2>2, <2>4, <3>2, <3>3
  <2>5. CASE q = p /\ u # p
    <3>1. <<p, f[i], k>> = <<u, j, m>> BY <2>1, <2>2, <2>3, <2>5
    <3> QED BY <2>5, <3>1
  <2>6. CASE q # p /\ u = p
    <3>1. <<q, i, k>> = <<p, f[j], m>> BY <2>1, <2>2, <2>3, <2>6
    <3> QED BY <2>6, <3>1
  <2>7. CASE q # p /\ u # p BY <2>1, <2>2, <2>3, <2>7
  <2> QED BY <2>4, <2>5, <2>6, <2>7
<1>14. IsFiniteSet(B) /\ Cardinality(B) + Cardinality(gone) <= Cardinality(A) + Cardinality(extra)
  BY <1>3, <1>9, <1>10, <1>12, <1>13, Balanced
<1> QED BY <1>2, <1>3, <1>14 DEF A, B

LEMMA StockNat ==
  ASSUME NEW L, NEW w, IsFiniteSet(Stock(L, w))
  PROVE  Cardinality(Stock(L, w)) \in Nat
BY FS_CardinalityType

LEMMA InIs ==
  ASSUME NEW s \in Seq(Items), NEW i \in 1 .. Len(s), NEW w
  PROVE  In(s, i, w) = (IF s[i].serial = w THEN Size(s[i]) ELSE 0) /\ In(s, i, w) \in Nat
BY SizeIs DEF In

\* p's list is in another order, or its ids are others.
LEMMA StockSame ==
  ASSUME NEW L \in Lists, NEW p \in Players, NEW r \in Seq(Items), Len(L[p]) <= MaxLen, Len(r) <= MaxLen,
         NEW f, NEW w, IsFiniteSet(Stock(L, w)),
         \A i \in 1 .. Len(r) :
           f[i] \in 1 .. Len(L[p]) /\ r[i].serial = L[p][f[i]].serial /\ r[i].n = L[p][f[i]].n,
         \A i, j \in 1 .. Len(r) : f[i] = f[j] => i = j,
         NEW M \in Lists, Becomes(L, p, r, M)
  PROVE  IsFiniteSet(Stock(M, w)) /\ Cardinality(Stock(M, w)) <= Cardinality(Stock(L, w))
<1>1. In(L[p], 0, w) = 0 /\ In(r, 0, w) = 0 /\ 0 \in Nat BY DEF In
<1>2. \A i \in 1 .. Len(r) : i # 0 =>
        f[i] \in 1 .. Len(L[p]) /\ f[i] # 0 /\ r[i].serial = L[p][f[i]].serial /\ r[i].n = L[p][f[i]].n
  OBVIOUS
<1>3. \A i, j \in 1 .. Len(r) : i # 0 /\ j # 0 /\ f[i] = f[j] => i = j OBVIOUS
<1>5. Moves(L[p], r, f, 0, 0) BY <1>2, <1>3, Zenon DEF Moves
<1>4. /\ IsFiniteSet(Stock(M, w))
      /\ Cardinality(Stock(M, w)) + In(L[p], 0, w) <= Cardinality(Stock(L, w)) + In(r, 0, w)
  BY <1>1, <1>5, StockMoves
<1> QED BY <1>1, <1>4, StockNat

LEMMA StockWithout ==
  ASSUME NEW L \in Lists, NEW p \in Players, Len(L[p]) <= MaxLen, NEW i \in 1 .. Len(L[p]),
         NEW w, IsFiniteSet(Stock(L, w)),
         NEW M \in Lists, Becomes(L, p, RemoveAt(L[p], i), M)
  PROVE  /\ IsFiniteSet(Stock(M, w))
         /\ Cardinality(Stock(M, w)) + In(L[p], i, w) <= Cardinality(Stock(L, w))
<1> DEFINE s == L[p]
           r == RemoveAt(s, i)
           f == [k \in Nat |-> IF k < i THEN k ELSE k + 1]
<1>0. s \in Seq(Items) /\ Len(s) \in Nat /\ i \in Nat BY DEF Lists
<1>1. /\ r \in Seq(Items) /\ Len(r) = Len(s) - 1
      /\ \A k \in 1 .. Len(s) - 1 : r[k] = IF k < i THEN s[k] ELSE s[k + 1]
  BY <1>0, RemoveAtIs
<1>2. Becomes(L, p, r, M) OBVIOUS
<1> HIDE DEF r, s
<1>3. ASSUME NEW k \in 1 .. Len(r)
      PROVE  f[k] \in 1 .. Len(s) /\ f[k] # i /\ r[k] = s[f[k]]
  <2>1. k \in Nat /\ k \in 1 .. Len(s) - 1 BY <1>0, <1>1
  <2>2. f[k] = IF k < i THEN k ELSE k + 1 BY <2>1
  <2> HIDE DEF f
  <2> QED BY <1>0, <1>1, <2>1, <2>2 DEF s
<1>4. ASSUME NEW k \in 1 .. Len(r), NEW j \in 1 .. Len(r), f[k] = f[j] PROVE k = j
  <2>1. k \in Nat /\ j \in Nat BY <1>0, <1>1
  <2>2. f[k] = (IF k < i THEN k ELSE k + 1) /\ f[j] = IF j < i THEN j ELSE j + 1 BY <2>1
  <2>3. f[k] = f[j] BY <1>4
  <2> HIDE DEF f
  <2> QED BY <1>0, <2>1, <2>2, <2>3
<1> HIDE DEF f
<1>5. In(r, 0, w) = 0 /\ 0 \in Nat BY DEF In
<1>6. Len(r) <= MaxLen
  <2>1. Len(s) <= MaxLen /\ MaxLen \in Nat BY Sizes DEF s, MaxLen
  <2> QED BY <1>0, <1>1, <2>1
<1>7. \A k \in 1 .. Len(r) : k # 0 =>
        f[k] \in 1 .. Len(L[p]) /\ f[k] # i /\ r[k].serial = L[p][f[k]].serial /\ r[k].n = L[p][f[k]].n
  BY <1>3 DEF s
<1>8. \A k, j \in 1 .. Len(r) : k # 0 /\ j # 0 /\ f[k] = f[j] => k = j BY <1>4
<1>11. Moves(L[p], r, f, i, 0) BY <1>7, <1>8, Zenon DEF Moves
<1>9. /\ IsFiniteSet(Stock(M, w))
      /\ Cardinality(Stock(M, w)) + In(L[p], i, w) <= Cardinality(Stock(L, w)) + In(r, 0, w)
  BY <1>0, <1>1, <1>2, <1>5, <1>6, <1>11, StockMoves
<1>10. In(L[p], i, w) \in Nat BY <1>0, InIs DEF s
<1> QED BY <1>5, <1>9, <1>10, StockNat

\* s with n at i.
Entry(s, i, n) == [s EXCEPT ![i].n = n]

\* One entry becomes more or less.
LEMMA StockEntry ==
  ASSUME NEW L \in Lists, NEW p \in Players, Len(L[p]) <= MaxLen, NEW i \in 1 .. Len(L[p]), NEW n \in 0 .. MaxBuy,
         NEW w, IsFiniteSet(Stock(L, w)),
         NEW M \in Lists, Becomes(L, p, Entry(L[p], i, n), M)
  PROVE  /\ IsFiniteSet(Stock(M, w))
         /\ L[p][i].serial # w => Cardinality(Stock(M, w)) <= Cardinality(Stock(L, w))
         /\ L[p][i].serial = w =>
              Cardinality(Stock(M, w)) + Size(L[p][i]) <= Cardinality(Stock(L, w)) + (IF n = 0 THEN 1 ELSE n)
<1> DEFINE s == L[p]
           r == [s EXCEPT ![i].n = n]
           f == [k \in Nat |-> k]
<1>0. s \in Seq(Items) /\ Len(s) \in Nat /\ i \in Nat /\ s[i] \in Items BY DEF Lists
<1>1. [s[i] EXCEPT !.n = n] \in Items BY <1>0 DEF Items
<1>2. r \in Seq(Items) /\ Len(r) = Len(s) BY <1>0, <1>1
<1>3. \A k \in 1 .. Len(s) : k # i => r[k] = s[k] BY <1>0
<1>4. r[i].n = n /\ r[i].serial = s[i].serial
  <2>1. r[i] = [s[i] EXCEPT !.n = n] BY <1>0
  <2> HIDE DEF r, s
  <2> QED BY <1>0, <2>1 DEF Items
<1>5. Becomes(L, p, r, M) BY DEF Entry
<1>6. \A k \in 1 .. Len(r) : f[k] = k OBVIOUS
<1> HIDE DEF r, f
<1>7. \A k \in 1 .. Len(r) : k # i =>
        f[k] \in 1 .. Len(L[p]) /\ f[k] # i /\ r[k].serial = L[p][f[k]].serial /\ r[k].n = L[p][f[k]].n
  BY <1>2, <1>3, <1>6
<1>8. \A k, j \in 1 .. Len(r) : k # i /\ j # i /\ f[k] = f[j] => k = j BY <1>6
<1>11. Moves(L[p], r, f, i, i) BY <1>7, <1>8, Zenon DEF Moves
<1>9. /\ IsFiniteSet(Stock(M, w))
      /\ Cardinality(Stock(M, w)) + In(L[p], i, w) <= Cardinality(Stock(L, w)) + In(r, i, w)
  BY <1>0, <1>2, <1>5, <1>11, StockMoves
<1>10. /\ In(L[p], i, w) = IF s[i].serial = w THEN Size(s[i]) ELSE 0
       /\ In(r, i, w) = IF s[i].serial = w THEN (IF n = 0 THEN 1 ELSE n) ELSE 0
  BY <1>2, <1>4 DEF In, Size
<1> QED BY <1>9, <1>10, StockNat

LEMMA StockAppend ==
  ASSUME NEW L \in Lists, NEW p \in Players, Len(L[p]) < MaxLen, NEW it \in Items,
         NEW w, IsFiniteSet(Stock(L, w)),
         NEW M \in Lists, Becomes(L, p, Append(L[p], it), M)
  PROVE  /\ IsFiniteSet(Stock(M, w))
         /\ Cardinality(Stock(M, w)) <= Cardinality(Stock(L, w)) + (IF it.serial = w THEN Size(it) ELSE 0)
<1> DEFINE s == L[p]
           r == Append(s, it)
           f == [k \in Nat |-> k]
           e == Len(s) + 1
<1>0. s \in Seq(Items) /\ Len(s) \in Nat /\ e \in Nat /\ MaxLen \in Nat BY Sizes DEF Lists, MaxLen
<1>1. /\ r \in Seq(Items) /\ Len(r) = Len(s) + 1
      /\ \A k \in 1 .. Len(s) : r[k] = s[k]
      /\ r[Len(s) + 1] = it
  BY <1>0, AppendProperties
<1>2. Becomes(L, p, r, M) /\ Len(s) < MaxLen OBVIOUS
<1>3. \A k \in 1 .. Len(r) : f[k] = k OBVIOUS
<1> HIDE DEF r, f
<1>4. Len(s) <= MaxLen /\ Len(r) <= MaxLen BY <1>0, <1>1, <1>2
<1>5. \A k \in 1 .. Len(r) : k # e =>
        f[k] \in 1 .. Len(L[p]) /\ f[k] # 0 /\ r[k].serial = L[p][f[k]].serial /\ r[k].n = L[p][f[k]].n
  BY <1>0, <1>1, <1>3
<1>6. \A k, j \in 1 .. Len(r) : k # e /\ j # e /\ f[k] = f[j] => k = j BY <1>3
<1>7. 0 \in Nat /\ In(L[p], 0, w) = 0 /\ In(r, e, w) = IF it.serial = w THEN Size(it) ELSE 0
  BY <1>0, <1>1 DEF In
<1>9. Moves(L[p], r, f, 0, e) BY <1>5, <1>6, Zenon DEF Moves
<1> HIDE DEF e
<1>8. /\ IsFiniteSet(Stock(M, w))
      /\ Cardinality(Stock(M, w)) + In(L[p], 0, w) <= Cardinality(Stock(L, w)) + In(r, e, w)
  BY <1>0, <1>1, <1>2, <1>4, <1>7, <1>9, StockMoves
<1> QED BY <1>7, <1>8, StockNat

\* n of an entry that has as many are taken.
LEMMA StockTake ==
  ASSUME NEW L \in Lists, NEW p \in Players, Len(L[p]) <= MaxLen, NEW i \in 1 .. Len(L[p]),
         NEW n \in Nat \ {0}, n <= L[p][i].n, NEW w, IsFiniteSet(Stock(L, w)),
         NEW M \in Lists, Becomes(L, p, Take(L[p], i, n), M)
  PROVE  /\ IsFiniteSet(Stock(M, w))
         /\ Cardinality(Stock(M, w)) + (IF L[p][i].serial = w THEN n ELSE 0) <= Cardinality(Stock(L, w))
<1>0. L[p] \in Seq(Items) /\ L[p][i] \in Items BY DEF Lists
<1>1. L[p][i].n \in Nat /\ L[p][i].n <= MaxBuy /\ MaxBuy \in Nat BY <1>0, ItemIs, Sizes
<1>2. Size(L[p][i]) = L[p][i].n BY <1>1 DEF Size
<1>3. CASE n < L[p][i].n
  <2>1. Take(L[p], i, n) = Entry(L[p], i, L[p][i].n - n) BY <1>3 DEF Take, Entry
  <2>4. Becomes(L, p, Entry(L[p], i, L[p][i].n - n), M) BY <2>1
  <2>2. L[p][i].n - n \in 0 .. MaxBuy /\ L[p][i].n - n # 0 BY <1>1, <1>3
  <2>3. /\ IsFiniteSet(Stock(M, w))
        /\ L[p][i].serial # w => Cardinality(Stock(M, w)) <= Cardinality(Stock(L, w))
        /\ L[p][i].serial = w =>
              Cardinality(Stock(M, w)) + Size(L[p][i]) <= Cardinality(Stock(L, w))
                + (IF L[p][i].n - n = 0 THEN 1 ELSE L[p][i].n - n)
    BY <2>2, <2>4, StockEntry
  <2> QED BY <1>1, <1>2, <2>2, <2>3, StockNat, SMTT(60)
<1>4. CASE ~(n < L[p][i].n)
  <2>1. Take(L[p], i, n) = RemoveAt(L[p], i) BY <1>4 DEF Take
  <2>4. Becomes(L, p, RemoveAt(L[p], i), M) BY <2>1
  <2>2. /\ IsFiniteSet(Stock(M, w))
        /\ Cardinality(Stock(M, w)) + In(L[p], i, w) <= Cardinality(Stock(L, w))
    BY <2>4, StockWithout
  <2>3. In(L[p], i, w) = IF L[p][i].serial = w THEN L[p][i].n ELSE 0 BY <1>0, <1>2, InIs
  <2> QED BY <1>1, <1>4, <2>2, <2>3, StockNat
<1> QED BY <1>3, <1>4

\* Something comes to a list: no more than it is.
LEMMA StockPut ==
  ASSUME NEW L \in Lists, NEW p \in Players, Len(L[p]) <= MaxLen, NEW it \in Items, it.n > 0,
         Len(Put(L[p], it)) <= MaxLen, NEW w, IsFiniteSet(Stock(L, w)),
         NEW M \in Lists, Becomes(L, p, Put(L[p], it), M)
  PROVE  /\ IsFiniteSet(Stock(M, w))
         /\ Cardinality(Stock(M, w)) <= Cardinality(Stock(L, w)) + (IF it.serial = w THEN it.n ELSE 0)
<1>0. L[p] \in Seq(Items) /\ Len(L[p]) \in Nat /\ MaxLen \in Nat
     /\ MaxBuy \in Nat /\ Stack \in Nat /\ Stack <= MaxBuy
  BY Sizes DEF Lists, MaxLen
<1>1. it.n \in Nat /\ Size(it) = it.n BY ItemIs DEF Size
<1>2. CASE IsTool(it) /\ ToolStack(L[p]) # {}
  <2> DEFINE i == CHOOSE j \in ToolStack(L[p]) : TRUE
  <2>1. i \in ToolStack(L[p]) /\ Put(L[p], it) = [L[p] EXCEPT ![i].n = Least(@ + it.n, Stack)]
    BY <1>2 DEF Put
  <2> HIDE DEF i
  <2> DEFINE n == Least(L[p][i].n + it.n, Stack)
  <2>2. i \in 1 .. Len(L[p]) /\ L[p][i].serial = None /\ it.serial = None
    BY <1>2, <2>1 DEF ToolStack, IsTool
  <2>3. L[p][i] \in Items BY <1>0, <2>2
  <2>4. L[p][i].n \in Nat BY <2>3, ItemIs
  <2>5. n \in 0 .. MaxBuy /\ n <= L[p][i].n + it.n /\ L[p][i].n <= Size(L[p][i]) /\ Size(L[p][i]) >= 1
        /\ Size(L[p][i]) \in Nat
    BY <1>0, <1>1, <2>4, SMTT(60) DEF Least, Size
  <2>9. Put(L[p], it) = Entry(L[p], i, n) BY <1>0, <2>1, <2>2, <2>3 DEF Entry
  <2>6. Becomes(L, p, Entry(L[p], i, n), M) BY <2>9
  <2> HIDE DEF n
  <2>7. /\ IsFiniteSet(Stock(M, w))
        /\ L[p][i].serial # w => Cardinality(Stock(M, w)) <= Cardinality(Stock(L, w))
        /\ L[p][i].serial = w =>
              Cardinality(Stock(M, w)) + Size(L[p][i]) <= Cardinality(Stock(L, w)) + (IF n = 0 THEN 1 ELSE n)
    BY <2>2, <2>5, <2>6, StockEntry
  <2>8. Cardinality(Stock(M, w)) \in Nat /\ Cardinality(Stock(L, w)) \in Nat BY <2>7, StockNat
  <2> QED BY <1>1, <2>2, <2>4, <2>5, <2>7, <2>8
<1>3. CASE ~(IsTool(it) /\ ToolStack(L[p]) # {})
  <2>1. Put(L[p], it) = Append(L[p], it) BY <1>3 DEF Put
  <2>5. Becomes(L, p, Append(L[p], it), M) BY <2>1
  <2>2. Len(Append(L[p], it)) = Len(L[p]) + 1 BY <1>0, AppendProperties
  <2>3. Len(L[p]) < MaxLen BY <1>0, <2>1, <2>2
  <2>4. /\ IsFiniteSet(Stock(M, w))
        /\ Cardinality(Stock(M, w)) <= Cardinality(Stock(L, w)) + (IF it.serial = w THEN Size(it) ELSE 0)
    BY <2>3, <2>5, StockAppend
  <2> QED BY <1>1, <2>4
<1> QED BY <1>2, <1>3

\* How much of w a thing is.
One(it, w) == IF it.serial = w THEN it.n ELSE 0

LEMMA LyingFinite ==
  ASSUME NEW fl, NEW w
  PROVE  IsFiniteSet(Lying(fl, w)) /\ Cardinality(Lying(fl, w)) \in Nat
<1>1. IsFiniteSet(Slots) /\ IsFiniteSet(1 .. MaxBuy)
  <2>1. 1 \in Int /\ MaxBuy \in Int BY Sizes
  <2> QED BY <2>1, SlotsAre, FS_Interval
<1>2. IsFiniteSet(Slots \X (1 .. MaxBuy)) BY <1>1, FS_Product
<1>3. Lying(fl, w) \in SUBSET (Slots \X (1 .. MaxBuy)) BY DEF Lying
<1>4. IsFiniteSet(Lying(fl, w)) BY <1>2, <1>3, FS_Subset
<1> QED BY <1>4, FS_CardinalityType

LEMMA LyingHas ==
  ASSUME NEW fl, NEW w, NEW s \in Slots, NEW k \in Nat
  PROVE  <<s, k>> \in Lying(fl, w) <=> k \in 1 .. MaxBuy /\ fl[s].serial = w /\ k <= fl[s].n
<1> DEFINE x == <<s, k>>
<1>1. x[1] = s /\ x[2] = k OBVIOUS
<1>2. x \in Slots \X (1 .. MaxBuy) <=> k \in 1 .. MaxBuy OBVIOUS
<1>3. x \in Lying(fl, w) <=> x \in Slots \X (1 .. MaxBuy) /\ fl[x[1]].serial = w /\ x[2] <= fl[x[1]].n
  BY DEF Lying
<1> HIDE DEF x
<1> QED BY <1>1, <1>2, <1>3 DEF x

LEMMA LyingOf ==
  ASSUME NEW fl, NEW w, NEW x \in Lying(fl, w)
  PROVE  \E s \in Slots, k \in Nat : x = <<s, k>>
<1>1. x \in Slots \X (1 .. MaxBuy) /\ MaxBuy \in Nat BY Sizes DEF Lying
<1> QED BY <1>1

LEMMA LyingAt ==
  ASSUME NEW fl, NEW w, NEW s \in Slots, fl[s] \in Items
  PROVE  LET S == {x \in Lying(fl, w) : x[1] = s}
         IN  IsFiniteSet(S) /\ Cardinality(S) = One(fl[s], w)
<1> DEFINE S == {x \in Lying(fl, w) : x[1] = s}
           k == One(fl[s], w)
           f == [n \in 1 .. k |-> <<s, n>>]
<1>1. k \in Nat BY ItemIs DEF One
<1>2. \A n \in Nat : <<s, n>> \in Lying(fl, w) <=> n \in 1 .. k
  <2>1. fl[s].n \in Nat /\ fl[s].n <= MaxBuy /\ MaxBuy \in Nat BY ItemIs, Sizes
  <2>2. ASSUME NEW n \in Nat PROVE <<s, n>> \in Lying(fl, w) <=> n \in 1 .. k
    BY <2>1, LyingHas, SMTT(60) DEF One
  <2> QED BY <2>2
<1> HIDE DEF k
<1>3. \A n \in 1 .. k : f[n] \in S BY <1>1, <1>2
<1>4. \A n, m \in 1 .. k : f[n] = f[m] => n = m OBVIOUS
<1>5. ASSUME NEW x \in S PROVE \E n \in 1 .. k : f[n] = x
  <2>1. x \in Lying(fl, w) /\ x[1] = s OBVIOUS
  <2>2. PICK n \in Nat : x = <<s, n>> BY <2>1, LyingOf
  <2>3. n \in 1 .. k BY <1>2, <2>1, <2>2
  <2> QED BY <2>2, <2>3
<1> HIDE DEF S, f
<1>6. IsFiniteSet(S) /\ Cardinality(S) = k BY <1>1, <1>3, <1>4, <1>5, ColumnIs
<1> QED BY <1>6 DEF S, k

\* Something else lies at s.
LEMMA LyingMoves ==
  ASSUME NEW fl \in [Slots -> Items], NEW s \in Slots, NEW it \in Items, NEW w,
         NEW g, g = [fl EXCEPT ![s] = it]
  PROVE  Cardinality(Lying(g, w)) + One(fl[s], w) <= Cardinality(Lying(fl, w)) + One(it, w)
<1>1. g[s] = it /\ fl[s] \in Items /\ \A t \in Slots : t # s => g[t] = fl[t] OBVIOUS
<1>10. ASSUME NEW t \in Slots, NEW k \in Nat, t # s
       PROVE  <<t, k>> \in Lying(g, w) <=> <<t, k>> \in Lying(fl, w)
  <2>1. g[t] = fl[t] BY <1>1, <1>10
  <2>2. <<t, k>> \in Lying(g, w) <=> k \in 1 .. MaxBuy /\ g[t].serial = w /\ k <= g[t].n BY LyingHas
  <2>3. <<t, k>> \in Lying(fl, w) <=> k \in 1 .. MaxBuy /\ fl[t].serial = w /\ k <= fl[t].n BY LyingHas
  <2> QED BY <2>1, <2>2, <2>3
<1> DEFINE A == Lying(fl, w)
           B == Lying(g, w)
           gone == {x \in A : x[1] = s}
           extra == {x \in B : x[1] = s}
           from == [x \in B |-> x]
<1>2. Cardinality(gone) = One(fl[s], w) BY <1>1, LyingAt
<1>3. IsFiniteSet(extra) /\ Cardinality(extra) = One(it, w)
  <2>1. g[s] \in Items BY <1>1
  <2>2. IsFiniteSet(extra) /\ Cardinality(extra) = One(g[s], w) BY <2>1, LyingAt
  <2> QED BY <1>1, <2>2
<1>4. IsFiniteSet(A) BY LyingFinite
<1>5. ASSUME NEW x \in B \ extra PROVE from[x] \in A \ gone /\ from[x] = x
  <2>1. PICK t \in Slots, k \in Nat : x = <<t, k>> BY LyingOf
  <2>2. t # s BY <2>1
  <2>3. x \in A
    <3>1. <<t, k>> \in Lying(g, w) BY <2>1
    <3>2. <<t, k>> \in Lying(fl, w) BY <1>10, <2>2, <3>1
    <3> QED BY <2>1, <3>2
  <2> QED BY <2>1, <2>2, <2>3
<1>6. \A x, y \in B \ extra : from[x] = from[y] => x = y BY <1>5
<1>7. gone \in SUBSET A OBVIOUS
<1> HIDE DEF A, B, gone, extra, from
<1>8. Cardinality(B) + Cardinality(gone) <= Cardinality(A) + Cardinality(extra)
  BY <1>3, <1>4, <1>5, <1>6, <1>7, Balanced
<1> QED BY <1>2, <1>3, <1>8 DEF A, B

LEMMA NothingLies == \A w : Cardinality(Lying(NoFloor, w)) = 0
<1>1. ASSUME NEW w PROVE Lying(NoFloor, w) = {}
  <2>1. ASSUME NEW x \in Lying(NoFloor, w) PROVE FALSE
    <3>1. PICK s \in Slots, k \in Nat : x = <<s, k>> BY <2>1, LyingOf
    <3>2. <<s, k>> \in Lying(NoFloor, w) BY <2>1, <3>1
    <3>3. NoFloor[s].n = 0 BY DEF NoFloor, NoItem, Tool
    <3>4. k \in 1 .. MaxBuy /\ k <= 0 BY <3>2, <3>3, LyingHas
    <3> QED BY <3>4, Sizes
  <2> QED BY <2>1
<1> QED BY <1>1, FS_EmptySet

\* Where the kept elements were: each at a place of its own.
LEMMA KeptFrom ==
  ASSUME NEW S, NEW s \in Seq(S), NEW K \in SUBSET (1 .. Len(s))
  PROVE  \E f : /\ \A n \in 1 .. Len(Kept(s, K)) : f[n] \in K /\ Kept(s, K)[n] = s[f[n]]
                /\ \A n, m \in 1 .. Len(Kept(s, K)) : f[n] = f[m] => n = m
<1> DEFINE e == [i \in K |-> i]
           N == Cardinality(K)
           q == Kept(s, K)
           f == [n \in 1 .. N |-> Nth(e, K, n)]
<1>0. Len(s) \in Nat OBVIOUS
<1>1. N \in Nat /\ Len(q) = N /\ IsFiniteSet(K) BY KeptIs
<1>2. Numbers(e, K) BY <1>0, <1>1 DEF Numbers
<1>3. q = [k \in 1 .. N |-> s[Nth(e, K, k)]] BY DEF Kept
<1> HIDE DEF e, N, q
<1>4. \A k \in 1 .. N : Nth(e, K, k) \in K /\ Rank(e, K, Nth(e, K, k)) = k
  BY <1>2, NthIs DEF N
<1>5. \A n \in 1 .. N : f[n] \in K /\ q[n] = s[f[n]] BY <1>3, <1>4
<1>6. ASSUME NEW n \in 1 .. N, NEW m \in 1 .. N, f[n] = f[m] PROVE n = m
  <2>1. Nth(e, K, n) = Nth(e, K, m) BY <1>6
  <2> QED BY <1>4, <2>1
<1> HIDE DEF f
<1> QED BY <1>1, <1>5, <1>6 DEF q

\* The bank's items in another order: each was at a place of its own.
LEMMA SortFrom ==
  ASSUME NEW s \in Seq(Items)
  PROVE  \E f : /\ \A k \in 1 .. Len(s) : f[k] \in 1 .. Len(s) /\ SortBankItems(s)[k] = s[f[k]]
                /\ \A k, j \in 1 .. Len(s) : f[k] = f[j] => k = j
<1> DEFINE T == {i \in 1 .. Len(s) : IsTool(s[i])}
           W == (1 .. Len(s)) \ T
           a == Kept(s, W)
           b == Kept(s, T)
<1>1. T \in SUBSET (1 .. Len(s)) /\ W \in SUBSET (1 .. Len(s)) /\ W \cap T = {} OBVIOUS
<1>2. SortBankItems(s) = a \o b BY DEF SortBankItems
<1>3. Len(SortBankItems(s)) = Len(s) BY SortIs
<1> HIDE DEF T, W
<1>4. PICK g : /\ \A n \in 1 .. Len(a) : g[n] \in W /\ a[n] = s[g[n]]
               /\ \A n, m \in 1 .. Len(a) : g[n] = g[m] => n = m
  BY <1>1, KeptFrom
<1>5. PICK h : /\ \A n \in 1 .. Len(b) : h[n] \in T /\ b[n] = s[h[n]]
               /\ \A n, m \in 1 .. Len(b) : h[n] = h[m] => n = m
  BY <1>1, KeptFrom
<1>6. a \in Seq(Items) /\ b \in Seq(Items) BY <1>1, KeptIs
<1> HIDE DEF a, b
<1>7. /\ Len(a \o b) = Len(a) + Len(b) /\ Len(a) \in Nat /\ Len(b) \in Nat
      /\ \A k \in 1 .. Len(a) + Len(b) : (a \o b)[k] = IF k <= Len(a) THEN a[k] ELSE b[k - Len(a)]
  BY <1>6, ConcatProperties
<1>8. Len(s) = Len(a) + Len(b) BY <1>2, <1>3, <1>7
<1> DEFINE f == [k \in 1 .. Len(s) |-> IF k <= Len(a) THEN g[k] ELSE h[k - Len(a)]]
<1>9. ASSUME NEW k \in 1 .. Len(s)
      PROVE  /\ k <= Len(a) => /\ k \in 1 .. Len(a) /\ f[k] = g[k] /\ f[k] \in W
                               /\ SortBankItems(s)[k] = s[f[k]]
             /\ ~(k <= Len(a)) => /\ k - Len(a) \in 1 .. Len(b) /\ f[k] = h[k - Len(a)] /\ f[k] \in T
                                  /\ SortBankItems(s)[k] = s[f[k]]
  <2>1. f[k] = IF k <= Len(a) THEN g[k] ELSE h[k - Len(a)] OBVIOUS
  <2> HIDE DEF f
  <2>2. k \in Nat /\ k >= 1 /\ k <= Len(a) + Len(b) BY <1>7, <1>8
  <2>3. SortBankItems(s)[k] = IF k <= Len(a) THEN a[k] ELSE b[k - Len(a)] BY <1>2, <1>7, <2>2
  <2>4. CASE k <= Len(a)
    <3>1. k \in 1 .. Len(a) BY <1>7, <2>2, <2>4
    <3> QED BY <1>4, <2>1, <2>3, <2>4, <3>1
  <2>5. CASE ~(k <= Len(a))
    <3>1. k - Len(a) \in 1 .. Len(b) BY <1>7, <2>2, <2>5
    <3> QED BY <1>5, <2>1, <2>3, <2>5, <3>1
  <2> QED BY <2>4, <2>5
<1> HIDE DEF f
<1>10. ASSUME NEW k \in 1 .. Len(s), NEW j \in 1 .. Len(s), f[k] = f[j] PROVE k = j
  <2>1. k \in Nat /\ j \in Nat BY <1>7, <1>8
  <2>2. CASE k <= Len(a) /\ j <= Len(a) BY <1>4, <1>9, <1>10, <2>2
  <2>3. CASE ~(k <= Len(a)) /\ ~(j <= Len(a))
    <3>1. k - Len(a) = j - Len(a) BY <1>5, <1>9, <1>10, <2>3
    <3> QED BY <1>7, <2>1, <3>1
  <2>4. CASE (k <= Len(a)) # (j <= Len(a))
    <3>1. (f[k] \in W /\ f[j] \in T) \/ (f[k] \in T /\ f[j] \in W) BY <1>9, <2>4
    <3> QED BY <1>1, <1>10, <3>1
  <2> QED BY <2>2, <2>3, <2>4
<1>11. \A k \in 1 .. Len(s) : f[k] \in 1 .. Len(s) /\ SortBankItems(s)[k] = s[f[k]] BY <1>1, <1>9
<1> QED BY <1>10, <1>11

\* The order of a bank does not matter.
LEMMA StockSort ==
  ASSUME NEW L \in Lists, NEW p \in Players, Len(L[p]) <= MaxLen, NEW w, IsFiniteSet(Stock(L, w)),
         NEW M \in Lists, Becomes(L, p, SortBankItems(L[p]), M)
  PROVE  IsFiniteSet(Stock(M, w)) /\ Cardinality(Stock(M, w)) <= Cardinality(Stock(L, w))
<1> DEFINE s == L[p]
           r == SortBankItems(s)
<1>1. s \in Seq(Items) /\ r \in Seq(Items) /\ Len(r) = Len(s) BY SortIs DEF Lists
<1>2. PICK f : /\ \A k \in 1 .. Len(s) : f[k] \in 1 .. Len(s) /\ r[k] = s[f[k]]
               /\ \A k, j \in 1 .. Len(s) : f[k] = f[j] => k = j
  BY <1>1, SortFrom
<1>3. Becomes(L, p, r, M) OBVIOUS
<1> HIDE DEF r
<1>4. \A k \in 1 .. Len(r) :
        f[k] \in 1 .. Len(L[p]) /\ r[k].serial = L[p][f[k]].serial /\ r[k].n = L[p][f[k]].n
  BY <1>1, <1>2
<1>5. \A k, j \in 1 .. Len(r) : f[k] = f[j] => k = j BY <1>1, <1>2
<1>6. Len(L[p]) <= MaxLen /\ Len(r) <= MaxLen BY <1>1
<1> HIDE DEF s
<1> QED BY <1>1, <1>3, <1>4, <1>5, <1>6, StockSame

\* What is left is some of what was there, in any order.
LEMMA StockPicked ==
  ASSUME NEW L \in Lists, NEW p \in Players, Len(L[p]) <= MaxLen, NEW w, IsFiniteSet(Stock(L, w)),
         NEW f, NEW r \in Seq(Items), Len(r) <= MaxLen,
         \A k \in 1 .. Len(r) : f[k] \in 1 .. Len(L[p]) /\ r[k] = L[p][f[k]],
         \A j, k \in 1 .. Len(r) : f[j] = f[k] => j = k,
         NEW M \in Lists, Becomes(L, p, r, M)
  PROVE  IsFiniteSet(Stock(M, w)) /\ Cardinality(Stock(M, w)) <= Cardinality(Stock(L, w))
<1>1. \A k \in 1 .. Len(r) :
        f[k] \in 1 .. Len(L[p]) /\ r[k].serial = L[p][f[k]].serial /\ r[k].n = L[p][f[k]].n
  OBVIOUS
<1> QED BY <1>1, StockSame

\* Other ids do not matter.
LEMMA StockNamed ==
  ASSUME NEW L \in Lists, NEW p \in Players, Len(L[p]) <= MaxLen, NEW w, IsFiniteSet(Stock(L, w)),
         NEW r \in Seq(Items), Len(r) = Len(L[p]),
         \A i \in 1 .. Len(r) : r[i].serial = L[p][i].serial /\ r[i].n = L[p][i].n,
         NEW M \in Lists, Becomes(L, p, r, M)
  PROVE  IsFiniteSet(Stock(M, w)) /\ Cardinality(Stock(M, w)) <= Cardinality(Stock(L, w))
<1> DEFINE f == [k \in Nat |-> k]
<1>1. \A k \in 1 .. Len(r) : f[k] = k OBVIOUS
<1> HIDE DEF f
<1>2. \A k \in 1 .. Len(r) :
        f[k] \in 1 .. Len(L[p]) /\ r[k].serial = L[p][f[k]].serial /\ r[k].n = L[p][f[k]].n
  BY <1>1
<1>3. \A k, j \in 1 .. Len(r) : f[k] = f[j] => k = j BY <1>1
<1> QED BY <1>2, <1>3, StockSame

\* A weapon is one thing, and was found.
SingleOK(it, wp) == it.serial # None => it.n = 1 /\ it.serial < wp
Singles(s, wp) == \A i \in 1 .. Len(s) : SingleOK(s[i], wp)
SinglesHeld(lists, wp) == \A q \in Players : Singles(lists[q], wp)
SinglesLie(fl, wp) == \A s \in Slots : SingleOK(fl[s], wp)
SinglesOffered(tk, wp) ==
  \A q \in Players : SingleOK(tk[q], wp) /\ (tk[q].id # 0 => tk[q].serial # None)

LEMMA SinglesAmong ==
  ASSUME NEW wp, NEW s, NEW r, Singles(s, wp),
         \A k \in 1 .. Len(r) : r[k].serial # None =>
           \E i \in 1 .. Len(s) : r[k].serial = s[i].serial /\ r[k].n = s[i].n
  PROVE  Singles(r, wp)
BY DEF Singles, SingleOK

LEMMA SinglesWithout ==
  ASSUME NEW wp, NEW s \in Seq(Items), NEW i \in 1 .. Len(s), Singles(s, wp)
  PROVE  Singles(RemoveAt(s, i), wp)
<1>1. /\ Len(RemoveAt(s, i)) = Len(s) - 1 /\ Len(s) \in Nat
      /\ \A k \in 1 .. Len(s) - 1 : RemoveAt(s, i)[k] = IF k < i THEN s[k] ELSE s[k + 1]
  BY RemoveAtIs
<1>2. \A k \in 1 .. Len(RemoveAt(s, i)) :
        \E j \in 1 .. Len(s) : RemoveAt(s, i)[k].serial = s[j].serial /\ RemoveAt(s, i)[k].n = s[j].n
  <2>1. ASSUME NEW k \in 1 .. Len(s) - 1
        PROVE \E j \in 1 .. Len(s) : RemoveAt(s, i)[k] = s[j]
    <3>1. k \in 1 .. Len(s) /\ k + 1 \in 1 .. Len(s) BY <1>1
    <3> QED BY <1>1, <3>1
  <2> QED BY <1>1, <2>1
<1> QED BY <1>2, SinglesAmong

LEMMA SinglesEntry ==
  ASSUME NEW wp, NEW s \in Seq(Items), NEW i \in 1 .. Len(s), NEW n, s[i].serial = None, Singles(s, wp)
  PROVE  Singles(Entry(s, i, n), wp)
<1> DEFINE r == Entry(s, i, n)
<1>1. s[i] \in Items /\ Len(s) \in Nat OBVIOUS
<1>2. Len(r) = Len(s) /\ \A k \in 1 .. Len(s) : k # i => r[k] = s[k] BY DEF Entry
<1>3. r[i].serial = None
  <2>1. r[i] = [s[i] EXCEPT !.n = n] BY DEF Entry
  <2> QED BY <1>1, <2>1 DEF Items
<1> HIDE DEF r
<1>4. Singles(r, wp) BY <1>2, <1>3, SinglesAmong
<1> QED BY <1>4 DEF r

LEMMA SinglesTake ==
  ASSUME NEW wp, NEW s \in Seq(Items), NEW i \in 1 .. Len(s), NEW n \in Nat \ {0}, Singles(s, wp)
  PROVE  Singles(Take(s, i, n), wp)
<1>1. s[i].n \in Nat /\ SingleOK(s[i], wp) BY ItemIs DEF Singles
<1>2. CASE n < s[i].n
  <2>1. s[i].serial = None BY <1>1, <1>2 DEF SingleOK
  <2>2. Take(s, i, n) = Entry(s, i, s[i].n - n) BY <1>2 DEF Take, Entry
  <2> QED BY <2>1, <2>2, SinglesEntry
<1>3. CASE ~(n < s[i].n)
  <2>1. Take(s, i, n) = RemoveAt(s, i) BY <1>3 DEF Take
  <2> QED BY <2>1, SinglesWithout
<1> QED BY <1>2, <1>3

LEMMA SinglesPut ==
  ASSUME NEW wp, NEW s \in Seq(Items), NEW it \in Items, Singles(s, wp), SingleOK(it, wp)
  PROVE  Singles(Put(s, it), wp)
<1>1. CASE IsTool(it) /\ ToolStack(s) # {}
  <2> DEFINE i == CHOOSE j \in ToolStack(s) : TRUE
             n == Least(s[i].n + it.n, Stack)
  <2>1. i \in ToolStack(s) /\ Put(s, it) = [s EXCEPT ![i].n = Least(@ + it.n, Stack)]
    BY <1>1 DEF Put
  <2> HIDE DEF i
  <2>2. i \in 1 .. Len(s) /\ s[i].serial = None BY <2>1 DEF ToolStack, IsTool
  <2>3. s[i] \in Items BY <2>2
  <2>4. Put(s, it) = Entry(s, i, n) BY <2>1, <2>2, <2>3 DEF Entry
  <2> HIDE DEF n
  <2> QED BY <2>2, <2>4, SinglesEntry
<1>2. CASE ~(IsTool(it) /\ ToolStack(s) # {})
  <2>1. Put(s, it) = Append(s, it) BY <1>2 DEF Put
  <2>2. /\ Len(s) \in Nat /\ Len(Append(s, it)) = Len(s) + 1
        /\ \A k \in 1 .. Len(s) : Append(s, it)[k] = s[k]
        /\ Append(s, it)[Len(s) + 1] = it
    BY AppendProperties
  <2>3. ASSUME NEW k \in 1 .. Len(s) + 1 PROVE SingleOK(Append(s, it)[k], wp)
    <3>1. k \in 1 .. Len(s) \/ k = Len(s) + 1 BY <2>2
    <3> QED BY <2>2, <3>1 DEF Singles
  <2> QED BY <2>1, <2>2, <2>3 DEF Singles
<1> QED BY <1>1, <1>2

LEMMA SinglesSort ==
  ASSUME NEW wp, NEW s \in Seq(Items), Singles(s, wp)
  PROVE  Singles(SortBankItems(s), wp)
BY SortIs DEF Singles

LEMMA SinglesPicked ==
  ASSUME NEW wp, NEW s, NEW f, NEW r, Singles(s, wp),
         \A k \in 1 .. Len(r) : f[k] \in 1 .. Len(s) /\ r[k] = s[f[k]]
  PROVE  Singles(r, wp)
BY DEF Singles

LEMMA SinglesBecome ==
  ASSUME NEW wp, NEW L, NEW p \in Players, NEW r, NEW M, Becomes(L, p, r, M), SinglesHeld(L, wp), Singles(r, wp)
  PROVE  SinglesHeld(M, wp)
BY DEF SinglesHeld, Becomes

LEMMA SinglesMore ==
  ASSUME NEW wp \in Nat, NEW wq \in Nat, wp <= wq
  PROVE  /\ \A it : (it \in Items /\ SingleOK(it, wp)) => SingleOK(it, wq)
         /\ \A L \in Lists : SinglesHeld(L, wp) => SinglesHeld(L, wq)
<1>1. ASSUME NEW it \in Items, SingleOK(it, wp) PROVE SingleOK(it, wq)
  <2>1. it.serial \in Nat \cup {None} BY ItemIs, Sizes
  <2> QED BY <1>1, <2>1 DEF SingleOK
<1>2. ASSUME NEW L \in Lists, SinglesHeld(L, wp) PROVE SinglesHeld(L, wq)
  <2>1. \A q \in Players : \A i \in 1 .. Len(L[q]) : L[q][i] \in Items BY DEF Lists
  <2> QED BY <1>1, <1>2, <2>1 DEF SinglesHeld, Singles
<1> QED BY <1>1, <1>2

----------------------------------------------------------------------------
(* Nothing is made of nothing                                              *)

Kinds == Nat \cup {None}

\* The offers of weapon w.
Offers(tk, w) == {p \in Players : tk[p].serial = w}

\* What there is of w, and with what is offered.
Sum(fl, iv, bk, w) == Cardinality(Lying(fl, w)) + Cardinality(Stock(iv, w)) + Cardinality(Stock(bk, w))
Total(fl, iv, bk, tk, w) == Sum(fl, iv, bk, w) + Cardinality(Offers(tk, w))

Counted(iv, bk, tk) ==
  /\ \A w \in Kinds : IsFiniteSet(Stock(iv, w)) /\ IsFiniteSet(Stock(bk, w))
  /\ \A w \in Nat : IsFiniteSet(Offers(tk, w))

AllSingles(fl, iv, bk, tk, wp) ==
  SinglesLie(fl, wp) /\ SinglesHeld(iv, wp) /\ SinglesHeld(bk, wp) /\ SinglesOffered(tk, wp)

\* The tools are no more than were found or bought, and a weapon is one, and one
\* more for each offer made.
Bounds(fl, iv, bk, tk, wp, tl, ts) ==
  /\ Sum(fl, iv, bk, None) <= tl
  /\ \A w \in 0 .. wp - 1 : Total(fl, iv, bk, tk, w) <= 1 + ts

StockOK(fl, iv, bk, tk, wp, tl, ts) ==
  /\ wp \in Nat /\ tl \in Nat /\ ts \in Nat
  /\ Counted(iv, bk, tk) /\ AllSingles(fl, iv, bk, tk, wp) /\ Bounds(fl, iv, bk, tk, wp, tl, ts)

StockInv == StockOK(floor, inv, bank, tekked, weapons, tools, teks)

StockNext == StockOK(floor', inv', bank', tekked', weapons', tools', teks')

LEMMA StockPrimes == StockNext <=> StockInv'
BY DEF StockNext, StockInv, StockOK, Counted, AllSingles, Bounds, Sum, Total, Offers, Stock, Lying,
       SinglesLie, SinglesHeld, SinglesOffered, Singles, SingleOK, Kinds, Size, Slots

LEMMA AmountIs == \A w : Amount(w) = Sum(floor, inv, bank, w)
BY DEF Amount, Sum

LEMMA HeldAre ==
  ASSUME ItemsInv
  PROVE  /\ inv \in Lists /\ bank \in Lists /\ MaxLen \in Nat
         /\ \A q \in Players : /\ inv[q] \in Seq(Items) /\ bank[q] \in Seq(Items)
                               /\ Len(inv[q]) \in Nat /\ Len(inv[q]) <= Carry /\ Len(inv[q]) <= MaxLen
                               /\ Len(bank[q]) \in Nat /\ Len(bank[q]) <= BankSize /\ Len(bank[q]) <= MaxLen
         /\ floor \in [Slots -> Items] /\ tekked \in [Players -> Items]
         /\ weapons \in Nat
         /\ Carry <= MaxLen /\ BankSize <= MaxLen
<1>1. inv \in [Players -> Seq(Items)] /\ bank \in [Players -> Seq(Items)]
  BY DEF ItemsInv, HeldOK, BankOK
<1>2. Carry \in Nat /\ BankSize \in Nat /\ MaxLen = Carry + BankSize BY Sizes DEF MaxLen
<1>3. \A q \in Players : Len(inv[q]) <= Carry /\ Len(bank[q]) <= BankSize BY CarriedIs, BankedIs
<1>4. floor \in [Slots -> Items] /\ tekked \in [Players -> Items] /\ weapons \in Nat
  BY DEF ItemsInv, FloorOK, FloorFits, TekOK, IdsOK
<1>5. \A q \in Players : inv[q] \in Seq(Items) /\ bank[q] \in Seq(Items) BY <1>1
<1>6. \A q \in Players : Len(inv[q]) \in Nat /\ Len(bank[q]) \in Nat BY <1>5
<1> QED BY <1>1, <1>2, <1>3, <1>4, <1>5, <1>6 DEF Lists

LEMMA Became ==
  ASSUME NEW L \in Lists, NEW p \in Players, NEW r \in Seq(Items), NEW M, M = [L EXCEPT ![p] = r]
  PROVE  M \in Lists /\ Becomes(L, p, r, M)
BY DEF Lists, Becomes

LEMMA OffersFewer ==
  ASSUME NEW tk, NEW tn, \A q \in Players : tn[q] = NoItem \/ tn[q] = tk[q], NEW w \in Nat,
         IsFiniteSet(Offers(tk, w))
  PROVE  /\ IsFiniteSet(Offers(tn, w)) /\ Cardinality(Offers(tn, w)) \in Nat
         /\ Cardinality(Offers(tn, w)) <= Cardinality(Offers(tk, w))
<1>1. NoItem.serial # w BY Sizes DEF NoItem, Tool
<1>2. Offers(tn, w) \in SUBSET Offers(tk, w) BY <1>1 DEF Offers
<1> QED BY <1>2, FS_Subset, FS_CardinalityType

LEMMA SumNat ==
  ASSUME NEW fl, NEW iv, NEW bk, NEW w, IsFiniteSet(Stock(iv, w)), IsFiniteSet(Stock(bk, w))
  PROVE  Sum(fl, iv, bk, w) \in Nat
<1>1. Cardinality(Stock(iv, w)) \in Nat /\ Cardinality(Stock(bk, w)) \in Nat BY StockNat
<1>2. Cardinality(Lying(fl, w)) \in Nat BY LyingFinite
<1> QED BY <1>1, <1>2 DEF Sum

\* A step that counts w, when what there is may grow by k.
CountsTo(w, k) ==
  /\ IsFiniteSet(Stock(inv', w)) /\ IsFiniteSet(Stock(bank', w))
  /\ Sum(floor', inv', bank', w) <= Sum(floor, inv, bank, w) + k

\* A step that makes k tools: the offers that remain are those there were.
LEMMA StockMore ==
  ASSUME StockInv, NEW k \in Nat, CountsTo(None, k), \A w \in Nat : CountsTo(w, 0),
         AllSingles(floor', inv', bank', tekked', weapons'),
         \A q \in Players : tekked'[q] = NoItem \/ tekked'[q] = tekked[q],
         weapons' = weapons, tools' = tools + k, teks' = teks
  PROVE  StockNext
<1>1. /\ weapons \in Nat /\ tools \in Nat /\ teks \in Nat
      /\ \A w \in Kinds : IsFiniteSet(Stock(inv, w)) /\ IsFiniteSet(Stock(bank, w))
      /\ \A w \in Nat : IsFiniteSet(Offers(tekked, w))
      /\ Sum(floor, inv, bank, None) <= tools
      /\ \A w \in 0 .. weapons - 1 : Total(floor, inv, bank, tekked, w) <= 1 + teks
  BY DEF StockInv, StockOK, Counted, Bounds
<1>2. \A w \in Nat : /\ IsFiniteSet(Offers(tekked', w)) /\ Cardinality(Offers(tekked', w)) \in Nat
                     /\ Cardinality(Offers(tekked, w)) \in Nat
                     /\ Cardinality(Offers(tekked', w)) <= Cardinality(Offers(tekked, w))
  BY <1>1, OffersFewer, FS_CardinalityType
<1>3. Counted(inv', bank', tekked') BY <1>2 DEF Counted, CountsTo, Kinds
<1>4. \A w \in Kinds : Sum(floor, inv, bank, w) \in Nat /\ Sum(floor', inv', bank', w) \in Nat
  <2>1. ASSUME NEW w \in Kinds
        PROVE  Sum(floor, inv, bank, w) \in Nat /\ Sum(floor', inv', bank', w) \in Nat
    <3>1. IsFiniteSet(Stock(inv', w)) /\ IsFiniteSet(Stock(bank', w)) BY <1>3 DEF Counted
    <3> QED BY <1>1, <3>1, SumNat
  <2> QED BY <2>1
<1>5. Sum(floor', inv', bank', None) <= tools'
  <2>1. Sum(floor', inv', bank', None) <= Sum(floor, inv, bank, None) + k /\ None \in Kinds
    BY DEF CountsTo, Kinds
  <2>2. Sum(floor, inv, bank, None) \in Nat /\ Sum(floor', inv', bank', None) \in Nat BY <1>4, <2>1
  <2> QED BY <1>1, <2>1, <2>2
<1>6. ASSUME NEW w \in 0 .. weapons' - 1 PROVE Total(floor', inv', bank', tekked', w) <= 1 + teks'
  <2>1. w \in Nat /\ w \in Kinds /\ w \in 0 .. weapons - 1 BY <1>1 DEF Kinds
  <2>2. Sum(floor, inv, bank, w) + Cardinality(Offers(tekked, w)) <= 1 + teks BY <1>1, <2>1 DEF Total
  <2>3. Sum(floor', inv', bank', w) <= Sum(floor, inv, bank, w) + 0 BY <2>1 DEF CountsTo
  <2>4. Sum(floor, inv, bank, w) \in Nat /\ Sum(floor', inv', bank', w) \in Nat BY <1>4, <2>1
  <2> QED BY <1>1, <1>2, <2>1, <2>2, <2>3, <2>4 DEF Total
<1>7. weapons' \in Nat /\ tools' \in Nat /\ teks' \in Nat BY <1>1
<1> QED BY <1>3, <1>5, <1>6, <1>7 DEF StockNext, StockOK, Bounds

\* A step that makes nothing.
LEMMA StockLess ==
  ASSUME StockInv, \A w \in Kinds : CountsTo(w, 0),
         AllSingles(floor', inv', bank', tekked', weapons'),
         \A q \in Players : tekked'[q] = NoItem \/ tekked'[q] = tekked[q],
         weapons' = weapons, tools' = tools, teks' = teks
  PROVE  StockNext
<1>1. CountsTo(None, 0) /\ \A w \in Nat : CountsTo(w, 0) BY DEF Kinds
<1>2. tools' = tools + 0 /\ 0 \in Nat BY DEF StockInv, StockOK
<1> QED BY <1>1, <1>2, StockMore

\* What lies there when one goes.
LEMMA GoLies ==
  ASSUME NEW p \in Players, NEW fl, NEW li, Go(p, fl, li)
  PROVE  /\ \A w : Cardinality(Lying(floor', w)) <= Cardinality(Lying(fl, w))
         /\ \A wp : SinglesLie(fl, wp) => SinglesLie(floor', wp)
<1>1. floor' = NoFloor \/ floor' = fl BY DEF Go
<1>2. \A w : /\ Cardinality(Lying(NoFloor, w)) = 0 /\ Cardinality(Lying(fl, w)) \in Nat
  BY NothingLies, LyingFinite
<1>3. \A wp : SinglesLie(NoFloor, wp) BY DEF SinglesLie, SingleOK, NoFloor, NoItem, Tool
<1>4. CASE floor' = NoFloor BY <1>2, <1>3, <1>4
<1>5. CASE floor' = fl BY <1>2, <1>5
<1> QED BY <1>1, <1>4, <1>5

LEMMA StockNow ==
  ASSUME StockInv
  PROVE  /\ weapons \in Nat /\ tools \in Nat /\ teks \in Nat
         /\ \A w \in Kinds : /\ IsFiniteSet(Stock(inv, w)) /\ IsFiniteSet(Stock(bank, w))
                             /\ Cardinality(Stock(inv, w)) \in Nat /\ Cardinality(Stock(bank, w)) \in Nat
                             /\ Cardinality(Lying(floor, w)) \in Nat
         /\ \A w \in Nat : IsFiniteSet(Offers(tekked, w)) /\ Cardinality(Offers(tekked, w)) \in Nat
         /\ SinglesLie(floor, weapons) /\ SinglesHeld(inv, weapons) /\ SinglesHeld(bank, weapons)
         /\ SinglesOffered(tekked, weapons)
<1>1. /\ weapons \in Nat /\ tools \in Nat /\ teks \in Nat
      /\ \A w \in Kinds : IsFiniteSet(Stock(inv, w)) /\ IsFiniteSet(Stock(bank, w))
      /\ \A w \in Nat : IsFiniteSet(Offers(tekked, w))
      /\ SinglesLie(floor, weapons) /\ SinglesHeld(inv, weapons) /\ SinglesHeld(bank, weapons)
      /\ SinglesOffered(tekked, weapons)
  BY DEF StockInv, StockOK, Counted, AllSingles
<1>2. \A w \in Kinds : Cardinality(Stock(inv, w)) \in Nat /\ Cardinality(Stock(bank, w)) \in Nat
  BY <1>1, FS_CardinalityType
<1>3. \A w \in Nat : Cardinality(Offers(tekked, w)) \in Nat BY <1>1, FS_CardinalityType
<1>4. \A w \in Kinds : Cardinality(Lying(floor, w)) \in Nat BY LyingFinite
<1> QED BY <1>1, <1>2, <1>3, <1>4

\* The parts of what there is of w, each changed by no more than it is said.
LEMMA CountsBy ==
  ASSUME StockInv, NEW w \in Kinds, IsFiniteSet(Stock(inv', w)), IsFiniteSet(Stock(bank', w)),
         NEW a \in Int, NEW b \in Int, NEW c \in Int, NEW k \in Int,
         Cardinality(Lying(floor', w)) <= Cardinality(Lying(floor, w)) + a,
         Cardinality(Stock(inv', w)) <= Cardinality(Stock(inv, w)) + b,
         Cardinality(Stock(bank', w)) <= Cardinality(Stock(bank, w)) + c,
         a + b + c <= k
  PROVE  CountsTo(w, k)
<1>1. /\ Cardinality(Stock(inv, w)) \in Nat /\ Cardinality(Stock(bank, w)) \in Nat
      /\ Cardinality(Lying(floor, w)) \in Nat
  BY StockNow
<1>2. /\ Cardinality(Stock(inv', w)) \in Nat /\ Cardinality(Stock(bank', w)) \in Nat
      /\ Cardinality(Lying(floor', w)) \in Nat
  BY LyingFinite, FS_CardinalityType
<1> QED BY <1>1, <1>2 DEF CountsTo, Sum

\* p has n less of what it carries at i.
InvTaken(p, i, n) ==
  \A w \in Kinds :
    /\ IsFiniteSet(Stock(inv', w))
    /\ Cardinality(Stock(inv', w)) + (IF inv[p][i].serial = w THEN n ELSE 0) <= Cardinality(Stock(inv, w))

LEMMA InvTake ==
  ASSUME ItemsInv, StockInv, NEW p \in Players, NEW i \in 1 .. Len(inv[p]), NEW n \in Nat \ {0},
         n <= inv[p][i].n, inv' = [inv EXCEPT ![p] = Take(inv[p], i, n)]
  PROVE  InvTaken(p, i, n) /\ SinglesHeld(inv', weapons)
<1> DEFINE r == Take(inv[p], i, n)
<1>1. inv \in Lists /\ inv[p] \in Seq(Items) /\ Len(inv[p]) <= MaxLen BY HeldAre
<1>2. r \in Seq(Items) BY <1>1, TakeIs
<1>3. inv' = [inv EXCEPT ![p] = r] BY <1>1 DEF Lists
<1> HIDE DEF r
<1>4. inv' \in Lists /\ Becomes(inv, p, r, inv') BY <1>1, <1>2, <1>3, Became
<1>5. Becomes(inv, p, Take(inv[p], i, n), inv') BY <1>4 DEF r
<1>6. ASSUME NEW w \in Kinds
      PROVE  /\ IsFiniteSet(Stock(inv', w))
             /\ Cardinality(Stock(inv', w)) + (IF inv[p][i].serial = w THEN n ELSE 0) <= Cardinality(Stock(inv, w))
  <2>1. IsFiniteSet(Stock(inv, w)) BY StockNow
  <2> QED BY <1>1, <1>4, <1>5, <2>1, StockTake
<1>7. Singles(inv[p], weapons) /\ SinglesHeld(inv, weapons) BY StockNow DEF SinglesHeld
<1>8. Singles(r, weapons) BY <1>1, <1>7, SinglesTake DEF r
<1>10. SinglesHeld(inv', weapons) BY <1>4, <1>7, <1>8, SinglesBecome
<1> QED BY <1>6, <1>10 DEF InvTaken

LEMMA TakenBy ==
  ASSUME ItemsInv, StockInv, doubled = 0, NEW p \in Players, NEW i \in 1 .. Len(inv[p]),
         NEW n \in Nat \ {0}, n <= inv[p][i].n, CleanUp(p, Take(inv[p], i, n))
  PROVE  InvTaken(p, i, n) /\ SinglesHeld(inv', weapons)
<1>1. inv[p] \in Seq(Items) BY CarriedIs
<1>2. Take(inv[p], i, n) \in Seq(Items) BY <1>1, TakeIs
<1>3. inv' = [inv EXCEPT ![p] = Take(inv[p], i, n)] BY <1>2, CleanIs
<1> QED BY <1>3, InvTake

LEMMA InvWithout ==
  ASSUME ItemsInv, StockInv, NEW p \in Players, NEW i \in 1 .. Len(inv[p]),
         inv' = [inv EXCEPT ![p] = RemoveAt(inv[p], i)]
  PROVE  InvTaken(p, i, inv[p][i].n) /\ SinglesHeld(inv', weapons)
<1>1. inv[p][i] \in Items /\ inv[p][i].n > 0 BY CarriedIs
<1>2. inv[p][i].n \in Nat \ {0} BY <1>1, ItemIs
<1>3. Take(inv[p], i, inv[p][i].n) = RemoveAt(inv[p], i) BY <1>2 DEF Take
<1>4. inv' = [inv EXCEPT ![p] = Take(inv[p], i, inv[p][i].n)] BY <1>3
<1>5. inv[p][i].n <= inv[p][i].n BY <1>2
<1> QED BY <1>2, <1>4, <1>5, InvTake

LEMMA InvPut ==
  ASSUME ItemsInv, StockInv, NEW p \in Players, NEW it \in Items, it.n > 0, ~NoRoom(p, it),
         SingleOK(it, weapons), inv' = [inv EXCEPT ![p] = Put(inv[p], it)]
  PROVE  /\ \A w \in Kinds :
              /\ IsFiniteSet(Stock(inv', w))
              /\ Cardinality(Stock(inv', w)) <= Cardinality(Stock(inv, w)) + One(it, w)
         /\ SinglesHeld(inv', weapons)
<1> DEFINE r == Put(inv[p], it)
<1>1. /\ inv \in Lists /\ inv[p] \in Seq(Items) /\ Len(inv[p]) <= MaxLen /\ Len(inv[p]) <= Carry
      /\ Carry <= MaxLen /\ MaxLen \in Nat /\ Carry \in Nat
  BY HeldAre, Sizes
<1>2. r \in Seq(Items) /\ Len(r) <= Carry
  <2>1. blanks[p] \in Nat /\ inventoryUse(p) = Len(inv[p]) + blanks[p] BY CarriedIs DEF inventoryUse
  <2>2. /\ r \in Seq(Items) /\ (Len(r) = Len(inv[p]) \/ Len(r) = Len(inv[p]) + 1)
        /\ Len(r) > Len(inv[p]) => (IsTool(it) => ToolStack(inv[p]) = {})
    BY <1>1, PutIs
  <2>3. Len(inv[p]) \in Nat /\ Len(r) \in Nat BY <1>1, <2>2
  <2>4. Len(r) > Len(inv[p]) => inventoryUse(p) < Carry
    <3>1. inventoryUse(p) \in Nat BY <2>1, <2>3
    <3> QED BY <1>1, <2>2, <3>1 DEF NoRoom
  <2> HIDE DEF r
  <2> QED BY <1>1, <2>1, <2>2, <2>3, <2>4
<1>3. inv' = [inv EXCEPT ![p] = r] BY <1>1 DEF Lists
<1>9. Len(Put(inv[p], it)) <= MaxLen
  <2>1. Len(r) \in Nat BY <1>2
  <2> HIDE DEF r
  <2>2. Len(r) <= MaxLen BY <1>1, <1>2, <2>1
  <2> QED BY <2>2 DEF r
<1> HIDE DEF r
<1>4. inv' \in Lists /\ Becomes(inv, p, r, inv') BY <1>1, <1>2, <1>3, Became
<1>5. Becomes(inv, p, Put(inv[p], it), inv') BY <1>4 DEF r
<1>6. ASSUME NEW w \in Kinds
      PROVE  /\ IsFiniteSet(Stock(inv', w))
             /\ Cardinality(Stock(inv', w)) <= Cardinality(Stock(inv, w)) + One(it, w)
  <2>1. IsFiniteSet(Stock(inv, w)) BY StockNow
  <2> QED BY <1>1, <1>4, <1>5, <1>9, <2>1, StockPut DEF One
<1>7. Singles(inv[p], weapons) /\ SinglesHeld(inv, weapons) BY StockNow DEF SinglesHeld
<1>8. Singles(r, weapons) BY <1>1, <1>7, SinglesPut DEF r
<1>10. SinglesHeld(inv', weapons) BY <1>4, <1>7, <1>8, SinglesBecome
<1> QED BY <1>6, <1>10

\* The floor gets the thing.
LEMMA FloorLaid ==
  ASSUME ItemsInv, NEW it \in Items, it.id # 0, it.n > 0, Lay(it), blanked' = blanked
  PROVE  /\ \A w : Cardinality(Lying(floor', w)) <= Cardinality(Lying(floor, w)) + One(it, w)
         /\ \A wp : SinglesLie(floor, wp) /\ SingleOK(it, wp) => SinglesLie(floor', wp)
<1>1. FloorOK(floor, list, blanked) /\ floor \in [Slots -> Items] BY DEF ItemsInv, FloorOK, FloorFits
<1>2. PICK s \in Slots : floor' = [floor EXCEPT ![s] = it] BY <1>1, LayIs
<1>3. ASSUME NEW w PROVE Cardinality(Lying(floor', w)) <= Cardinality(Lying(floor, w)) + One(it, w)
  <2>1. Cardinality(Lying(floor', w)) + One(floor[s], w) <= Cardinality(Lying(floor, w)) + One(it, w)
    BY <1>1, <1>2, LyingMoves
  <2>2. /\ One(floor[s], w) \in Nat /\ One(it, w) \in Nat
        /\ Cardinality(Lying(floor', w)) \in Nat /\ Cardinality(Lying(floor, w)) \in Nat
    BY <1>1, ItemIs, LyingFinite DEF One
  <2> QED BY <2>1, <2>2
<1>4. \A t \in Slots : floor'[t] = it \/ floor'[t] = floor[t] BY <1>1, <1>2
<1> QED BY <1>3, <1>4 DEF SinglesLie

LEMMA FloorLifted ==
  ASSUME ItemsInv, NEW s \in Slots
  PROVE  /\ \A w : Cardinality(Lying([floor EXCEPT ![s] = NoItem], w)) + One(floor[s], w)
                     <= Cardinality(Lying(floor, w))
         /\ \A wp : SinglesLie(floor, wp) => SinglesLie([floor EXCEPT ![s] = NoItem], wp)
<1> DEFINE g == [floor EXCEPT ![s] = NoItem]
<1>1. floor \in [Slots -> Items] BY DEF ItemsInv, FloorOK, FloorFits
<1>2. NoItem \in Items /\ NoItem.n = 0 /\ NoItem.serial = None BY NothingIs DEF NoItem, Tool
<1>3. \A t \in Slots : g[t] = NoItem \/ g[t] = floor[t] BY <1>1
<1>4. ASSUME NEW w PROVE Cardinality(Lying(g, w)) + One(floor[s], w) <= Cardinality(Lying(floor, w))
  <2> HIDE DEF g
  <2>1. Cardinality(Lying(g, w)) + One(floor[s], w) <= Cardinality(Lying(floor, w)) + One(NoItem, w)
    BY <1>1, <1>2, LyingMoves DEF g
  <2>2. One(NoItem, w) = 0 BY <1>2 DEF One
  <2>3. Cardinality(Lying(floor, w)) \in Nat BY LyingFinite
  <2> QED BY <2>1, <2>2, <2>3
<1> HIDE DEF g
<1>5. \A wp : SinglesLie(floor, wp) => SinglesLie(g, wp) BY <1>2, <1>3 DEF SinglesLie, SingleOK
<1> QED BY <1>4, <1>5 DEF g

\* Things only change places.
LEMMA StockMoved ==
  ASSUME StockInv, UNCHANGED made, tekked' = tekked, \A w \in Kinds : CountsTo(w, 0),
         SinglesLie(floor', weapons), SinglesHeld(inv', weapons), SinglesHeld(bank', weapons)
  PROVE  StockNext
<1>1. weapons' = weapons /\ tools' = tools /\ teks' = teks BY DEF made
<1>2. AllSingles(floor', inv', bank', tekked', weapons') BY <1>1, StockNow DEF AllSingles
<1> QED BY <1>1, <1>2, StockLess

\* One goes, and nothing else happens.
LEMMA GoneStock ==
  ASSUME StockInv, NEW p \in Players, Go(p, floor, list), inv' = inv, bank' = bank,
         UNCHANGED <<tekked, made>>
  PROVE  StockNext
<1>1. \A w : Cardinality(Lying(floor', w)) <= Cardinality(Lying(floor, w)) BY GoLies
<1>2. SinglesLie(floor', weapons) BY GoLies, StockNow
<1>3. SinglesHeld(inv', weapons) /\ SinglesHeld(bank', weapons) BY StockNow
<1>4. ASSUME NEW w \in Kinds PROVE CountsTo(w, 0)
  <2>1. /\ IsFiniteSet(Stock(inv', w)) /\ IsFiniteSet(Stock(bank', w))
        /\ Cardinality(Stock(inv, w)) \in Nat /\ Cardinality(Stock(bank, w)) \in Nat
        /\ Cardinality(Lying(floor, w)) \in Nat
    BY StockNow
  <2>2. /\ Cardinality(Lying(floor', w)) <= Cardinality(Lying(floor, w)) + 0
        /\ Cardinality(Stock(inv', w)) <= Cardinality(Stock(inv, w)) + 0
        /\ Cardinality(Stock(bank', w)) <= Cardinality(Stock(bank, w)) + 0
    BY <1>1, <2>1
  <2> QED BY <2>1, <2>2, CountsBy
<1> QED BY <1>2, <1>3, <1>4, StockMoved

LEMMA LeaveStock ==
  ASSUME StockInv, NEW p \in Players, Leave(p)
  PROVE  StockNext
BY GoneStock DEF Leave, pack

\* What p has less of is what lies there more, or it is gone.
LEMMA TakenStock ==
  ASSUME StockInv, NEW p \in Players, NEW i, NEW n \in Nat, InvTaken(p, i, n), SinglesHeld(inv', weapons),
         bank' = bank, UNCHANGED <<tekked, made>>, SinglesLie(floor', weapons),
         \A w \in Kinds : Cardinality(Lying(floor', w))
                            <= Cardinality(Lying(floor, w)) + (IF inv[p][i].serial = w THEN n ELSE 0)
  PROVE  StockNext
<1>1. SinglesHeld(bank', weapons) BY StockNow
<1>2. ASSUME NEW w \in Kinds PROVE CountsTo(w, 0)
  <2> DEFINE m == IF inv[p][i].serial = w THEN n ELSE 0
  <2>1. m \in Int /\ 0 - m \in Int OBVIOUS
  <2>2. /\ IsFiniteSet(Stock(inv', w)) /\ Cardinality(Stock(inv', w)) + m <= Cardinality(Stock(inv, w))
        /\ Cardinality(Lying(floor', w)) <= Cardinality(Lying(floor, w)) + m
    BY DEF InvTaken
  <2>3. /\ IsFiniteSet(Stock(bank', w))
        /\ Cardinality(Stock(inv, w)) \in Nat /\ Cardinality(Stock(bank, w)) \in Nat
    BY StockNow
  <2> HIDE DEF m
  <2>4. Cardinality(Stock(inv', w)) \in Nat BY <2>2, FS_CardinalityType
  <2>5. /\ Cardinality(Stock(inv', w)) <= Cardinality(Stock(inv, w)) + (0 - m)
        /\ Cardinality(Stock(bank', w)) <= Cardinality(Stock(bank, w)) + 0
        /\ m + (0 - m) + 0 <= 0
    BY <2>1, <2>2, <2>3, <2>4
  <2>6. 0 \in Int OBVIOUS
  <2> QED BY <2>1, <2>2, <2>3, <2>5, <2>6, CountsBy
<1> QED BY <1>1, <1>2, StockMoved

LEMMA DropStock ==
  ASSUME ItemsInv, StockInv, doubled = 0, NEW p \in Players, NEW i \in 1 .. Len(inv[p]), Drop(p, i)
  PROVE  StockNext
<1> DEFINE it == inv[p][i]
<1>1. it \in Items /\ it.n > 0 /\ it.id # 0 /\ it.n \in Nat
  <2>1. Here(p) BY DEF Drop
  <2> QED BY <2>1, CarriedIs, ItemIs
<1>2. InvTaken(p, i, it.n) /\ SinglesHeld(inv', weapons)
  <2>1. inv[p] \in Seq(Items) BY CarriedIs
  <2>2. RemoveAt(inv[p], i) \in Seq(Items) BY <2>1, WithoutIs
  <2>3. CleanUp(p, RemoveAt(inv[p], i)) BY DEF Drop
  <2>4. inv' = [inv EXCEPT ![p] = RemoveAt(inv[p], i)] BY <2>2, <2>3, CleanIs
  <2> QED BY <2>4, InvWithout
<1>3. Lay(it) /\ bank' = bank /\ UNCHANGED <<tekked, made>> /\ blanked' = blanked BY DEF Drop
<1>4. SingleOK(it, weapons) /\ SinglesLie(floor, weapons) BY StockNow DEF SinglesHeld, Singles
<1>5. \A w : Cardinality(Lying(floor', w)) <= Cardinality(Lying(floor, w)) + One(it, w)
  BY <1>1, <1>3, FloorLaid
<1>6. SinglesLie(floor', weapons) BY <1>1, <1>3, <1>4, FloorLaid
<1>7. \A w \in Kinds : Cardinality(Lying(floor', w))
                            <= Cardinality(Lying(floor, w)) + (IF inv[p][i].serial = w THEN it.n ELSE 0)
  BY <1>5 DEF One
<1> HIDE DEF it
<1> QED BY <1>1, <1>2, <1>3, <1>6, <1>7, TakenStock

LEMMA DropSomeStock ==
  ASSUME ItemsInv, StockInv, doubled = 0, NEW p \in Players, NEW i \in 1 .. Len(inv[p]), NEW n \in 1 .. MaxBuy,
         DropSome(p, i, n)
  PROVE  StockNext
<1> DEFINE id == playerItemID[seat[p]]
           it == Tool(id, n)
<1>1. /\ Here(p) /\ IsTool(inv[p][i]) /\ bank' = bank /\ UNCHANGED <<tekked, made>>
      /\ \/ Go(p, floor, list) /\ CleanUp(p, inv[p])
         \/ n <= inv[p][i].n /\ Lay(it) /\ CleanUp(p, Take(inv[p], i, n)) /\ blanked' = blanked
  <2>1. inv[p][i].n \in Nat BY CarriedIs, ItemIs
  <2> QED BY <2>1 DEF DropSome
<1>2. CASE Go(p, floor, list) /\ CleanUp(p, inv[p])
  <2>1. inv' = inv BY <1>2, CarriedIs, CleanIs
  <2> QED BY <1>1, <1>2, <2>1, GoneStock
<1>3. CASE n <= inv[p][i].n /\ Lay(it) /\ CleanUp(p, Take(inv[p], i, n)) /\ blanked' = blanked
  <2>1. n \in Nat \ {0} /\ n \in Nat /\ n \in 0 .. MaxBuy BY Sizes
  <2>2. InvTaken(p, i, n) /\ SinglesHeld(inv', weapons) BY <1>3, <2>1, TakenBy
  <2>3. id \in Nat /\ id # 0 BY <1>1, NextIdIs
  <2>4. it \in Items /\ it.id # 0 /\ it.n = n /\ it.serial = None BY <2>1, <2>3, ToolIs
  <2> HIDE DEF it
  <2>5. it.n > 0 /\ SingleOK(it, weapons) BY <2>1, <2>4 DEF SingleOK
  <2>6. \A w : Cardinality(Lying(floor', w)) <= Cardinality(Lying(floor, w)) + One(it, w)
    BY <1>3, <2>4, <2>5, FloorLaid
  <2>7. SinglesLie(floor', weapons) BY <1>3, <2>4, <2>5, FloorLaid, StockNow
  <2>8. \A w : One(it, w) = IF inv[p][i].serial = w THEN n ELSE 0 BY <1>1, <2>4 DEF One, IsTool
  <2>9. \A w \in Kinds : Cardinality(Lying(floor', w))
                            <= Cardinality(Lying(floor, w)) + (IF inv[p][i].serial = w THEN n ELSE 0)
    BY <2>6, <2>8
  <2> QED BY <1>1, <2>1, <2>2, <2>7, <2>9, TakenStock
<1> QED BY <1>1, <1>2, <1>3

LEMMA DeleteStock ==
  ASSUME ItemsInv, StockInv, doubled = 0, NEW p \in Players, NEW i \in 1 .. Len(inv[p]), NEW n \in 1 .. MaxBuy,
         Delete(p, i, n)
  PROVE  StockNext
<1>1. /\ bank' = bank /\ UNCHANGED <<tekked, made>>
      /\ \/ Go(p, floor, list) /\ CleanUp(p, inv[p])
         \/ n <= inv[p][i].n /\ floor' = floor /\ CleanUp(p, Take(inv[p], i, n))
  <2>1. inv[p][i].n \in Nat BY CarriedIs, ItemIs
  <2> QED BY <2>1 DEF Delete, Stay
<1>2. CASE Go(p, floor, list) /\ CleanUp(p, inv[p])
  <2>1. inv' = inv BY <1>2, CarriedIs, CleanIs
  <2> QED BY <1>1, <1>2, <2>1, GoneStock
<1>3. CASE n <= inv[p][i].n /\ floor' = floor /\ CleanUp(p, Take(inv[p], i, n))
  <2>1. n \in Nat \ {0} /\ n \in Nat BY Sizes
  <2>2. InvTaken(p, i, n) /\ SinglesHeld(inv', weapons) BY <1>3, <2>1, TakenBy
  <2>3. SinglesLie(floor', weapons) BY <1>3, StockNow
  <2>4. \A w \in Kinds : Cardinality(Lying(floor', w))
                            <= Cardinality(Lying(floor, w)) + (IF inv[p][i].serial = w THEN n ELSE 0)
    <3>1. \A w \in Kinds : Cardinality(Lying(floor, w)) \in Nat BY StockNow
    <3> QED BY <1>3, <2>1, <3>1
  <2> QED BY <1>1, <2>1, <2>2, <2>3, <2>4, TakenStock
<1> QED BY <1>1, <1>2, <1>3

LEMMA SortStock ==
  ASSUME ItemsInv, StockInv, NEW p \in Players, NEW order \in SeqOf(Answers(p), Carry),
         Sort(p, order), doubled = 0, doubled' = 0
  PROVE  StockNext
<1> DEFINE named == [k \in 1 .. Len(order) |-> inv[p][order[k]]]
           m == Least(Len(order), inventoryUse(p))
           r == SubSeq(named, 1, m)
<1>1. inv \in Lists /\ inv[p] \in Seq(Items) /\ Len(inv[p]) <= MaxLen /\ Carry <= MaxLen BY HeldAre
<1>2. bank' = bank /\ floor' = floor /\ UNCHANGED <<tekked, made>> BY DEF Sort, game
<1>3. /\ named \in Seq(Items) /\ Len(named) = Len(order) /\ m = Len(named)
      /\ inv' = [inv EXCEPT ![p] = r]
  BY SortedIs
<1>4. Len(order) \in Nat /\ Len(order) <= Carry /\ order \in [1 .. Len(order) -> 1 .. Len(inv[p])]
  BY OrderIs
<1>5. \A j, k \in 1 .. Len(order) : order[j] = order[k] => j = k BY DEF Sort
<1>6. \A k \in 1 .. Len(order) : named[k] = inv[p][order[k]] OBVIOUS
<1>7. r = named
  <2> HIDE DEF named, m
  <2>1. r = SubSeq(named, 1, Len(named)) BY <1>3
  <2> HIDE DEF r
  <2> QED BY <1>3, <2>1
<1> HIDE DEF named, m, r
<1>8. /\ r \in Seq(Items) /\ Len(r) = Len(order) /\ Len(r) <= MaxLen
      /\ \A k \in 1 .. Len(r) : order[k] \in 1 .. Len(inv[p]) /\ r[k] = inv[p][order[k]]
      /\ \A j, k \in 1 .. Len(r) : order[j] = order[k] => j = k
  <2>1. MaxLen \in Nat /\ Carry \in Nat BY Sizes DEF MaxLen
  <2> QED BY <1>1, <1>3, <1>4, <1>5, <1>6, <1>7, <2>1
<1>9. inv' \in Lists /\ Becomes(inv, p, r, inv') BY <1>1, <1>3, <1>8, Became
<1>10. ASSUME NEW w \in Kinds PROVE CountsTo(w, 0)
  <2>1. /\ IsFiniteSet(Stock(inv, w)) /\ IsFiniteSet(Stock(bank', w))
        /\ Cardinality(Stock(inv, w)) \in Nat /\ Cardinality(Stock(bank, w)) \in Nat
        /\ Cardinality(Lying(floor, w)) \in Nat
    BY <1>2, StockNow
  <2>2. IsFiniteSet(Stock(inv', w)) /\ Cardinality(Stock(inv', w)) <= Cardinality(Stock(inv, w))
    BY <1>1, <1>8, <1>9, <2>1, StockPicked
  <2>3. Cardinality(Stock(inv', w)) \in Nat BY <2>2, FS_CardinalityType
  <2>4. /\ Cardinality(Lying(floor', w)) <= Cardinality(Lying(floor, w)) + 0
        /\ Cardinality(Stock(inv', w)) <= Cardinality(Stock(inv, w)) + 0
        /\ Cardinality(Stock(bank', w)) <= Cardinality(Stock(bank, w)) + 0
    BY <1>2, <2>1, <2>2, <2>3
  <2> QED BY <2>1, <2>2, <2>4, CountsBy
<1>11. SinglesHeld(inv, weapons) /\ SinglesHeld(bank', weapons) /\ SinglesLie(floor', weapons)
  BY <1>2, StockNow
<1>12. Singles(r, weapons)
  <2>1. Singles(inv[p], weapons) BY <1>11 DEF SinglesHeld
  <2> QED BY <1>8, <2>1, SinglesPicked
<1>13. SinglesHeld(inv', weapons) BY <1>9, <1>11, <1>12, SinglesBecome
<1> QED BY <1>2, <1>10, <1>11, <1>13, StockMoved

\* What p gets is what lies there no more.
LEMMA PickUpStock ==
  ASSUME ItemsInv, StockInv, NEW p \in Players, NEW id, id # 0, PickUp(p, id)
  PROVE  StockNext
<1>1. PICK i \in 1 .. Len(list) :
        /\ list[i] \in Slots /\ floor[list[i]] \in Items /\ floor[list[i]].n > 0
        /\ \/ Go(p, floor, list) /\ inv' = inv
           \/ /\ inv' = [inv EXCEPT ![p] = Put(inv[p], floor[list[i]])]
              /\ ~NoRoom(p, floor[list[i]])
              /\ Stay([floor EXCEPT ![list[i]] = NoItem], RemoveAt(list, i))
  BY PickUpIs DEF Gets, pack
<1>2. bank' = bank /\ UNCHANGED <<tekked, made>> BY DEF PickUp
<1> DEFINE it == floor[list[i]]
           g == [floor EXCEPT ![list[i]] = NoItem]
<1>3. CASE Go(p, floor, list) /\ inv' = inv BY <1>2, <1>3, GoneStock
<1>4. CASE inv' = [inv EXCEPT ![p] = Put(inv[p], it)] /\ ~NoRoom(p, it) /\ floor' = g
  <2>1. it \in Items /\ it.n > 0 BY <1>1
  <2>2. SinglesLie(floor, weapons) /\ SinglesHeld(bank', weapons) BY <1>2, StockNow
  <2>3. SingleOK(it, weapons) BY <1>1, <2>2 DEF SinglesLie
  <2>4. /\ \A w : Cardinality(Lying(g, w)) + One(it, w) <= Cardinality(Lying(floor, w))
        /\ SinglesLie(g, weapons)
    BY <1>1, <2>2, FloorLifted
  <2> HIDE DEF it, g
  <2>5. /\ \A w \in Kinds :
              /\ IsFiniteSet(Stock(inv', w))
              /\ Cardinality(Stock(inv', w)) <= Cardinality(Stock(inv, w)) + One(it, w)
        /\ SinglesHeld(inv', weapons)
    BY <1>4, <2>1, <2>3, InvPut
  <2>6. ASSUME NEW w \in Kinds PROVE CountsTo(w, 0)
    <3> DEFINE m == One(it, w)
    <3>1. m \in Int /\ 0 - m \in Int /\ 0 \in Int BY <2>1, ItemIs DEF One
    <3>2. /\ IsFiniteSet(Stock(inv', w)) /\ Cardinality(Stock(inv', w)) <= Cardinality(Stock(inv, w)) + m
          /\ Cardinality(Lying(floor', w)) + m <= Cardinality(Lying(floor, w))
      BY <1>4, <2>4, <2>5
    <3>3. /\ IsFiniteSet(Stock(bank', w)) /\ Cardinality(Stock(bank, w)) \in Nat
          /\ Cardinality(Lying(floor, w)) \in Nat
      BY <1>2, StockNow
    <3>4. Cardinality(Lying(floor', w)) \in Nat BY LyingFinite
    <3> HIDE DEF m
    <3>5. /\ Cardinality(Lying(floor', w)) <= Cardinality(Lying(floor, w)) + (0 - m)
          /\ Cardinality(Stock(bank', w)) <= Cardinality(Stock(bank, w)) + 0
          /\ (0 - m) + m + 0 <= 0
      BY <1>2, <3>1, <3>2, <3>3, <3>4
    <3> QED BY <3>1, <3>2, <3>3, <3>5, CountsBy
  <2>7. SinglesLie(floor', weapons) BY <1>4, <2>4
  <2> QED BY <1>2, <2>2, <2>5, <2>6, <2>7, StockMoved
<1> QED BY <1>1, <1>3, <1>4 DEF Stay

LEMMA BuyStock ==
  ASSUME ItemsInv, StockInv, NEW p \in Players, NEW count \in 0 .. MaxBuy, Buy(p, count)
  PROVE  StockNext
<1> DEFINE n == IF count = 0 THEN 1 ELSE count
           id == playerItemID[seat[p]]
           it == Tool(id, n)
<1>0. inv \in [Players -> Seq(Items)] BY DEF ItemsInv, HeldOK
<1>1. /\ Here(p) /\ bank' = bank /\ tekked' = tekked /\ weapons' = weapons /\ teks' = teks
      /\ tools' = tools + n
      /\ \/ Go(p, floor, list) /\ inv' = inv
         \/ ~NoRoom(p, it) /\ inv' = [inv EXCEPT ![p] = Put(inv[p], it)] /\ floor' = floor
  BY <1>0 DEF Buy, Stay, Gets, pack
<1>2. n \in Nat /\ n > 0 /\ n \in 0 .. MaxBuy /\ n \in Int /\ 0 \in Int BY Sizes
<1> HIDE DEF n
<1>3. id \in Nat /\ id # 0 BY <1>1, NextIdIs
<1>4. it \in Items /\ it.n = n /\ it.serial = None BY <1>2, <1>3, ToolIs
<1> HIDE DEF it
<1>5. it.n > 0 /\ SingleOK(it, weapons) BY <1>2, <1>4 DEF SingleOK
<1>6. /\ \A w \in Kinds :
           /\ IsFiniteSet(Stock(inv', w)) /\ Cardinality(Stock(inv', w)) <= Cardinality(Stock(inv, w)) + One(it, w)
      /\ SinglesHeld(inv', weapons)
  <2>1. CASE inv' = inv
    <3>1. \A w : One(it, w) \in Nat BY <1>2, <1>4 DEF One
    <3> QED BY <2>1, <3>1, StockNow
  <2>2. CASE ~NoRoom(p, it) /\ inv' = [inv EXCEPT ![p] = Put(inv[p], it)]
    BY <1>4, <1>5, <2>2, InvPut
  <2> QED BY <1>1, <2>1, <2>2
<1>7. /\ \A w \in Kinds : Cardinality(Lying(floor', w)) <= Cardinality(Lying(floor, w))
      /\ SinglesLie(floor', weapons)
  <2>1. CASE Go(p, floor, list) BY <2>1, GoLies, StockNow
  <2>2. CASE floor' = floor BY <2>2, StockNow
  <2> QED BY <1>1, <2>1, <2>2
<1>8. ASSUME NEW w \in Kinds PROVE CountsTo(w, One(it, w))
  <2> DEFINE m == One(it, w)
  <2>1. m \in Int BY <1>2, <1>4 DEF One
  <2>2. /\ IsFiniteSet(Stock(inv', w)) /\ Cardinality(Stock(inv', w)) <= Cardinality(Stock(inv, w)) + m
        /\ Cardinality(Lying(floor', w)) <= Cardinality(Lying(floor, w))
    BY <1>6, <1>7
  <2>3. /\ IsFiniteSet(Stock(bank', w)) /\ Cardinality(Stock(bank, w)) \in Nat
        /\ Cardinality(Lying(floor, w)) \in Nat
    BY <1>1, StockNow
  <2> HIDE DEF m
  <2>4. /\ Cardinality(Lying(floor', w)) <= Cardinality(Lying(floor, w)) + 0
        /\ Cardinality(Stock(bank', w)) <= Cardinality(Stock(bank, w)) + 0
        /\ 0 + m + 0 <= m
    BY <1>1, <2>1, <2>2, <2>3
  <2>5. CountsTo(w, m) BY <1>2, <2>1, <2>2, <2>3, <2>4, CountsBy
  <2> QED BY <2>5 DEF m
<1>9. CountsTo(None, n) /\ \A w \in Nat : CountsTo(w, 0)
  <2>1. One(it, None) = n /\ \A w \in Nat : One(it, w) = 0 BY <1>4, Sizes DEF One
  <2> QED BY <1>8, <2>1 DEF Kinds
<1>10. AllSingles(floor', inv', bank', tekked', weapons') BY <1>1, <1>6, <1>7, StockNow DEF AllSingles
<1>11. \A q \in Players : tekked'[q] = NoItem \/ tekked'[q] = tekked[q] BY <1>1
<1> QED BY <1>1, <1>2, <1>9, <1>10, <1>11, StockMore

LEMMA JoinStock ==
  ASSUME ItemsInv, StockInv, NEW p \in Players, Join(p)
  PROVE  StockNext
<1>1. PICK next, c, r : JoinsAs(p, next, c, r) BY JoinIs
<1>2. /\ r \in Seq(Items) /\ inv' = [inv EXCEPT ![p] = r] /\ Len(r) = Len(inv[p])
      /\ \A i \in 1 .. Len(r) : r[i] = [inv[p][i] EXCEPT !.id = next[c] + i - 1]
  BY <1>1 DEF JoinsAs
<1>3. bank' = bank /\ floor' = floor /\ tekked' = [tekked EXCEPT ![p] = NoItem] /\ UNCHANGED made
  BY DEF Join
<1>4. /\ inv \in Lists /\ inv[p] \in Seq(Items) /\ Len(inv[p]) <= MaxLen
      /\ \A i \in 1 .. Len(inv[p]) : inv[p][i] \in Items
  BY HeldAre
<1>5. \A i \in 1 .. Len(r) : r[i].serial = inv[p][i].serial /\ r[i].n = inv[p][i].n
  BY <1>2, <1>4 DEF Items
<1>6. inv' \in Lists /\ Becomes(inv, p, r, inv') BY <1>2, <1>4, Became
<1>7. ASSUME NEW w \in Kinds PROVE CountsTo(w, 0)
  <2>1. /\ IsFiniteSet(Stock(inv, w)) /\ IsFiniteSet(Stock(bank', w))
        /\ Cardinality(Stock(inv, w)) \in Nat /\ Cardinality(Stock(bank, w)) \in Nat
        /\ Cardinality(Lying(floor, w)) \in Nat
    BY <1>3, StockNow
  <2>2. IsFiniteSet(Stock(inv', w)) /\ Cardinality(Stock(inv', w)) <= Cardinality(Stock(inv, w))
    BY <1>2, <1>4, <1>5, <1>6, <2>1, StockNamed
  <2>3. Cardinality(Stock(inv', w)) \in Nat BY <2>2, FS_CardinalityType
  <2>4. /\ Cardinality(Lying(floor', w)) <= Cardinality(Lying(floor, w)) + 0
        /\ Cardinality(Stock(inv', w)) <= Cardinality(Stock(inv, w)) + 0
        /\ Cardinality(Stock(bank', w)) <= Cardinality(Stock(bank, w)) + 0
    BY <1>3, <2>1, <2>2, <2>3
  <2>5. 0 \in Int OBVIOUS
  <2> QED BY <2>1, <2>2, <2>4, <2>5, CountsBy
<1>8. SinglesHeld(inv, weapons) /\ SinglesHeld(bank', weapons) /\ SinglesLie(floor', weapons)
      /\ SinglesOffered(tekked, weapons)
  BY <1>3, StockNow
<1>9. Singles(r, weapons) BY <1>2, <1>5, <1>8 DEF Singles, SingleOK, SinglesHeld
<1>10. SinglesHeld(inv', weapons) BY <1>6, <1>8, <1>9, SinglesBecome
<1>11. \A q \in Players : tekked'[q] = NoItem \/ tekked'[q] = tekked[q]
  <2>1. tekked \in [Players -> Items] BY HeldAre
  <2> QED BY <1>3, <2>1
<1>12. NoItem.id = 0 /\ NoItem.serial = None BY DEF NoItem, Tool
<1>13. SinglesOffered(tekked', weapons) BY <1>8, <1>11, <1>12 DEF SinglesOffered, SingleOK
<1>14. weapons' = weapons /\ tools' = tools /\ teks' = teks BY <1>3 DEF made
<1>15. AllSingles(floor', inv', bank', tekked', weapons') BY <1>8, <1>10, <1>13, <1>14 DEF AllSingles
<1> QED BY <1>7, <1>11, <1>14, <1>15, StockLess

LEMMA SizedAs ==
  ASSUME NEW it \in Items, NEW n \in 1 .. MaxBuy, NEW has, has = IF it.n = 0 THEN 1 ELSE it.n
  PROVE  has = Size(it) /\ has \in Nat /\ has >= 1 /\ has <= MaxBuy /\ n \in Nat /\ n >= 1
BY ItemIs, Sizes DEF Size

\* What p banks is what it has no more.
LEMMA DepositStock ==
  ASSUME ItemsInv, StockInv, doubled = 0, NEW p \in Players, NEW i \in 1 .. Len(inv[p]), NEW n \in 1 .. MaxBuy,
         Deposit(p, i, n)
  PROVE  StockNext
<1> DEFINE it == inv[p][i]
           x == [it EXCEPT !.id = 0, !.n = n]
           r == Put(bank[p], x)
           u == SortBankItems(r)
           M == [bank EXCEPT ![p] = r]
<1>0. /\ it \in Items /\ it.n \in Nat /\ n \in Nat \ {0} /\ n \in 0 .. MaxBuy /\ n \in Nat /\ n > 0
  <2>1. it \in Items BY CarriedIs
  <2>2. it.n \in Nat BY <2>1, ItemIs
  <2> HIDE DEF it
  <2> QED BY <2>1, <2>2, Sizes
<1>1. /\ UNCHANGED <<tekked, made>>
      /\ \/ Go(p, floor, list) /\ (inv' = inv \/ CleanUp(p, inv[p])) /\ bank' = bank
         \/ /\ n <= it.n /\ ~(Len(bank[p]) >= BankSize) /\ CleanUp(p, Take(inv[p], i, n))
            /\ bank' = [bank EXCEPT ![p] = SortBankItems(Put(@, x))] /\ floor' = floor
  BY <1>0 DEF Deposit, Stay, pack
<1>2. CASE Go(p, floor, list) /\ (inv' = inv \/ CleanUp(p, inv[p])) /\ bank' = bank
  <2>1. inv' = inv BY <1>2, CarriedIs, CleanIs
  <2> QED BY <1>1, <1>2, <2>1, GoneStock
<1>3. CASE /\ n <= it.n /\ ~(Len(bank[p]) >= BankSize) /\ CleanUp(p, Take(inv[p], i, n))
           /\ bank' = [bank EXCEPT ![p] = SortBankItems(Put(@, x))] /\ floor' = floor
  <2>1. InvTaken(p, i, n) /\ SinglesHeld(inv', weapons) BY <1>0, <1>3, TakenBy
  <2>2. x \in Items /\ x.n = n /\ x.serial = it.serial
    <3>1. 0 \in Nat OBVIOUS
    <3> HIDE DEF it
    <3> QED BY <1>0, <3>1 DEF Items
  <2>3. SingleOK(it, weapons) /\ SinglesHeld(bank, weapons) /\ SinglesLie(floor', weapons)
    BY <1>3, StockNow DEF SinglesHeld, Singles
  <2>4. SingleOK(x, weapons) BY <1>0, <1>3, <2>2, <2>3 DEF SingleOK
  <2> HIDE DEF x
  <2>5. /\ bank \in Lists /\ bank[p] \in Seq(Items) /\ Len(bank[p]) \in Nat /\ Len(bank[p]) <= MaxLen
        /\ BankSize <= MaxLen /\ BankSize \in Nat /\ MaxLen \in Nat
    BY HeldAre, Sizes
  <2>6. r \in Seq(Items) /\ Len(r) <= Len(bank[p]) + 1 BY <1>0, <2>2, <2>5, PutIs
  <2>7. bank' = [bank EXCEPT ![p] = u] BY <1>3, <2>5 DEF Lists
  <2>8. Singles(r, weapons) BY <2>2, <2>3, <2>4, <2>5, SinglesPut DEF SinglesHeld
  <2> HIDE DEF r, u, M
  <2>9. Len(r) <= MaxLen
    <3>1. Len(r) \in Nat BY <2>6
    <3> QED BY <1>3, <2>5, <2>6, <3>1
  <2>10. M \in Lists /\ Becomes(bank, p, r, M) BY <2>5, <2>6, Became DEF M
  <2>11. Becomes(bank, p, Put(bank[p], x), M) /\ Len(Put(bank[p], x)) <= MaxLen BY <2>9, <2>10 DEF r
  <2>12. u \in Seq(Items) BY <2>6, SortIs DEF u
  <2>13. bank' \in Lists /\ Becomes(bank, p, u, bank') BY <2>5, <2>7, <2>12, Became
  <2>14. Becomes(M, p, SortBankItems(M[p]), bank')
    <3>1. M[p] = r /\ u = SortBankItems(r) BY <2>10 DEF Becomes, u
    <3> QED BY <2>10, <2>13, <3>1 DEF Becomes
  <2>15. Len(M[p]) <= MaxLen BY <2>9, <2>10 DEF Becomes
  <2>16. ASSUME NEW w \in Kinds PROVE CountsTo(w, 0)
    <3> DEFINE m == IF it.serial = w THEN n ELSE 0
    <3>1. m \in Int /\ 0 - m \in Int /\ 0 \in Int BY <1>0
    <3>2. /\ IsFiniteSet(Stock(bank, w)) /\ Cardinality(Stock(inv, w)) \in Nat
          /\ Cardinality(Stock(bank, w)) \in Nat /\ Cardinality(Lying(floor, w)) \in Nat
      BY StockNow
    <3>3. IsFiniteSet(Stock(inv', w)) /\ Cardinality(Stock(inv', w)) + m <= Cardinality(Stock(inv, w))
      BY <2>1 DEF InvTaken
    <3>4. /\ IsFiniteSet(Stock(M, w))
          /\ Cardinality(Stock(M, w)) <= Cardinality(Stock(bank, w)) + m
      BY <1>0, <2>2, <2>5, <2>10, <2>11, <3>2, StockPut
    <3>5. IsFiniteSet(Stock(bank', w)) /\ Cardinality(Stock(bank', w)) <= Cardinality(Stock(M, w))
      BY <2>10, <2>13, <2>14, <2>15, <3>4, StockSort
    <3>6. /\ Cardinality(Stock(inv', w)) \in Nat /\ Cardinality(Stock(M, w)) \in Nat
          /\ Cardinality(Stock(bank', w)) \in Nat
      BY <3>3, <3>4, <3>5, FS_CardinalityType
    <3> HIDE DEF m
    <3>7. /\ Cardinality(Lying(floor', w)) <= Cardinality(Lying(floor, w)) + 0
          /\ Cardinality(Stock(inv', w)) <= Cardinality(Stock(inv, w)) + (0 - m)
          /\ Cardinality(Stock(bank', w)) <= Cardinality(Stock(bank, w)) + m
          /\ 0 + (0 - m) + m <= 0
      BY <1>3, <3>1, <3>2, <3>3, <3>4, <3>5, <3>6
    <3> QED BY <3>1, <3>3, <3>5, <3>7, CountsBy
  <2>17. Singles(u, weapons) BY <2>6, <2>8, SinglesSort DEF u
  <2>18. SinglesHeld(bank', weapons) BY <2>3, <2>13, <2>17, SinglesBecome
  <2> QED BY <1>1, <2>1, <2>3, <2>16, <2>18, StockMoved
<1> QED BY <1>1, <1>2, <1>3

\* What p gets is what its bank has no more; when it goes the bank has no more
\* than before.
LEMMA WithdrawStock ==
  ASSUME ItemsInv, StockInv, NEW p \in Players, NEW j \in 1 .. Len(bank[p]), NEW n \in 1 .. MaxBuy,
         Withdraw(p, j, n)
  PROVE  StockNext
<1> DEFINE it == bank[p][j]
           has == IF it.n = 0 THEN 1 ELSE it.n
           less == IF IsTool(it) THEN [bank[p] EXCEPT ![j].n = has - n] ELSE bank[p]
           x == [it EXCEPT !.id = itemID, !.n = n]
<1>1. it \in Items /\ itemID \in Nat
  <2>1. it \in Items BY BankedIs
  <2> QED BY <2>1 DEF ItemsInv, IdsOK
<1>2. has = Size(it) /\ has \in Nat /\ has >= 1 /\ has <= MaxBuy /\ n \in Nat /\ n >= 1
  <2> HIDE DEF it
  <2> QED BY <1>1, SizedAs
<1>13. inv \in [Players -> Seq(Items)] BY DEF ItemsInv, HeldOK
<1>3. /\ UNCHANGED <<tekked, made>>
      /\ \/ Go(p, floor, list) /\ inv' = inv /\ bank' = bank
         \/ n <= has /\ Go(p, floor, list) /\ inv' = inv /\ bank' = [bank EXCEPT ![p] = less]
         \/ /\ n <= has /\ floor' = floor /\ ~NoRoom(p, it)
            /\ inv' = [inv EXCEPT ![p] = Put(inv[p], x)]
            /\ bank' = [bank EXCEPT ![p] = IF n < has THEN less ELSE RemoveAt(@, j)]
  BY <1>2, <1>13 DEF Withdraw, Stay, Gets, pack
<1>4. SingleOK(it, weapons) /\ SinglesHeld(bank, weapons) /\ SinglesHeld(inv, weapons)
      /\ SinglesLie(floor, weapons)
  BY StockNow DEF SinglesHeld, Singles
<1>5. x \in Items /\ x.n = n /\ x.serial = it.serial
  <2>1. n \in 0 .. MaxBuy BY <1>2, Sizes
  <2> HIDE DEF it
  <2> QED BY <1>1, <2>1 DEF Items
<1>6. n <= has => SingleOK(x, weapons)
  <2>1. it.n = 1 => has = 1 OBVIOUS
  <2> HIDE DEF has, it, x
  <2> QED BY <1>2, <1>4, <1>5, <2>1 DEF SingleOK
<1>7. /\ bank \in Lists /\ bank[p] \in Seq(Items) /\ Len(bank[p]) <= MaxLen
      /\ Singles(bank[p], weapons)
  BY <1>4, HeldAre DEF SinglesHeld
\* How much n of it is, when it is w.
<1> DEFINE m(w) == IF it.serial = w THEN n ELSE 0
<1>8. ASSUME n <= has, bank' = [bank EXCEPT ![p] = less]
      PROVE  /\ \A w \in Kinds : /\ IsFiniteSet(Stock(bank', w))
                                 /\ Cardinality(Stock(bank', w)) <= Cardinality(Stock(bank, w))
                                 /\ n < has => Cardinality(Stock(bank', w)) + m(w) <= Cardinality(Stock(bank, w))
             /\ SinglesHeld(bank', weapons)
  <2>1. CASE IsTool(it)
    <3> DEFINE k == has - n
    <3>1. k \in 0 .. MaxBuy /\ (n < has => k # 0) /\ k \in Nat /\ it.serial = None
      <4>1. it.serial = None BY <2>1 DEF IsTool
      <4> HIDE DEF has, it
      <4> QED BY <1>2, <1>8, <4>1, Sizes
    <3>2. less = Entry(bank[p], j, k) BY <2>1 DEF Entry
    <3>3. Entry(bank[p], j, k) \in Seq(Items)
      <4>1. [it EXCEPT !.n = k] \in Items
        <5> HIDE DEF k, it
        <5> QED BY <1>1, <3>1 DEF Items
      <4> HIDE DEF k
      <4> QED BY <1>7, <4>1 DEF Entry
    <3>4. bank' \in Lists /\ Becomes(bank, p, Entry(bank[p], j, k), bank')
      <4> HIDE DEF k, less
      <4> QED BY <1>7, <1>8, <3>2, <3>3, Became
    <3>5. ASSUME NEW w \in Kinds
          PROVE  /\ IsFiniteSet(Stock(bank', w)) /\ Cardinality(Stock(bank', w)) <= Cardinality(Stock(bank, w))
                 /\ n < has => Cardinality(Stock(bank', w)) + m(w) <= Cardinality(Stock(bank, w))
      <4>1. IsFiniteSet(Stock(bank, w)) /\ Cardinality(Stock(bank, w)) \in Nat BY StockNow
      <4>2. /\ IsFiniteSet(Stock(bank', w))
            /\ it.serial # w => Cardinality(Stock(bank', w)) <= Cardinality(Stock(bank, w))
            /\ it.serial = w =>
                 Cardinality(Stock(bank', w)) + Size(it) <= Cardinality(Stock(bank, w)) + (IF k = 0 THEN 1 ELSE k)
        <5> HIDE DEF k
        <5> QED BY <1>7, <3>1, <3>4, <4>1, StockEntry
      <4>3. Cardinality(Stock(bank', w)) \in Nat BY <4>2, FS_CardinalityType
      <4>4. k = Size(it) - n /\ has = Size(it) /\ Size(it) \in Nat /\ Size(it) >= 1 BY <1>2
      <4> HIDE DEF k, has, it
      <4> QED BY <1>2, <3>1, <4>1, <4>2, <4>3, <4>4
    <3>6. Singles(Entry(bank[p], j, k), weapons)
      <4> HIDE DEF k
      <4> QED BY <1>7, <3>1, SinglesEntry
    <3>7. SinglesHeld(bank', weapons) BY <1>4, <3>4, <3>6, SinglesBecome
    <3> QED BY <3>5, <3>7
  <2>2. CASE ~IsTool(it)
    <3>1. bank' = bank BY <1>7, <1>8, <2>2 DEF Lists
    <3>2. it.n = 1 BY <1>4, <2>2 DEF SingleOK, IsTool
    <3>3. ~(n < has) BY <1>2, <3>2
    <3>4. \A w \in Kinds : IsFiniteSet(Stock(bank, w)) /\ Cardinality(Stock(bank, w)) \in Nat BY StockNow
    <3> QED BY <1>4, <3>1, <3>3, <3>4
  <2> QED BY <2>1, <2>2
<1>9. ASSUME n <= has, ~(n < has), bank' = [bank EXCEPT ![p] = RemoveAt(@, j)]
      PROVE  /\ \A w \in Kinds : /\ IsFiniteSet(Stock(bank', w))
                                 /\ Cardinality(Stock(bank', w)) + m(w) <= Cardinality(Stock(bank, w))
             /\ SinglesHeld(bank', weapons)
  <2> DEFINE r == RemoveAt(bank[p], j)
  <2>1. r \in Seq(Items) BY <1>7, WithoutIs
  <2>2. bank' = [bank EXCEPT ![p] = r] BY <1>7, <1>9 DEF Lists
  <2> HIDE DEF r
  <2>3. bank' \in Lists /\ Becomes(bank, p, r, bank') BY <1>7, <2>1, <2>2, Became
  <2>4. Becomes(bank, p, RemoveAt(bank[p], j), bank') BY <2>3 DEF r
  <2>5. ASSUME NEW w \in Kinds
        PROVE  /\ IsFiniteSet(Stock(bank', w))
               /\ Cardinality(Stock(bank', w)) + m(w) <= Cardinality(Stock(bank, w))
    <3>1. IsFiniteSet(Stock(bank, w)) BY StockNow
    <3>2. /\ IsFiniteSet(Stock(bank', w))
          /\ Cardinality(Stock(bank', w)) + In(bank[p], j, w) <= Cardinality(Stock(bank, w))
      BY <1>7, <2>3, <2>4, <3>1, StockWithout
    <3>3. In(bank[p], j, w) = IF it.serial = w THEN Size(it) ELSE 0 BY <1>7, InIs
    <3>4. n = Size(it)
      <4> HIDE DEF has, it
      <4> QED BY <1>2, <1>9
    <3> QED BY <3>2, <3>3, <3>4
  <2>6. Singles(r, weapons) BY <1>7, SinglesWithout DEF r
  <2>7. SinglesHeld(bank', weapons) BY <1>4, <2>3, <2>6, SinglesBecome
  <2> QED BY <2>5, <2>7
<1>10. CASE Go(p, floor, list) /\ inv' = inv /\ bank' = bank BY <1>3, <1>10, GoneStock
<1>11. CASE n <= has /\ Go(p, floor, list) /\ inv' = inv /\ bank' = [bank EXCEPT ![p] = less]
  <2>1. ASSUME NEW w \in Kinds PROVE CountsTo(w, 0)
    <3>1. IsFiniteSet(Stock(bank', w)) /\ Cardinality(Stock(bank', w)) <= Cardinality(Stock(bank, w))
      BY <1>8, <1>11
    <3>2. Cardinality(Lying(floor', w)) <= Cardinality(Lying(floor, w)) BY <1>11, GoLies
    <3>3. /\ IsFiniteSet(Stock(inv', w)) /\ Cardinality(Stock(inv, w)) \in Nat
          /\ Cardinality(Stock(bank, w)) \in Nat /\ Cardinality(Lying(floor, w)) \in Nat
      BY <1>11, StockNow
    <3>4. /\ Cardinality(Lying(floor', w)) <= Cardinality(Lying(floor, w)) + 0
          /\ Cardinality(Stock(inv', w)) <= Cardinality(Stock(inv, w)) + 0
          /\ Cardinality(Stock(bank', w)) <= Cardinality(Stock(bank, w)) + 0
          /\ 0 \in Int /\ 0 + 0 + 0 <= 0
      BY <1>11, <3>1, <3>2, <3>3
    <3> QED BY <3>1, <3>3, <3>4, CountsBy
  <2>2. SinglesHeld(bank', weapons) BY <1>8, <1>11
  <2>3. SinglesLie(floor', weapons) BY <1>4, <1>11, GoLies
  <2>4. SinglesHeld(inv', weapons) BY <1>4, <1>11
  <2> QED BY <1>3, <2>1, <2>2, <2>3, <2>4, StockMoved
<1>12. CASE /\ n <= has /\ floor' = floor /\ ~NoRoom(p, it)
            /\ inv' = [inv EXCEPT ![p] = Put(inv[p], x)]
            /\ bank' = [bank EXCEPT ![p] = IF n < has THEN less ELSE RemoveAt(@, j)]
  <2>1. /\ \A w \in Kinds : /\ IsFiniteSet(Stock(bank', w))
                            /\ Cardinality(Stock(bank', w)) + m(w) <= Cardinality(Stock(bank, w))
        /\ SinglesHeld(bank', weapons)
    <3>1. CASE n < has
      <4>1. bank' = [bank EXCEPT ![p] = less] BY <1>12, <3>1
      <4> HIDE DEF less, has, m
      <4> QED BY <1>8, <1>12, <3>1, <4>1
    <3>2. CASE ~(n < has)
      <4>1. bank' = [bank EXCEPT ![p] = RemoveAt(@, j)] BY <1>12, <3>2
      <4> HIDE DEF less, has, m
      <4> QED BY <1>9, <1>12, <3>2, <4>1
    <3> QED BY <3>1, <3>2
  <2>2. ~NoRoom(p, x) BY <1>5, <1>12 DEF NoRoom, IsTool
  <2>3. SingleOK(x, weapons) /\ x.n > 0 BY <1>2, <1>5, <1>6, <1>12
  <2>4. \A w : One(x, w) = m(w) BY <1>5 DEF One
  <2> HIDE DEF x
  <2>5. /\ \A w \in Kinds :
              /\ IsFiniteSet(Stock(inv', w))
              /\ Cardinality(Stock(inv', w)) <= Cardinality(Stock(inv, w)) + One(x, w)
        /\ SinglesHeld(inv', weapons)
    BY <1>5, <1>12, <2>2, <2>3, InvPut
  <2>6. ASSUME NEW w \in Kinds PROVE CountsTo(w, 0)
    <3> DEFINE a == m(w)
    <3>1. a \in Int /\ 0 - a \in Int /\ 0 \in Int BY <1>2
    <3>2. /\ IsFiniteSet(Stock(inv', w)) /\ IsFiniteSet(Stock(bank', w))
          /\ Cardinality(Stock(inv', w)) <= Cardinality(Stock(inv, w)) + a
          /\ Cardinality(Stock(bank', w)) + a <= Cardinality(Stock(bank, w))
      BY <2>1, <2>4, <2>5
    <3> HIDE DEF a
    <3>3. Cardinality(Stock(bank, w)) \in Nat /\ Cardinality(Lying(floor, w)) \in Nat BY StockNow
    <3>4. Cardinality(Stock(bank', w)) \in Nat BY <3>2, FS_CardinalityType
    <3>5. /\ Cardinality(Lying(floor', w)) <= Cardinality(Lying(floor, w)) + 0
          /\ Cardinality(Stock(bank', w)) <= Cardinality(Stock(bank, w)) + (0 - a)
          /\ 0 + a + (0 - a) <= 0
      BY <1>12, <3>1, <3>2, <3>3, <3>4
    <3> QED BY <3>1, <3>2, <3>5, CountsBy
  <2>7. SinglesLie(floor', weapons) BY <1>4, <1>12
  <2> QED BY <1>3, <2>1, <2>5, <2>6, <2>7, StockMoved
<1> QED BY <1>3, <1>10, <1>11, <1>12

\* There is nothing yet of the weapon that is found next.
LEMMA NotFoundYet ==
  ASSUME ItemsInv, StockInv
  PROVE  Sum(floor, inv, bank, weapons) = 0 /\ Cardinality(Offers(tekked, weapons)) = 0
<1>1. /\ weapons \in Nat /\ weapons # None /\ ~(weapons < weapons)
      /\ SinglesLie(floor, weapons) /\ SinglesHeld(inv, weapons) /\ SinglesHeld(bank, weapons)
      /\ SinglesOffered(tekked, weapons)
  BY StockNow, Sizes
<1>2. Lying(floor, weapons) = {}
  <2>1. ASSUME NEW x \in Lying(floor, weapons) PROVE FALSE
    <3>1. PICK s \in Slots, k \in Nat : x = <<s, k>> BY LyingOf
    <3>2. floor[s].serial = weapons BY <3>1, LyingHas
    <3> QED BY <1>1, <3>2 DEF SinglesLie, SingleOK
  <2> QED BY <2>1
<1>3. ASSUME NEW L \in Lists, SinglesHeld(L, weapons), \A q \in Players : Len(L[q]) <= MaxLen
      PROVE  Stock(L, weapons) = {}
  <2>1. ASSUME NEW x \in Stock(L, weapons) PROVE FALSE
    <3>1. PICK q \in Players, i, k \in Nat : x = <<q, i, k>> BY StockOf
    <3>2. i \in 1 .. Len(L[q]) /\ L[q][i].serial = weapons BY <1>3, <3>1, StockHas
    <3> QED BY <1>1, <1>3, <3>2 DEF SinglesHeld, Singles, SingleOK
  <2> QED BY <2>1
<1>4. Stock(inv, weapons) = {} /\ Stock(bank, weapons) = {} BY <1>1, <1>3, HeldAre
<1>5. Offers(tekked, weapons) = {} BY <1>1 DEF Offers, SinglesOffered, SingleOK
<1>6. Cardinality({}) = 0 BY FS_EmptySet
<1> QED BY <1>2, <1>4, <1>5, <1>6 DEF Sum

\* What is found is laid there and nowhere else.
LEMMA FoundStock ==
  ASSUME ItemsInv, StockInv, NEW it \in Items, it.id # 0, it.n > 0, Find(it)
  PROVE  /\ \A w \in Kinds : CountsTo(w, One(it, w))
         /\ SinglesLie(floor, weapons') /\ SingleOK(it, weapons') => SinglesLie(floor', weapons')
<1>1. Lay(it) /\ inv' = inv /\ bank' = bank /\ blanked' = blanked BY DEF Find, pack
<1>2. \A w : Cardinality(Lying(floor', w)) <= Cardinality(Lying(floor, w)) + One(it, w)
  BY <1>1, FloorLaid
<1>3. ASSUME NEW w \in Kinds PROVE CountsTo(w, One(it, w))
  <2> DEFINE m == One(it, w)
  <2>1. m \in Int /\ 0 \in Int BY ItemIs DEF One
  <2>2. /\ IsFiniteSet(Stock(inv', w)) /\ IsFiniteSet(Stock(bank', w))
        /\ Cardinality(Stock(inv, w)) \in Nat /\ Cardinality(Stock(bank, w)) \in Nat
    BY <1>1, StockNow
  <2>3. Cardinality(Lying(floor', w)) <= Cardinality(Lying(floor, w)) + m BY <1>2
  <2> HIDE DEF m
  <2>4. /\ Cardinality(Stock(inv', w)) <= Cardinality(Stock(inv, w)) + 0
        /\ Cardinality(Stock(bank', w)) <= Cardinality(Stock(bank, w)) + 0
        /\ m + 0 + 0 <= m
    BY <1>1, <2>1, <2>2
  <2>5. CountsTo(w, m) BY <2>1, <2>2, <2>3, <2>4, CountsBy
  <2> QED BY <2>5 DEF m
<1>4. SinglesLie(floor, weapons') /\ SingleOK(it, weapons') => SinglesLie(floor', weapons')
  BY <1>1, FloorLaid
<1> QED BY <1>3, <1>4

LEMMA FindToolStock ==
  ASSUME ItemsInv, StockInv, FindTool
  PROVE  StockNext
<1> DEFINE it == Tool(itemID, 1)
<1>1. /\ Find(it) /\ tools' = tools + 1 /\ weapons' = weapons /\ teks' = teks
      /\ inv' = inv /\ bank' = bank /\ tekked' = tekked
  BY DEF FindTool, Find, pack
<1>2. itemID \in Nat /\ itemID # 0 BY IdsAre DEF ItemsInv, IdsOK
<1>3. 1 \in 0 .. MaxBuy BY Sizes
<1>4. it \in Items /\ it.id # 0 /\ it.n = 1 /\ it.serial = None BY <1>2, <1>3, ToolIs
<1> HIDE DEF it
<1>5. it.n > 0 /\ SingleOK(it, weapons) BY <1>4 DEF SingleOK
<1>6. /\ \A w \in Kinds : CountsTo(w, One(it, w))
      /\ SinglesLie(floor', weapons')
  BY <1>1, <1>4, <1>5, FoundStock, StockNow
<1>7. One(it, None) = 1 /\ \A w \in Nat : One(it, w) = 0 BY <1>4, Sizes DEF One
<1>8. CountsTo(None, 1) /\ (\A w \in Nat : CountsTo(w, 0)) /\ 1 \in Nat BY <1>6, <1>7 DEF Kinds
<1>9. AllSingles(floor', inv', bank', tekked', weapons') BY <1>1, <1>6, StockNow DEF AllSingles
<1>10. \A q \in Players : tekked'[q] = NoItem \/ tekked'[q] = tekked[q] BY <1>1
<1> QED BY <1>1, <1>8, <1>9, <1>10, StockMore

\* The weapon found is the only one of its kind.
LEMMA FindWeaponStock ==
  ASSUME ItemsInv, StockInv, FindWeapon
  PROVE  StockNext
<1> DEFINE it == Weapon(itemID, weapons)
<1>1. /\ Find(it) /\ weapons < MaxWeapons /\ weapons' = weapons + 1 /\ tools' = tools /\ teks' = teks
      /\ inv' = inv /\ bank' = bank /\ tekked' = tekked
  BY DEF FindWeapon, Find, pack
<1>2. itemID \in Nat /\ itemID # 0 BY IdsAre DEF ItemsInv, IdsOK
<1>3. weapons \in Nat /\ tools \in Nat /\ teks \in Nat /\ weapons # None /\ weapons \in Kinds
  BY StockNow, Sizes DEF Kinds
<1>4. it \in Items /\ it.id # 0 /\ it.n = 1 /\ it.serial = weapons
  <2>1. it = [id |-> itemID, n |-> 1, serial |-> weapons, raw |-> TRUE] BY DEF Weapon
  <2>2. 1 \in 0 .. MaxBuy /\ weapons \in 0 .. MaxWeapons - 1 BY <1>1, <1>3, Sizes
  <2>3. it \in Items BY <1>2, <2>1, <2>2, ItemMade
  <2> QED BY <1>2, <2>1, <2>3
<1> HIDE DEF it
<1>5. it.n > 0 /\ SingleOK(it, weapons') BY <1>1, <1>3, <1>4 DEF SingleOK
<1>6. weapons' \in Nat /\ weapons <= weapons' BY <1>1, <1>3
<1>7. \A x : (x \in Items /\ SingleOK(x, weapons)) => SingleOK(x, weapons') BY <1>3, <1>6, SinglesMore
<1>8. /\ SinglesLie(floor, weapons') /\ SinglesOffered(tekked, weapons')
      /\ SinglesHeld(inv, weapons') /\ SinglesHeld(bank, weapons')
  <2>1. /\ SinglesLie(floor, weapons) /\ SinglesOffered(tekked, weapons)
        /\ SinglesHeld(inv, weapons) /\ SinglesHeld(bank, weapons)
    BY StockNow
  <2>2. floor \in [Slots -> Items] /\ tekked \in [Players -> Items] BY HeldAre
  <2>3. SinglesLie(floor, weapons') /\ SinglesOffered(tekked, weapons')
    BY <1>7, <2>1, <2>2 DEF SinglesLie, SinglesOffered
  <2>4. SinglesHeld(inv, weapons') /\ SinglesHeld(bank, weapons')
    BY <1>3, <1>6, <2>1, HeldAre, SinglesMore
  <2> QED BY <2>3, <2>4
<1>9. (\A w \in Kinds : CountsTo(w, One(it, w))) /\ SinglesLie(floor', weapons')
  BY <1>1, <1>4, <1>5, <1>8, FoundStock
<1>10. AllSingles(floor', inv', bank', tekked', weapons') BY <1>1, <1>8, <1>9 DEF AllSingles
<1>11. Counted(inv', bank', tekked') BY <1>1 DEF StockInv, StockOK, Counted
<1>12. \A w \in Kinds : One(it, w) = IF w = weapons THEN 1 ELSE 0 BY <1>4 DEF One
<1>13. \A w \in Kinds :
         /\ Sum(floor', inv', bank', w) <= Sum(floor, inv, bank, w) + (IF w = weapons THEN 1 ELSE 0)
         /\ Sum(floor', inv', bank', w) \in Nat /\ Sum(floor, inv, bank, w) \in Nat
  <2>1. ASSUME NEW w \in Kinds
        PROVE  /\ Sum(floor', inv', bank', w) <= Sum(floor, inv, bank, w) + (IF w = weapons THEN 1 ELSE 0)
               /\ Sum(floor', inv', bank', w) \in Nat /\ Sum(floor, inv, bank, w) \in Nat
    <3>1. /\ IsFiniteSet(Stock(inv, w)) /\ IsFiniteSet(Stock(bank, w))
          /\ IsFiniteSet(Stock(inv', w)) /\ IsFiniteSet(Stock(bank', w))
      BY <1>11, StockNow DEF Counted
    <3>2. CountsTo(w, One(it, w)) BY <1>9
    <3> QED BY <1>12, <3>1, <3>2, SumNat DEF CountsTo
  <2> QED BY <2>1
<1>14. /\ Sum(floor, inv, bank, None) <= tools
       /\ \A w \in 0 .. weapons - 1 : Sum(floor, inv, bank, w) + Cardinality(Offers(tekked, w)) <= 1 + teks
  BY DEF StockInv, StockOK, Bounds, Total
<1>15. Sum(floor', inv', bank', None) <= tools'
  <2>1. None \in Kinds /\ None # weapons BY <1>3 DEF Kinds
  <2> QED BY <1>1, <1>3, <1>13, <1>14, <2>1
<1>16. ASSUME NEW w \in 0 .. weapons' - 1
       PROVE  Total(floor', inv', bank', tekked', w) <= 1 + teks'
  <2>1. w \in Nat /\ w \in Kinds /\ (w = weapons \/ w \in 0 .. weapons - 1) BY <1>1, <1>3 DEF Kinds
  <2>2. Cardinality(Offers(tekked, w)) \in Nat BY <2>1, StockNow
  <2>3. /\ Sum(floor', inv', bank', w) <= Sum(floor, inv, bank, w) + (IF w = weapons THEN 1 ELSE 0)
        /\ Sum(floor', inv', bank', w) \in Nat /\ Sum(floor, inv, bank, w) \in Nat
    BY <1>13, <2>1
  <2>4. Sum(floor', inv', bank', w) + Cardinality(Offers(tekked, w)) <= 1 + teks
    <3>1. CASE w = weapons
      <4>1. Sum(floor, inv, bank, w) = 0 /\ Cardinality(Offers(tekked, w)) = 0 BY <3>1, NotFoundYet
      <4> QED BY <1>3, <2>3, <3>1, <4>1
    <3>2. CASE w # weapons
      <4>1. Sum(floor, inv, bank, w) + Cardinality(Offers(tekked, w)) <= 1 + teks BY <1>14, <2>1, <3>2
      <4> QED BY <1>3, <2>2, <2>3, <3>2, <4>1
    <3> QED BY <3>1, <3>2
  <2> QED BY <1>1, <2>4 DEF Total
<1>17. tools' \in Nat /\ teks' \in Nat BY <1>1, <1>3
<1> QED BY <1>6, <1>10, <1>11, <1>15, <1>16, <1>17 DEF StockNext, StockOK, Bounds

\* Something that lay there is gone.
LEMMA FindNothingStock ==
  ASSUME ItemsInv, StockInv, FindNothing
  PROVE  StockNext
<1> DEFINE s == free_game_item
           g == [floor EXCEPT ![s] = NoItem]
<1>1. /\ floor' = g /\ inv' = inv /\ bank' = bank /\ UNCHANGED <<tekked, made>>
  BY DEF FindNothing, pack
<1>2. s \in Slots /\ floor[s] \in Items
  <2>1. FloorFits(floor, list) /\ floor \in [Slots -> Items] BY DEF ItemsInv, FloorOK, FloorFits
  <2>2. s \in Slots BY <2>1, FreeIs
  <2> QED BY <2>1, <2>2
<1>3. /\ \A w : Cardinality(Lying(g, w)) + One(floor[s], w) <= Cardinality(Lying(floor, w))
      /\ SinglesLie(g, weapons)
  BY <1>2, FloorLifted, StockNow
<1>4. \A w : One(floor[s], w) \in Nat
  <2>1. floor[s].n \in Nat BY <1>2, ItemIs
  <2> QED BY <2>1 DEF One
<1> HIDE DEF g, s
<1>5. ASSUME NEW w \in Kinds PROVE CountsTo(w, 0)
  <2>1. /\ IsFiniteSet(Stock(inv', w)) /\ IsFiniteSet(Stock(bank', w))
        /\ Cardinality(Stock(inv, w)) \in Nat /\ Cardinality(Stock(bank, w)) \in Nat
    BY <1>1, StockNow
  <2>2. /\ Cardinality(Lying(floor', w)) + One(floor[s], w) <= Cardinality(Lying(floor, w))
        /\ One(floor[s], w) \in Nat /\ Cardinality(Lying(floor', w)) \in Nat
        /\ Cardinality(Lying(floor, w)) \in Nat
    BY <1>1, <1>3, <1>4, LyingFinite
  <2>3. Cardinality(Lying(floor', w)) <= Cardinality(Lying(floor, w)) + 0 BY <2>2
  <2>4. /\ Cardinality(Stock(inv', w)) <= Cardinality(Stock(inv, w)) + 0
        /\ Cardinality(Stock(bank', w)) <= Cardinality(Stock(bank, w)) + 0
        /\ 0 \in Int /\ 0 + 0 + 0 <= 0
    BY <1>1, <2>1
  <2> QED BY <2>1, <2>3, <2>4, CountsBy
<1>6. SinglesLie(floor', weapons) /\ SinglesHeld(inv', weapons) /\ SinglesHeld(bank', weapons)
  BY <1>1, <1>3, StockNow
<1> QED BY <1>1, <1>5, <1>6, StockMoved

\* The offer is one more of the weapon.
LEMMA TekAskStock ==
  ASSUME ItemsInv, IdInv, StockInv, NEW p \in Players, NEW i \in 1 .. Len(inv[p]), TekAsk(p, i)
  PROVE  StockNext
<1> DEFINE it == inv[p][i]
           x == [it EXCEPT !.raw = FALSE]
<1>1. /\ it.raw /\ teks' = teks + 1 /\ tekked' = [tekked EXCEPT ![p] = x]
      /\ inv' = inv /\ bank' = bank /\ floor' = floor /\ weapons' = weapons /\ tools' = tools
  BY DEF TekAsk, game, pack
<1>2. it \in Items BY CarriedIs
<1>3. it.serial # None BY <1>1 DEF IdInv, RawInv, RawOK
<1>4. SingleOK(it, weapons) BY StockNow DEF SinglesHeld, Singles
<1>5. x.serial = it.serial /\ x.n = it.n
  <2> HIDE DEF it
  <2> QED BY <1>2 DEF Items
<1> HIDE DEF x, it
<1>6. tekked' [p] = x /\ \A q \in Players : q # p => tekked'[q] = tekked[q]
  <2>1. tekked \in [Players -> Items] BY HeldAre
  <2> QED BY <1>1, <2>1
<1>7. SinglesOffered(tekked', weapons')
  <2>1. SinglesOffered(tekked, weapons) BY StockNow
  <2>2. ASSUME NEW q \in Players
        PROVE  SingleOK(tekked'[q], weapons) /\ (tekked'[q].id # 0 => tekked'[q].serial # None)
    <3>1. CASE q = p BY <1>3, <1>4, <1>5, <1>6, <3>1 DEF SingleOK
    <3>2. CASE q # p BY <1>6, <2>1, <3>2 DEF SinglesOffered
    <3> QED BY <3>1, <3>2
  <2> QED BY <1>1, <2>2 DEF SinglesOffered
<1>8. AllSingles(floor', inv', bank', tekked', weapons') BY <1>1, <1>7, StockNow DEF AllSingles
<1>9. ASSUME NEW w \in Nat
      PROVE  /\ IsFiniteSet(Offers(tekked', w)) /\ Cardinality(Offers(tekked', w)) \in Nat
             /\ Cardinality(Offers(tekked', w)) <= Cardinality(Offers(tekked, w)) + 1
  <2>1. IsFiniteSet(Offers(tekked, w)) /\ Cardinality(Offers(tekked, w)) \in Nat BY StockNow
  <2>2. /\ IsFiniteSet(Offers(tekked, w) \cup {p})
        /\ Cardinality(Offers(tekked, w) \cup {p}) <= Cardinality(Offers(tekked, w)) + 1
    <3>1. /\ IsFiniteSet(Offers(tekked, w) \cup {p})
          /\ Cardinality(Offers(tekked, w) \cup {p})
               = IF p \in Offers(tekked, w) THEN Cardinality(Offers(tekked, w))
                 ELSE Cardinality(Offers(tekked, w)) + 1
      BY <2>1, FS_AddElement
    <3> QED BY <2>1, <3>1
  <2>3. Offers(tekked', w) \in SUBSET (Offers(tekked, w) \cup {p}) BY <1>6 DEF Offers
  <2>4. /\ IsFiniteSet(Offers(tekked', w))
        /\ Cardinality(Offers(tekked', w)) <= Cardinality(Offers(tekked, w) \cup {p})
    BY <2>2, <2>3, FS_Subset
  <2>5. Cardinality(Offers(tekked', w)) \in Nat /\ Cardinality(Offers(tekked, w) \cup {p}) \in Nat
    BY <2>2, <2>4, FS_CardinalityType
  <2> QED BY <2>1, <2>2, <2>4, <2>5
<1>10. Counted(inv', bank', tekked') BY <1>1, <1>9, StockNow DEF Counted
<1>11. /\ Sum(floor, inv, bank, None) <= tools
       /\ \A w \in 0 .. weapons - 1 : Sum(floor, inv, bank, w) + Cardinality(Offers(tekked, w)) <= 1 + teks
       /\ weapons \in Nat /\ tools \in Nat /\ teks \in Nat
  BY DEF StockInv, StockOK, Bounds, Total
<1>12. ASSUME NEW w \in 0 .. weapons' - 1
       PROVE  Total(floor', inv', bank', tekked', w) <= 1 + teks'
  <2>1. w \in Nat /\ w \in Kinds /\ w \in 0 .. weapons - 1 BY <1>1, <1>11 DEF Kinds
  <2>2. Sum(floor, inv, bank, w) \in Nat BY <2>1, StockNow, SumNat
  <2>3. Cardinality(Offers(tekked, w)) \in Nat BY <2>1, StockNow
  <2>4. Sum(floor, inv, bank, w) + Cardinality(Offers(tekked, w)) <= 1 + teks BY <1>11, <2>1
  <2>5. Sum(floor, inv, bank, w) + Cardinality(Offers(tekked', w)) <= 1 + (teks + 1)
    BY <1>9, <1>11, <2>1, <2>2, <2>3, <2>4, SMTT(60)
  <2> QED BY <1>1, <2>5 DEF Total
<1>13. Sum(floor', inv', bank', None) <= tools' BY <1>1, <1>11
<1>14. weapons' \in Nat /\ tools' \in Nat /\ teks' \in Nat BY <1>1, <1>11
<1> QED BY <1>8, <1>10, <1>12, <1>13, <1>14 DEF StockNext, StockOK, Bounds

LEMMA HitLess ==
  ASSUME ItemsInv, NEW p, NEW fl, fl = IF Hit(p) THEN [floor EXCEPT ![Head(list)] = NoItem] ELSE floor
  PROVE  /\ \A w : Cardinality(Lying(fl, w)) <= Cardinality(Lying(floor, w))
         /\ \A wp : SinglesLie(floor, wp) => SinglesLie(fl, wp)
<1>1. CASE Hit(p)
  <2>1. list \in Seq(Slots) /\ list # <<>> BY <1>1 DEF ItemsInv, FloorOK, FloorFits, Hit
  <2>2. Head(list) \in Slots BY <2>1
  <2> DEFINE s == Head(list)
  <2>3. /\ \A w : Cardinality(Lying(fl, w)) + One(floor[s], w) <= Cardinality(Lying(floor, w))
        /\ \A wp : SinglesLie(floor, wp) => SinglesLie(fl, wp)
    BY <1>1, <2>2, FloorLifted
  <2>4. \A w : One(floor[s], w) \in Nat /\ Cardinality(Lying(fl, w)) \in Nat
               /\ Cardinality(Lying(floor, w)) \in Nat
    <3>1. floor[s] \in Items BY <2>2, HeldAre
    <3>2. floor[s].n \in Nat BY <3>1, ItemIs
    <3> QED BY <3>2, LyingFinite DEF One
  <2> HIDE DEF s
  <2>5. ASSUME NEW w PROVE Cardinality(Lying(fl, w)) <= Cardinality(Lying(floor, w))
    <3>1. /\ Cardinality(Lying(fl, w)) + One(floor[s], w) <= Cardinality(Lying(floor, w))
          /\ One(floor[s], w) \in Nat /\ Cardinality(Lying(fl, w)) \in Nat
          /\ Cardinality(Lying(floor, w)) \in Nat
      BY <2>3, <2>4
    <3> QED BY <3>1
  <2> QED BY <2>3, <2>5
<1>2. CASE ~Hit(p)
  <2>1. fl = floor BY <1>2
  <2>2. ASSUME NEW w PROVE Cardinality(Lying(fl, w)) <= Cardinality(Lying(floor, w))
    <3>1. Cardinality(Lying(floor, w)) \in Nat BY LyingFinite
    <3>2. Cardinality(Lying(floor, w)) <= Cardinality(Lying(floor, w)) BY <3>1
    <3> QED BY <2>1, <3>2
  <2>3. ASSUME NEW wp, SinglesLie(floor, wp) PROVE SinglesLie(fl, wp) BY <2>1, <2>3
  <2> QED BY <2>2, <2>3
<1> QED BY <1>1, <1>2

\* The weapon is p's, and the offer is no more.
LEMMA OfferTaken ==
  ASSUME ItemsInv, StockInv, NEW p \in Players, tekked[p].id # 0, tekked' = [tekked EXCEPT ![p] = NoItem],
         NEW w \in Nat
  PROVE  Cardinality(Offers(tekked', w)) + One(tekked[p], w) <= Cardinality(Offers(tekked, w))
<1>1. IsFiniteSet(Offers(tekked, w)) /\ Cardinality(Offers(tekked, w)) \in Nat BY StockNow
<1>2. tekked[p].n = 1
  <2>1. SinglesOffered(tekked, weapons) BY StockNow
  <2> QED BY <2>1 DEF SinglesOffered, SingleOK
<1>3. tekked'[p] = NoItem /\ \A q \in Players : q # p => tekked'[q] = tekked[q]
  <2>1. tekked \in [Players -> Items] BY HeldAre
  <2> QED BY <2>1
<1>4. NoItem.serial # w BY Sizes DEF NoItem, Tool
<1>5. Offers(tekked', w) = Offers(tekked, w) \ {p} BY <1>3, <1>4 DEF Offers
<1>6. CASE tekked[p].serial = w
  <2>1. p \in Offers(tekked, w) BY <1>6 DEF Offers
  <2>2. Cardinality(Offers(tekked, w) \ {p}) = Cardinality(Offers(tekked, w)) - 1
    BY <1>1, <2>1, FS_RemoveElement
  <2>3. One(tekked[p], w) = 1 BY <1>2, <1>6 DEF One
  <2>4. Cardinality(Offers(tekked', w)) = Cardinality(Offers(tekked, w)) - 1 BY <1>5, <2>2
  <2> QED BY <1>1, <2>3, <2>4
<1>7. CASE tekked[p].serial # w
  <2>1. p \notin Offers(tekked, w) BY <1>7 DEF Offers
  <2>2. Offers(tekked, w) \ {p} = Offers(tekked, w) BY <2>1
  <2>3. One(tekked[p], w) = 0 BY <1>7 DEF One
  <2>4. Cardinality(Offers(tekked', w)) = Cardinality(Offers(tekked, w)) BY <1>5, <2>2
  <2> QED BY <1>1, <2>3, <2>4
<1> QED BY <1>6, <1>7

\* What p gets was offered.
LEMMA TekAcceptStock ==
  ASSUME ItemsInv, StockInv, NEW p \in Players, TekAccept(p)
  PROVE  StockNext
<1> DEFINE it == tekked[p]
           fl == IF Hit(p) THEN [floor EXCEPT ![Head(list)] = NoItem] ELSE floor
           li == IF Hit(p) THEN Tail(list) ELSE list
<1>0. inv \in [Players -> Seq(Items)] BY DEF ItemsInv, HeldOK
<1>1. /\ it.id # 0 /\ (tekked' = tekked \/ tekked' = [tekked EXCEPT ![p] = NoItem])
      /\ \/ Go(p, fl, li) /\ inv' = inv
         \/ /\ inv' = [inv EXCEPT ![p] = Put(inv[p], it)] /\ ~NoRoom(p, it)
            /\ Stay(fl, li) /\ tekked' = [tekked EXCEPT ![p] = NoItem]
      /\ bank' = bank
  BY <1>0, TekAcceptIs DEF Gets, pack
<1>2. weapons' = weapons /\ tools' = tools /\ teks' = teks BY DEF TekAccept, made
<1>3. it \in Items /\ it.n \in Nat BY ItemIs, HeldAre
<1>4. /\ SinglesLie(floor, weapons) /\ SinglesHeld(inv, weapons) /\ SinglesHeld(bank', weapons)
      /\ SinglesOffered(tekked, weapons)
  BY <1>1, StockNow
<1>5. it.serial # None /\ SingleOK(it, weapons) BY <1>1, <1>4 DEF SinglesOffered
<1>6. it.n = 1 /\ it.n > 0 BY <1>5 DEF SingleOK
<1>7. /\ \A w : Cardinality(Lying(fl, w)) <= Cardinality(Lying(floor, w))
      /\ SinglesLie(fl, weapons)
  BY <1>4, HitLess
<1> HIDE DEF fl, li
<1>8. /\ \A w : Cardinality(Lying(floor', w)) <= Cardinality(Lying(floor, w))
      /\ SinglesLie(floor', weapons)
  <2>1. CASE Go(p, fl, li)
    <3>1. \A w : Cardinality(Lying(floor', w)) <= Cardinality(Lying(fl, w)) BY <2>1, GoLies
    <3>2. \A w : /\ Cardinality(Lying(floor', w)) \in Nat /\ Cardinality(Lying(fl, w)) \in Nat
                 /\ Cardinality(Lying(floor, w)) \in Nat
      BY LyingFinite
    <3>3. SinglesLie(floor', weapons) BY <1>7, <2>1, GoLies
    <3> QED BY <1>7, <3>1, <3>2, <3>3
  <2>2. CASE Stay(fl, li) BY <1>7, <2>2 DEF Stay
  <2> QED BY <1>1, <2>1, <2>2
<1>9. \A q \in Players : tekked'[q] = NoItem \/ tekked'[q] = tekked[q]
  <2>1. tekked \in [Players -> Items] BY HeldAre
  <2> QED BY <1>1, <2>1
<1>10. SinglesOffered(tekked', weapons)
  <2>1. NoItem.id = 0 /\ NoItem.serial = None BY DEF NoItem, Tool
  <2> QED BY <1>4, <1>9, <2>1 DEF SinglesOffered, SingleOK
<1>11. CASE inv' = inv
  <2>1. ASSUME NEW w \in Kinds PROVE CountsTo(w, 0)
    <3>1. /\ IsFiniteSet(Stock(inv', w)) /\ IsFiniteSet(Stock(bank', w))
          /\ Cardinality(Stock(inv, w)) \in Nat /\ Cardinality(Stock(bank, w)) \in Nat
          /\ Cardinality(Lying(floor, w)) \in Nat
      BY <1>1, <1>11, StockNow
    <3>2. /\ Cardinality(Lying(floor', w)) <= Cardinality(Lying(floor, w)) + 0
          /\ Cardinality(Stock(inv', w)) <= Cardinality(Stock(inv, w)) + 0
          /\ Cardinality(Stock(bank', w)) <= Cardinality(Stock(bank, w)) + 0
          /\ 0 \in Int /\ 0 + 0 + 0 <= 0
      BY <1>1, <1>8, <1>11, <3>1
    <3> QED BY <3>1, <3>2, CountsBy
  <2>2. AllSingles(floor', inv', bank', tekked', weapons')
    BY <1>2, <1>4, <1>8, <1>10, <1>11 DEF AllSingles
  <2> QED BY <1>2, <1>9, <2>1, <2>2, StockLess
<1>12. CASE /\ inv' = [inv EXCEPT ![p] = Put(inv[p], it)] /\ ~NoRoom(p, it)
            /\ tekked' = [tekked EXCEPT ![p] = NoItem]
  <2>1. \A w \in Nat : Cardinality(Offers(tekked', w)) + One(it, w) <= Cardinality(Offers(tekked, w))
    BY <1>1, <1>12, OfferTaken
  <2> HIDE DEF it
  <2>2. /\ \A w \in Kinds :
              /\ IsFiniteSet(Stock(inv', w))
              /\ Cardinality(Stock(inv', w)) <= Cardinality(Stock(inv, w)) + One(it, w)
        /\ SinglesHeld(inv', weapons)
    BY <1>3, <1>5, <1>6, <1>12, InvPut
  <2>3. \A w : One(it, w) \in Nat BY <1>3 DEF One
  <2>4. ASSUME NEW w \in Kinds
        PROVE  /\ IsFiniteSet(Stock(inv', w)) /\ IsFiniteSet(Stock(bank', w))
               /\ Sum(floor', inv', bank', w) <= Sum(floor, inv, bank, w) + One(it, w)
               /\ Sum(floor', inv', bank', w) \in Nat /\ Sum(floor, inv, bank, w) \in Nat
    <3> DEFINE m == One(it, w)
    <3>1. m \in Int /\ 0 \in Int BY <2>3
    <3>2. /\ IsFiniteSet(Stock(inv, w)) /\ IsFiniteSet(Stock(bank, w)) /\ IsFiniteSet(Stock(bank', w))
          /\ Cardinality(Stock(bank, w)) \in Nat /\ Cardinality(Lying(floor, w)) \in Nat
      BY <1>1, StockNow
    <3>3. IsFiniteSet(Stock(inv', w)) /\ Cardinality(Stock(inv', w)) <= Cardinality(Stock(inv, w)) + m
      BY <2>2
    <3> HIDE DEF m
    <3>4. /\ Cardinality(Lying(floor', w)) <= Cardinality(Lying(floor, w)) + 0
          /\ Cardinality(Stock(bank', w)) <= Cardinality(Stock(bank, w)) + 0
          /\ 0 + m + 0 <= m
      BY <1>1, <1>8, <3>1, <3>2, LyingFinite
    <3>5. CountsTo(w, m) BY <3>1, <3>2, <3>3, <3>4, CountsBy
    <3>6. Sum(floor', inv', bank', w) \in Nat /\ Sum(floor, inv, bank, w) \in Nat
      BY <3>2, <3>3, SumNat
    <3> QED BY <3>2, <3>3, <3>5, <3>6 DEF CountsTo, m
  <2>5. \A w \in Nat : IsFiniteSet(Offers(tekked', w)) /\ Cardinality(Offers(tekked', w)) \in Nat
    BY <1>9, StockNow, OffersFewer
  <2>6. Counted(inv', bank', tekked') BY <2>4, <2>5 DEF Counted
  <2>7. /\ Sum(floor, inv, bank, None) <= tools
        /\ \A w \in 0 .. weapons - 1 : Sum(floor, inv, bank, w) + Cardinality(Offers(tekked, w)) <= 1 + teks
        /\ weapons \in Nat /\ tools \in Nat /\ teks \in Nat
    BY DEF StockInv, StockOK, Bounds, Total
  <2>8. Sum(floor', inv', bank', None) <= tools'
    <3>1. One(it, None) = 0 BY <1>5 DEF One, it
    <3>2. None \in Kinds BY DEF Kinds
    <3> QED BY <1>2, <2>4, <2>7, <3>1, <3>2
  <2>9. ASSUME NEW w \in 0 .. weapons' - 1
        PROVE  Total(floor', inv', bank', tekked', w) <= 1 + teks'
    <3>1. w \in Nat /\ w \in Kinds /\ w \in 0 .. weapons - 1 BY <1>2, <2>7 DEF Kinds
    <3>2. Cardinality(Offers(tekked, w)) \in Nat BY <3>1, StockNow
    <3>3. Sum(floor, inv, bank, w) + Cardinality(Offers(tekked, w)) <= 1 + teks BY <2>7, <3>1
    <3>4. Sum(floor', inv', bank', w) + Cardinality(Offers(tekked', w)) <= 1 + teks
      BY <2>1, <2>3, <2>4, <2>5, <2>7, <3>1, <3>2, <3>3
    <3> QED BY <1>2, <3>4 DEF Total
  <2>10. AllSingles(floor', inv', bank', tekked', weapons')
    BY <1>2, <1>4, <1>8, <1>10, <2>2 DEF AllSingles
  <2>11. weapons' \in Nat /\ tools' \in Nat /\ teks' \in Nat BY <1>2, <2>7
  <2> QED BY <2>6, <2>8, <2>9, <2>10, <2>11 DEF StockNext, StockOK, Bounds
<1> QED BY <1>1, <1>11, <1>12

\* There is nothing yet, and no step adds more than it found, bought or offered.
LEMMA InitStock == Init => StockInv
<1> SUFFICES ASSUME Init PROVE StockInv OBVIOUS
<1>1. /\ weapons = 0 /\ tools = 0 /\ teks = 0 /\ floor = NoFloor
      /\ \A q \in Players : Len(inv[q]) = 0 /\ Len(bank[q]) = 0 /\ tekked[q] = NoItem
  BY DEF Init
<1>2. NoItem.serial = None /\ NoItem.id = 0 BY DEF NoItem, Tool
<1>3. ASSUME NEW w, NEW L, \A q \in Players : Len(L[q]) = 0
      PROVE  IsFiniteSet(Stock(L, w)) /\ Cardinality(Stock(L, w)) = 0
  <2>1. Carry + BankSize \in Nat BY Sizes
  <2>2. ASSUME NEW x \in Stock(L, w) PROVE FALSE
    <3>1. /\ x \in Players \X (1 .. Carry + BankSize) \X (1 .. MaxBuy)
          /\ x[2] <= Len(L[x[1]])
      BY <2>2 DEF Stock
    <3>2. x[1] \in Players /\ x[2] \in 1 .. Carry + BankSize BY <3>1
    <3>3. Len(L[x[1]]) = 0 BY <1>3, <3>2
    <3> QED BY <2>1, <3>1, <3>2, <3>3
  <2>3. Stock(L, w) = {} BY <2>2
  <2> QED BY <2>3, FS_EmptySet
<1>4. ASSUME NEW w \in Nat PROVE IsFiniteSet(Offers(tekked, w))
  <2>1. Offers(tekked, w) = {} BY <1>1, <1>2, Sizes DEF Offers
  <2> QED BY <2>1, FS_EmptySet
<1>5. Counted(inv, bank, tekked) BY <1>1, <1>3, <1>4 DEF Counted
<1>6. AllSingles(floor, inv, bank, tekked, weapons)
  <2>1. \A s \in Slots : floor[s] = NoItem BY <1>1 DEF NoFloor
  <2>2. SinglesLie(floor, weapons) BY <1>2, <2>1 DEF SinglesLie, SingleOK
  <2>3. SinglesHeld(inv, weapons) /\ SinglesHeld(bank, weapons) BY <1>1 DEF SinglesHeld, Singles
  <2>4. SinglesOffered(tekked, weapons) BY <1>1, <1>2 DEF SinglesOffered, SingleOK
  <2> QED BY <2>2, <2>3, <2>4 DEF AllSingles
<1>7. Sum(floor, inv, bank, None) = 0
  <2>1. Cardinality(Lying(floor, None)) = 0 BY <1>1, NothingLies
  <2>2. Cardinality(Stock(inv, None)) = 0 /\ Cardinality(Stock(bank, None)) = 0 BY <1>1, <1>3
  <2> QED BY <2>1, <2>2 DEF Sum
<1>8. Bounds(floor, inv, bank, tekked, weapons, tools, teks)
  <2>1. 0 .. weapons - 1 = {} BY <1>1
  <2> QED BY <1>1, <1>7, <2>1 DEF Bounds
<1> QED BY <1>1, <1>5, <1>6, <1>8 DEF StockInv, StockOK

LEMMA StutterStock ==
  ASSUME StockInv, UNCHANGED vars
  PROVE  StockNext
BY DEF StockInv, StockNext, vars, pack, game, made

LEMMA NextStock ==
  ASSUME ItemsInv, IdInv, StockInv, doubled = 0, doubled' = 0, [Next]_vars
  PROVE  StockInv'
<1>1. CASE FindWeapon BY <1>1, FindWeaponStock, StockPrimes
<1>2. CASE FindTool BY <1>2, FindToolStock, StockPrimes
<1>14. CASE FindNothing BY <1>14, FindNothingStock, StockPrimes
<1>3. ASSUME NEW p \in Players, Join(p) PROVE StockInv' BY <1>3, JoinStock, StockPrimes
<1>4. ASSUME NEW p \in Players, Leave(p) PROVE StockInv' BY <1>4, LeaveStock, StockPrimes
<1>5. ASSUME NEW p \in Players, NEW s \in Slots, floor[s].id # 0, PickUp(p, floor[s].id) PROVE StockInv'
  BY <1>5, PickUpStock, StockPrimes
<1>6. ASSUME NEW p \in Players, NEW order \in SeqOf(Answers(p), Carry), Sort(p, order)
      PROVE  StockInv'
  BY <1>6, SortStock, StockPrimes
<1>7. ASSUME NEW p \in Players, TekAccept(p) PROVE StockInv' BY <1>7, TekAcceptStock, StockPrimes
<1>8. ASSUME NEW p \in Players, NEW n \in 0 .. MaxBuy, Buy(p, n) PROVE StockInv'
  BY <1>8, BuyStock, StockPrimes
<1>9. ASSUME NEW p \in Players, NEW i \in 1 .. Len(inv[p]), Drop(p, i) PROVE StockInv'
  BY <1>9, DropStock, StockPrimes
<1>10. ASSUME NEW p \in Players, NEW i \in 1 .. Len(inv[p]), TekAsk(p, i) PROVE StockInv'
  BY <1>10, TekAskStock, StockPrimes
<1>11. ASSUME NEW p \in Players, NEW i \in 1 .. Len(inv[p]), NEW n \in 1 .. MaxBuy,
              DropSome(p, i, n) \/ Delete(p, i, n) \/ Deposit(p, i, n)
       PROVE  StockInv'
  BY <1>11, DropSomeStock, DeleteStock, DepositStock, StockPrimes
<1>12. ASSUME NEW p \in Players, NEW j \in 1 .. Len(bank[p]), NEW n \in 1 .. MaxBuy, Withdraw(p, j, n)
       PROVE  StockInv'
  BY <1>12, WithdrawStock, StockPrimes
<1>13. CASE UNCHANGED vars BY <1>13, StutterStock, StockPrimes
<1>15. \A p \in Players : Answers(p) \subseteq 1 .. Len(inv[p]) BY DEF Answers
<1> QED BY <1>1, <1>2, <1>3, <1>4, <1>5, <1>6, <1>7, <1>8, <1>9, <1>10, <1>11, <1>12, <1>13, <1>14,
           <1>15
  DEF Next

StockInvOnce == doubled = 0 => StockInv

\* The tools there are and the copies there are of each weapon never exceed what
\* was found, bought and offered, until a sort names a thing twice
\* (SortClientItems).
THEOREM StockAlwaysCounted == Spec => []StockInvOnce
<1>1. ItemsInv /\ IdInvOnce /\ StockInvOnce /\ [Next]_vars => StockInvOnce'
  <2> SUFFICES ASSUME ItemsInv, IdInvOnce, StockInvOnce, [Next]_vars, doubled' = 0 PROVE StockInv'
    BY DEF StockInvOnce
  <2>1. doubled = 0 BY NeverLess
  <2>2. IdInv /\ StockInv BY <2>1 DEF IdInvOnce, StockInvOnce
  <2> QED BY <2>1, <2>2, NextStock
<1>2. Init => StockInvOnce BY InitStock DEF StockInvOnce
<1> QED BY <1>1, <1>2, IdsKept, ItemsAlwaysSound, PTL DEF Spec

\* No sequence of requests makes a tool out of nothing, unless a sort names a
\* thing twice: what lies on the floor, is carried and is banked never adds up to
\* more than was found or bought (AddToInventory, DeleteItemFromClient,
\* DepositIntoBank, WithdrawFromBank).
THEOREM ToolsNeverFromNothing == Spec => []NoToolFromNothing
<1>1. StockInvOnce => NoToolFromNothing
  <2> SUFFICES ASSUME StockInv PROVE Amount(None) <= tools BY DEF StockInvOnce, NoToolFromNothing
  <2> QED BY AmountIs DEF StockInv, StockOK, Bounds
<1> QED BY <1>1, StockAlwaysCounted, PTL

\* A weapon is copied by the tekker only, once for each offer (0x62/B8, 0x62/BA),
\* and by a sort that names a thing twice: without either none is there twice,
\* however it was dropped, banked or sorted.
THEOREM CopiedByTekkerAlways == Spec => []CopiedByTekkerOnly
<1>1. StockInvOnce => CopiedByTekkerOnly
  <2> SUFFICES ASSUME StockInv, NEW w \in 0 .. weapons - 1
               PROVE  Amount(w) + Cardinality({p \in Players : Here(p) /\ tekked[p].serial = w}) <= 1 + teks
    BY DEF StockInvOnce, CopiedByTekkerOnly
  <2> DEFINE out == {p \in Players : Here(p) /\ tekked[p].serial = w}
  <2>1. weapons \in Nat /\ teks \in Nat BY StockNow
  <2>2. w \in Nat /\ w \in Kinds BY <2>1 DEF Kinds
  <2>3. out \in SUBSET Offers(tekked, w) BY DEF Offers
  <2> HIDE DEF out
  <2>4. IsFiniteSet(Offers(tekked, w)) /\ Cardinality(Offers(tekked, w)) \in Nat BY <2>2, StockNow
  <2>5. Cardinality(out) <= Cardinality(Offers(tekked, w)) /\ IsFiniteSet(out) BY <2>3, <2>4, FS_Subset
  <2>6. Cardinality(out) \in Nat BY <2>5, FS_CardinalityType
  <2>7. Sum(floor, inv, bank, w) + Cardinality(Offers(tekked, w)) <= 1 + teks
    BY DEF StockInv, StockOK, Bounds, Total
  <2>8. Sum(floor, inv, bank, w) \in Nat BY <2>2, StockNow, SumNat
  <2>9. Amount(w) = Sum(floor, inv, bank, w) BY AmountIs
  <2> QED BY <2>1, <2>4, <2>5, <2>6, <2>7, <2>8, <2>9 DEF out
<1> QED BY <1>1, StockAlwaysCounted, PTL

=============================================================================

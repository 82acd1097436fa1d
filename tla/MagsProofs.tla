----------------------------- MODULE MagsProofs -----------------------------
(***************************************************************************)
(* Proofs about a mag: that it is what mags of its level are, and forgets  *)
(* no photon blast, whatever it is fed.                                    *)
(***************************************************************************)
EXTENDS Mags, RankingProofs

----------------------------------------------------------------------------
(* Tables and photon blasts                                                *)

\* Which mags teach a blast.
LEMMA TeachesIs ==
  /\ DOMAIN Teaches =
       {"Varuna", "Ravana", "Ribhava"} \cup
       {"Kalki", "Apsaras", "Nandin", "Soma", "Bana", "Durga", "Andhaka"} \cup
       {"Rudra", "Surya", "Sumba", "Varaha", "Yaksa", "Ushasu", "Kumara", "Naraka"} \cup
       {"Marutah", "Mitra", "Ashvinau", "Kama", "Bhirava", "Garuda", "Marica", "Sita"} \cup
       {"Vritra"} \cup {"Vayu", "Tapas", "Namuci", "Ila", "Kabanda", "Kaitabha", "Madhu", "Naga"}
  /\ \A kind \in DOMAIN Teaches : Teaches[kind] \in 0 .. 5
<1> DEFINE U == UNION {Teachers[pb] : pb \in 0 .. 5}
<1>1. /\ Teachers[0] = {"Varuna", "Ravana", "Ribhava"}
      /\ Teachers[1] = {"Kalki", "Apsaras", "Nandin", "Soma", "Bana", "Durga", "Andhaka"}
      /\ Teachers[2] = {"Rudra", "Surya", "Sumba", "Varaha", "Yaksa", "Ushasu", "Kumara", "Naraka"}
      /\ Teachers[3] = {"Marutah", "Mitra", "Ashvinau", "Kama", "Bhirava", "Garuda", "Marica", "Sita"}
      /\ Teachers[4] = {"Vritra"}
      /\ Teachers[5] = {"Vayu", "Tapas", "Namuci", "Ila", "Kabanda", "Kaitabha", "Madhu", "Naga"}
  BY DEF Teachers, Farlla, Estlla, Golla, Pilla, Leilla, Mylla_Youlla
<1>2. 0 .. 5 = {0, 1, 2, 3, 4, 5} OBVIOUS
<1>3. U = Teachers[0] \cup Teachers[1] \cup Teachers[2] \cup Teachers[3] \cup Teachers[4] \cup Teachers[5]
  BY <1>2
<1>4. Teaches = [kind \in U |-> CHOOSE pb \in 0 .. 5 : kind \in Teachers[pb]] BY DEF Teaches
<1>5. \A kind \in U : \E pb \in 0 .. 5 : kind \in Teachers[pb] OBVIOUS
<1> HIDE DEF U
<1>6. DOMAIN Teaches = U BY <1>4
<1>7. \A kind \in U : Teaches[kind] \in 0 .. 5 BY <1>4, <1>5
<1> QED BY <1>1, <1>3, <1>6, <1>7

LEMMA FoodIs ==
  ASSUME NEW t \in 1 .. 8, NEW food \in 1 .. 11, NEW n \in 1 .. 6
  PROVE  Feed_Table[t][food][n] \in Int
<1>1. CASE t = 1 BY <1>1 DEF Feed_Table
<1>2. CASE t = 2 BY <1>2 DEF Feed_Table
<1>3. CASE t = 3 BY <1>3 DEF Feed_Table
<1>4. CASE t = 4 BY <1>4 DEF Feed_Table
<1>5. CASE t = 5 BY <1>5 DEF Feed_Table
<1>6. CASE t = 6 BY <1>6 DEF Feed_Table
<1>7. CASE t = 7 BY <1>7 DEF Feed_Table
<1>8. CASE t = 8 BY <1>8 DEF Feed_Table
<1> QED BY <1>1, <1>2, <1>3, <1>4, <1>5, <1>6, <1>7, <1>8

LEMMA DietIs == ASSUME NEW kind PROVE Diet(kind).table \in 1 .. 8 /\ Diet(kind).EvolutionClass \in 0 .. 4
BY DEF Diet

\* How many elements there are up to q.
LEMMA Below == ASSUME NEW q \in 0 .. 5 PROVE IsFiniteSet(0 .. q - 1) /\ Cardinality(0 .. q - 1) = q
<1>1. 0 \in Int /\ q - 1 \in Int OBVIOUS
<1>2. IsFiniteSet(0 .. q - 1) /\ Cardinality(0 .. q - 1) = IF 0 > q - 1 THEN 0 ELSE q - 1 - 0 + 1
  BY <1>1, FS_Interval
<1> QED BY <1>2

\* How many of the others are less than p.
LEMMA RankOfOther ==
  ASSUME NEW a \in 0 .. 5, NEW b \in 0 .. 5, a # b, NEW p \in (0 .. 5) \ {a, b}
  PROVE  Cardinality({c \in (0 .. 5) \ {a, b} : c < p}) = p - (IF a < p THEN 1 ELSE 0) - (IF b < p THEN 1 ELSE 0)
<1> DEFINE S == 0 .. p - 1
<1>1. {c \in (0 .. 5) \ {a, b} : c < p} = (S \ {a}) \ {b} OBVIOUS
<1>2. IsFiniteSet(S) /\ Cardinality(S) = p BY Below
<1>3. (a \in S <=> a < p) /\ (b \in S \ {a} <=> b < p) OBVIOUS
<1> HIDE DEF S
<1>4. IsFiniteSet(S \ {a}) /\ Cardinality(S \ {a}) = IF a \in S THEN Cardinality(S) - 1 ELSE Cardinality(S)
  BY <1>2, FS_RemoveElement
<1>5. Cardinality((S \ {a}) \ {b}) = IF b \in S \ {a} THEN Cardinality(S \ {a}) - 1 ELSE Cardinality(S \ {a})
  BY <1>4, FS_RemoveElement
<1> QED BY <1>1, <1>2, <1>3, <1>4, <1>5

\* The blasts of a mag, one by one.
LEMMA BlastsAre ==
  ASSUME NEW m, m.PBflags \in {{}, {1}, {1, 2}, {1, 2, 4}}
  PROVE  /\ m.PBflags = {} => Blasts(m) = {}
         /\ m.PBflags = {1} => Blasts(m) = {m.blasts[1]}
         /\ m.PBflags = {1, 2} => Blasts(m) = {m.blasts[1], m.blasts[2]}
         /\ m.PBflags = {1, 2, 4} =>
              Blasts(m) = {m.blasts[1], m.blasts[2]} \cup
                {b \in (0 .. 5) \ {m.blasts[1], m.blasts[2]} :
                   Cardinality({c \in (0 .. 5) \ {m.blasts[1], m.blasts[2]} : c < b}) = m.blasts[3]}
<1>1. m.PBflags = {} => m.PBflags \cap {1, 2} = {} /\ 4 \notin m.PBflags OBVIOUS
<1>2. m.PBflags = {1} => m.PBflags \cap {1, 2} = {1} /\ 4 \notin m.PBflags OBVIOUS
<1>3. m.PBflags = {1, 2} => m.PBflags \cap {1, 2} = {1, 2} /\ 4 \notin m.PBflags OBVIOUS
<1>4. m.PBflags = {1, 2, 4} => m.PBflags \cap {1, 2} = {1, 2} /\ 4 \in m.PBflags OBVIOUS
<1>5. m.PBflags \cap {1, 2} = {} => {m.blasts[i] : i \in m.PBflags \cap {1, 2}} = {} OBVIOUS
<1>6. m.PBflags \cap {1, 2} = {1} => {m.blasts[i] : i \in m.PBflags \cap {1, 2}} = {m.blasts[1]} OBVIOUS
<1>7. m.PBflags \cap {1, 2} = {1, 2} => {m.blasts[i] : i \in m.PBflags \cap {1, 2}} = {m.blasts[1], m.blasts[2]}
  OBVIOUS
<1>8. ASSUME NEW T, {m.blasts[i] : i \in m.PBflags \cap {1, 2}} = T
      PROVE  Blasts(m) = T \cup {b \in (0 .. 5) \ T : 4 \in m.PBflags /\ Cardinality({c \in (0 .. 5) \ T : c < b}) = m.blasts[3]}
  BY <1>8 DEF Blasts
<1>9. m.PBflags = {} => Blasts(m) = {} BY <1>1, <1>5, <1>8
<1>10. m.PBflags = {1} => Blasts(m) = {m.blasts[1]} BY <1>2, <1>6, <1>8
<1>11. m.PBflags = {1, 2} => Blasts(m) = {m.blasts[1], m.blasts[2]} BY <1>3, <1>7, <1>8
<1>12. m.PBflags = {1, 2, 4} =>
         Blasts(m) = {m.blasts[1], m.blasts[2]} \cup
           {b \in (0 .. 5) \ {m.blasts[1], m.blasts[2]} :
              Cardinality({c \in (0 .. 5) \ {m.blasts[1], m.blasts[2]} : c < b}) = m.blasts[3]}
  BY <1>4, <1>7, <1>8
<1> QED BY <1>9, <1>10, <1>11, <1>12

\* The blasts written down are different ones, and the third is one of the others.
Apart(m) ==
  /\ {1, 2} \subseteq m.PBflags => m.blasts[1] # m.blasts[2]
  /\ 4 \in m.PBflags =>
       \E p \in (0 .. 5) \ {m.blasts[1], m.blasts[2]} :
         m.blasts[3] = p - (IF m.blasts[1] < p THEN 1 ELSE 0) - (IF m.blasts[2] < p THEN 1 ELSE 0)

\* With three blasts the third is known.
LEMMA ThirdIs ==
  ASSUME NEW m \in MagRecord, m.PBflags = {1, 2, 4}, m.blasts[1] # m.blasts[2],
         NEW p \in (0 .. 5) \ {m.blasts[1], m.blasts[2]},
         m.blasts[3] = p - (IF m.blasts[1] < p THEN 1 ELSE 0) - (IF m.blasts[2] < p THEN 1 ELSE 0)
  PROVE  Blasts(m) = {m.blasts[1], m.blasts[2], p}
<1> DEFINE a == m.blasts[1]
           b == m.blasts[2]
           Third == {q \in (0 .. 5) \ {a, b} : Cardinality({c \in (0 .. 5) \ {a, b} : c < q}) = m.blasts[3]}
<1>1. a \in 0 .. 5 /\ b \in 0 .. 5 /\ a # b BY DEF MagRecord
<1>2. Blasts(m) = {a, b} \cup Third BY BlastsAre DEF MagRecord
<1> HIDE DEF a, b
<1>3. \A q \in (0 .. 5) \ {a, b} :
        Cardinality({c \in (0 .. 5) \ {a, b} : c < q}) = q - (IF a < q THEN 1 ELSE 0) - (IF b < q THEN 1 ELSE 0)
  BY <1>1, RankOfOther
<1>4. m.blasts[3] = p - (IF a < p THEN 1 ELSE 0) - (IF b < p THEN 1 ELSE 0) /\ p \in (0 .. 5) \ {a, b} BY DEF a, b
<1>5. p \in Third BY <1>3, <1>4
<1>6. ASSUME NEW q \in Third PROVE q = p
  <2>1. q \in (0 .. 5) \ {a, b}
        /\ q - (IF a < q THEN 1 ELSE 0) - (IF b < q THEN 1 ELSE 0)
             = p - (IF a < p THEN 1 ELSE 0) - (IF b < p THEN 1 ELSE 0)
    BY <1>3, <1>4
  <2> QED BY <1>1, <1>4, <2>1
<1> QED BY <1>2, <1>5, <1>6 DEF a, b

\* How many elements small sets have.
LEMMA OneIs == ASSUME NEW a PROVE IsFiniteSet({a}) /\ Cardinality({a}) = 1
BY FS_Singleton

LEMMA TwoAre == ASSUME NEW a, NEW b, a # b PROVE IsFiniteSet({a, b}) /\ Cardinality({a, b}) = 2
<1>1. {a, b} = {a} \cup {b} OBVIOUS
<1>2. IsFiniteSet({a}) /\ Cardinality({a}) = 1 BY OneIs
<1>3. /\ IsFiniteSet({a} \cup {b})
      /\ Cardinality({a} \cup {b}) = IF b \in {a} THEN Cardinality({a}) ELSE Cardinality({a}) + 1
  BY <1>2, FS_AddElement
<1>4. Cardinality({a} \cup {b}) = 2 BY <1>2, <1>3
<1> QED BY <1>1, <1>3, <1>4

LEMMA ThreeAre == ASSUME NEW a, NEW b, NEW c, a # b, c \notin {a, b} PROVE Cardinality({a, b, c}) = 3
<1>1. {a, b, c} = {a, b} \cup {c} OBVIOUS
<1>2. IsFiniteSet({a, b}) /\ Cardinality({a, b}) = 2 BY TwoAre
<1>3. Cardinality({a, b} \cup {c}) = IF c \in {a, b} THEN Cardinality({a, b}) ELSE Cardinality({a, b}) + 1
  BY <1>2, FS_AddElement
<1>4. Cardinality({a, b} \cup {c}) = 3 BY <1>2, <1>3
<1> QED BY <1>1, <1>4

\* As many different blasts as are shown are blasts that are apart, and the other way round.
LEMMA ApartIs ==
  ASSUME NEW m \in MagRecord
  PROVE  Apart(m) <=> Cardinality(Blasts(m)) = Cardinality(m.PBflags)
<1> DEFINE a == m.blasts[1]
           b == m.blasts[2]
           d == m.blasts[3]
           Third == {q \in (0 .. 5) \ {a, b} : Cardinality({c \in (0 .. 5) \ {a, b} : c < q}) = d}
<1>0. m.PBflags \in {{}, {1}, {1, 2}, {1, 2, 4}} /\ a \in 0 .. 5 /\ b \in 0 .. 5 BY DEF MagRecord
<1>1. CASE m.PBflags = {}
  <2>1. Blasts(m) = {} BY <1>1, BlastsAre
  <2> QED BY <1>1, <2>1 DEF Apart
<1>2. CASE m.PBflags = {1}
  <2>1. Blasts(m) = {a} BY <1>2, BlastsAre
  <2>2. Cardinality({a}) = 1 /\ Cardinality({1}) = 1 BY OneIs
  <2>3. Apart(m) BY <1>2 DEF Apart
  <2> QED BY <1>2, <2>1, <2>2, <2>3
<1>3. CASE m.PBflags = {1, 2}
  <2>1. Blasts(m) = {a, b} BY <1>3, BlastsAre
  <2>2. Cardinality({1, 2}) = 2
    <3>1. 1 # 2 OBVIOUS
    <3> QED BY <3>1, TwoAre, Zenon
  <2>3. a # b => Cardinality({a, b}) = 2 BY TwoAre
  <2>4. a = b => Cardinality({a, b}) = 1
    <3>1. a = b => {a, b} = {a} OBVIOUS
    <3> QED BY <3>1, OneIs
  <2>5. Apart(m) <=> a # b BY <1>3 DEF Apart
  <2> QED BY <1>3, <2>1, <2>2, <2>3, <2>4, <2>5
<1>4. CASE m.PBflags = {1, 2, 4}
  <2>1. Blasts(m) = {a, b} \cup Third BY <1>4, BlastsAre
  <2>2. Cardinality({1, 2, 4}) = 3
    <3>1. 1 # 2 /\ 4 \notin {1, 2} OBVIOUS
    <3> QED BY <3>1, ThreeAre, Zenon
  <2>3. ASSUME Apart(m) PROVE Cardinality(Blasts(m)) = 3
    <3>1. a # b BY <1>4, <2>3 DEF Apart
    <3>2. PICK p \in (0 .. 5) \ {a, b} : d = p - (IF a < p THEN 1 ELSE 0) - (IF b < p THEN 1 ELSE 0)
      BY <1>4, <2>3 DEF Apart
    <3>3. Blasts(m) = {a, b, p} BY <1>4, <3>1, <3>2, ThirdIs
    <3> HIDE DEF a, b
    <3>4. Cardinality({a, b, p}) = 3 BY <3>1, ThreeAre
    <3> QED BY <3>3, <3>4
  <2>4. ASSUME Cardinality(Blasts(m)) = 3 PROVE Apart(m)
    <3> HIDE DEF a, b, d, Third
    <3>1. Third # {}
      <4>1. SUFFICES ASSUME Third = {} PROVE FALSE OBVIOUS
      <4>2. Blasts(m) = {a, b} BY <2>1, <4>1
      <4>3. a = b => {a, b} = {a} OBVIOUS
      <4>4. Cardinality({a, b}) = 1 \/ Cardinality({a, b}) = 2 BY <4>3, OneIs, TwoAre
      <4> QED BY <2>4, <4>2, <4>4
    <3>2. PICK p \in Third : TRUE BY <3>1
    <3>3. p \in (0 .. 5) \ {a, b} /\ Cardinality({c \in (0 .. 5) \ {a, b} : c < p}) = d BY <3>2 DEF Third
    <3>4. a # b
      <4>1. SUFFICES ASSUME a = b PROVE FALSE OBVIOUS
      <4>2. ASSUME NEW q \in (0 .. 5) \ {a, b}
            PROVE  Cardinality({c \in (0 .. 5) \ {a, b} : c < q}) = q - (IF a < q THEN 1 ELSE 0)
        <5>1. {c \in (0 .. 5) \ {a, b} : c < q} = (0 .. q - 1) \ {a} BY <4>1
        <5>2. IsFiniteSet(0 .. q - 1) /\ Cardinality(0 .. q - 1) = q BY Below
        <5>3. Cardinality((0 .. q - 1) \ {a})
                = IF a \in 0 .. q - 1 THEN Cardinality(0 .. q - 1) - 1 ELSE Cardinality(0 .. q - 1)
          BY <5>2, FS_RemoveElement
        <5>4. a \in 0 .. q - 1 <=> a < q BY <1>0
        <5>5. Cardinality((0 .. q - 1) \ {a}) = q - (IF a < q THEN 1 ELSE 0) BY <5>2, <5>3, <5>4
        <5> QED BY <5>1, <5>5
      <4>3. ASSUME NEW q \in Third PROVE q = p
        <5>1. q \in (0 .. 5) \ {a, b} /\ Cardinality({c \in (0 .. 5) \ {a, b} : c < q}) = d BY DEF Third
        <5>2. q - (IF a < q THEN 1 ELSE 0) = p - (IF a < p THEN 1 ELSE 0) BY <3>3, <4>2, <5>1
        <5> QED BY <1>0, <3>3, <4>1, <5>1, <5>2
      <4>4. Blasts(m) = {a, p} BY <2>1, <3>2, <4>1, <4>3
      <4>5. a # p BY <3>3
      <4>6. Cardinality({a, p}) = 2 BY <4>5, TwoAre
      <4> QED BY <2>4, <4>4, <4>6
    <3>5. d = p - (IF a < p THEN 1 ELSE 0) - (IF b < p THEN 1 ELSE 0) BY <1>0, <3>3, <3>4, RankOfOther
    <3> QED BY <3>3, <3>4, <3>5 DEF Apart, a, b, d
  <2> QED BY <1>4, <2>2, <2>3, <2>4
<1> QED BY <1>0, <1>1, <1>2, <1>3, <1>4

\* What n has over m is what it was taught.
SameValues(m, n) ==
  /\ n.level = m.level /\ n.defense = m.defense /\ n.power = m.power /\ n.dex = m.dex /\ n.mind = m.mind
  /\ n.synchro = m.synchro /\ n.IQ = m.IQ

Learnt(m, n) ==
  /\ n \in MagRecord /\ Apart(n)
  /\ Blasts(m) \subseteq Blasts(n) /\ (4 \in m.PBflags => 4 \in n.PBflags)
  /\ n.mtype # m.mtype /\ n.mtype \in DOMAIN Teaches => Teaches[n.mtype] \in Blasts(n) \/ 4 \in n.PBflags

LEMMA LearntOn ==
  ASSUME NEW m, NEW n, NEW o, Learnt(m, n), Learnt(n, o)
  PROVE  Learnt(m, o)
BY DEF Learnt

LEMMA SameBlasts ==
  ASSUME NEW m, NEW n, n.PBflags = m.PBflags, n.blasts = m.blasts
  PROVE  Blasts(n) = Blasts(m) /\ (Apart(n) <=> Apart(m))
BY DEF Blasts, Apart

Showing(m, flags, bl) == [m EXCEPT !.PBflags = flags, !.blasts = bl]

Shown == {{}, {1}, {1, 2}, {1, 2, 4}}
BlastSlots == (0 .. 5) \X (0 .. 5) \X (0 .. 3)

LEMMA ShowingIs ==
  ASSUME NEW m \in MagRecord, NEW flags \in Shown, NEW bl \in BlastSlots
  PROVE  LET n == Showing(m, flags, bl)
         IN n \in MagRecord /\ SameValues(m, n) /\ n.mtype = m.mtype /\ n.PBflags = flags /\ n.blasts = bl
BY DEF MagRecord, SameValues, Showing, Shown, BlastSlots

\* A blast that is taught is known, or three others are.
LEMMA AddPBIs ==
  ASSUME NEW m \in MagRecord, Apart(m), NEW pb \in 0 .. 5
  PROVE  LET n == AddPB(m, pb)
         IN /\ n \in MagRecord /\ Apart(n) /\ SameValues(m, n) /\ n.mtype = m.mtype
            /\ Blasts(m) \subseteq Blasts(n) /\ (4 \in m.PBflags => 4 \in n.PBflags)
            /\ pb \in Blasts(n) \/ 4 \in n.PBflags
<1> DEFINE n == AddPB(m, pb)
           a == m.blasts[1]
           b == m.blasts[2]
           third == pb - Cardinality({i \in {1, 2} : m.blasts[i] < pb})
<1>0. /\ m.PBflags \in {{}, {1}, {1, 2}, {1, 2, 4}} /\ a \in 0 .. 5 /\ b \in 0 .. 5 /\ m.blasts[3] \in 0 .. 3
      /\ m.blasts = <<a, b, m.blasts[3]>>
  BY DEF MagRecord
<1>2. CASE \/ 1 \in m.PBflags /\ a = pb
           \/ 2 \in m.PBflags /\ b = pb
           \/ 4 \in m.PBflags
  <2>1. n = m BY <1>2 DEF AddPB
  <2>2. pb \in Blasts(m) \/ 4 \in m.PBflags BY <1>0, <1>2, BlastsAre
  <2> QED BY <2>1, <2>2 DEF SameValues
<1>3. CASE m.PBflags = {}
  <2>1. n = [m EXCEPT !.PBflags = {1}, !.blasts = <<pb, b, m.blasts[3]>>]
    <3>1. 1 \notin m.PBflags /\ 2 \notin m.PBflags /\ 4 \notin m.PBflags BY <1>3
    <3>3. n = [m EXCEPT !.PBflags = @ \cup {1}, !.blasts[1] = pb] BY <3>1, Zenon DEF AddPB
    <3>4. m.PBflags \cup {1} = {1} BY <1>3
    <3>2. [m.blasts EXCEPT ![1] = pb] = <<pb, b, m.blasts[3]>> BY <1>0
    <3> QED BY <3>2, <3>3, <3>4
  <2>2. PICK bl \in BlastSlots : bl = <<pb, b, m.blasts[3]>> BY <1>0 DEF BlastSlots
  <2>21. {1} \in Shown BY DEF Shown
  <2>22. n = Showing(m, {1}, bl) BY <2>1, <2>2, Zenon DEF Showing
  <2> HIDE DEF n, a, b, third
  <2>23. n \in MagRecord /\ SameValues(m, n) /\ n.mtype = m.mtype /\ n.PBflags = {1} /\ n.blasts = bl
    BY <2>21, <2>22, ShowingIs
  <2>3. n \in MagRecord /\ SameValues(m, n) /\ n.mtype = m.mtype /\ n.PBflags = {1} /\ n.blasts[1] = pb
    BY <2>2, <2>23
  <2> USE DEF a, b
  <2>4. Blasts(m) = {} /\ Blasts(n) = {pb} BY <1>3, <2>3, BlastsAre
  <2>5. Apart(n) BY <2>3 DEF Apart
  <2> QED BY <1>3, <2>3, <2>4, <2>5 DEF n
<1>4. CASE m.PBflags = {1} /\ a # pb
  <2>1. n = [m EXCEPT !.PBflags = {1, 2}, !.blasts = <<a, pb, m.blasts[3]>>]
    <3>1. n = [m EXCEPT !.PBflags = @ \cup {2}, !.blasts[2] = pb] BY <1>4 DEF AddPB
    <3>2. [m.blasts EXCEPT ![2] = pb] = <<a, pb, m.blasts[3]>> BY <1>0
    <3>3. m.PBflags \cup {2} = {1, 2} BY <1>4
    <3> QED BY <3>1, <3>2, <3>3
  <2>2. PICK bl \in BlastSlots : bl = <<a, pb, m.blasts[3]>> BY <1>0 DEF BlastSlots
  <2>21. {1, 2} \in Shown BY DEF Shown
  <2>22. n = Showing(m, {1, 2}, bl) BY <2>1, <2>2, Zenon DEF Showing
  <2> HIDE DEF n, a, b, third
  <2>23. n \in MagRecord /\ SameValues(m, n) /\ n.mtype = m.mtype /\ n.PBflags = {1, 2} /\ n.blasts = bl
    BY <2>21, <2>22, ShowingIs
  <2>3. /\ n \in MagRecord /\ SameValues(m, n) /\ n.mtype = m.mtype /\ n.PBflags = {1, 2}
        /\ n.blasts[1] = a /\ n.blasts[2] = pb
    BY <2>2, <2>23
  <2> USE DEF a, b
  <2>4. Blasts(m) = {a} /\ Blasts(n) = {a, pb} BY <1>4, <2>3, BlastsAre
  <2>5. Apart(n) BY <1>4, <2>3 DEF Apart
  <2> QED BY <1>4, <2>3, <2>4, <2>5 DEF n
<1>5. CASE m.PBflags = {1, 2} /\ a # pb /\ b # pb
  <2>1. a # b BY <1>5 DEF Apart
  <2>2. third = pb - (IF a < pb THEN 1 ELSE 0) - (IF b < pb THEN 1 ELSE 0)
    <3> DEFINE S == {i \in {1, 2} : m.blasts[i] < pb}
    <3>1. CASE a < pb /\ b < pb
      <4>1. S = {1, 2} BY <3>1
      <4>2. Cardinality({1, 2}) = 2
        <5>1. 1 # 2 OBVIOUS
        <5> QED BY <5>1, TwoAre, Zenon
      <4> QED BY <1>0, <3>1, <4>1, <4>2
    <3>2. CASE a < pb /\ ~(b < pb)
      <4>1. S = {1} BY <3>2
      <4>2. Cardinality({1}) = 1 BY OneIs
      <4> QED BY <1>0, <3>2, <4>1, <4>2
    <3>3. CASE ~(a < pb) /\ b < pb
      <4>1. S = {2} BY <3>3
      <4>2. Cardinality({2}) = 1 BY OneIs
      <4> QED BY <1>0, <3>3, <4>1, <4>2
    <3>4. CASE ~(a < pb) /\ ~(b < pb)
      <4>1. S = {} BY <3>4
      <4>2. Cardinality({}) = 0 BY FS_EmptySet
      <4> QED BY <1>0, <3>4, <4>1, <4>2
    <3> QED BY <3>1, <3>2, <3>3, <3>4
  <2>3. n = [m EXCEPT !.PBflags = {1, 2, 4}, !.blasts = <<a, b, third>>]
    <3>0. 1 \in m.PBflags /\ 2 \in m.PBflags /\ 4 \notin m.PBflags /\ m.PBflags # {1} BY <1>5
    <3>1. n = [m EXCEPT !.PBflags = @ \cup {4}, !.blasts[3] = third] BY <1>5, <3>0, Zenon DEF AddPB
    <3> HIDE DEF third
    <3>2. [m.blasts EXCEPT ![3] = third] = <<a, b, third>> BY <1>0
    <3>3. m.PBflags \cup {4} = {1, 2, 4} BY <1>5
    <3> QED BY <3>1, <3>2, <3>3
  <2> HIDE DEF third
  <2>4. third \in 0 .. 3 BY <1>0, <1>5, <2>1, <2>2
  <2>5. PICK bl \in BlastSlots : bl = <<a, b, third>> BY <1>0, <2>4 DEF BlastSlots
  <2>51. {1, 2, 4} \in Shown BY DEF Shown
  <2>52. n = Showing(m, {1, 2, 4}, bl) BY <2>3, <2>5, Zenon DEF Showing
  <2> HIDE DEF n, a, b, third
  <2>53. n \in MagRecord /\ SameValues(m, n) /\ n.mtype = m.mtype /\ n.PBflags = {1, 2, 4} /\ n.blasts = bl
    BY <2>51, <2>52, ShowingIs
  <2>6. /\ n \in MagRecord /\ SameValues(m, n) /\ n.mtype = m.mtype /\ n.PBflags = {1, 2, 4}
        /\ n.blasts[1] = a /\ n.blasts[2] = b /\ n.blasts[3] = third
    BY <2>5, <2>53
  <2> USE DEF a, b
  <2>7. Blasts(m) = {a, b} BY <1>5, BlastsAre
  <2>8. pb \in (0 .. 5) \ {a, b} BY <1>5
  <2>9. Blasts(n) = {a, b, pb} BY <2>1, <2>2, <2>6, <2>8, ThirdIs
  <2>10. Apart(n) BY <2>1, <2>2, <2>6, <2>8 DEF Apart
  <2> QED BY <1>5, <2>6, <2>7, <2>9, <2>10 DEF n
<1> QED BY <1>0, <1>2, <1>3, <1>4, <1>5

LEMMA BecomeIs ==
  ASSUME NEW m \in MagRecord, Apart(m), NEW kind \in DOMAIN Teaches
  PROVE  Learnt(m, Become(m, kind)) /\ SameValues(m, Become(m, kind)) /\ Become(m, kind).mtype = kind
<1> DEFINE o == [m EXCEPT !.mtype = kind]
           n == AddPB(o, Teaches[kind])
<1>1. Teaches[kind] \in 0 .. 5 /\ kind \in Kinds BY TeachesIs DEF Kinds
<1>2. /\ o \in MagRecord /\ o.mtype = kind /\ SameValues(m, o) /\ o.PBflags = m.PBflags /\ o.blasts = m.blasts
  BY <1>1 DEF MagRecord, SameValues
<1> HIDE DEF o
<1>3. Blasts(o) = Blasts(m) /\ Apart(o) BY <1>2, SameBlasts
<1>4. /\ n \in MagRecord /\ Apart(n) /\ SameValues(o, n) /\ n.mtype = o.mtype
      /\ Blasts(o) \subseteq Blasts(n) /\ (4 \in o.PBflags => 4 \in n.PBflags)
      /\ Teaches[kind] \in Blasts(n) \/ 4 \in n.PBflags
  BY <1>1, <1>2, <1>3, AddPBIs
<1>5. Become(m, kind) = n BY DEF Become, o
<1> HIDE DEF n
<1>6. Learnt(m, n) BY <1>2, <1>3, <1>4 DEF Learnt
<1>7. SameValues(m, n) BY <1>2, <1>4 DEF SameValues
<1> QED BY <1>2, <1>4, <1>5, <1>6, <1>7

LEMMA OtherKind ==
  ASSUME NEW m \in MagRecord, Apart(m), NEW kind \in Kinds, kind \notin DOMAIN Teaches
  PROVE  LET n == [m EXCEPT !.mtype = kind] IN Learnt(m, n) /\ SameValues(m, n) /\ n.mtype = kind
<1> DEFINE n == [m EXCEPT !.mtype = kind]
<1>1. n \in MagRecord /\ n.mtype = kind /\ SameValues(m, n) /\ n.PBflags = m.PBflags /\ n.blasts = m.blasts
  BY DEF MagRecord, SameValues
<1> HIDE DEF n
<1>2. Blasts(n) = Blasts(m) /\ Apart(n) BY <1>1, SameBlasts
<1> QED BY <1>1, <1>2 DEF Learnt, n

----------------------------------------------------------------------------

EvolutionOf(m) == Diet(m.mtype).EvolutionClass

LEMMA AlignmentIs ==
  ASSUME NEW m \in MagRecord, NEW calling \in {"HU", "RA", "FO"}
  PROVE  MagAlignment(m, calling) \in {"power", "dex", "mind"}
<1> DEFINE top == {v \in {"power", "dex", "mind"} : \A w \in {"power", "dex", "mind"} : m[w] <= m[v]}
           own == [HU |-> "power", RA |-> "dex", FO |-> "mind"]
<1>1. MagAlignment(m, calling) = IF Cardinality(top) = 1 THEN CHOOSE v \in top : TRUE ELSE own[calling]
  BY DEF MagAlignment
<1>2. own[calling] \in {"power", "dex", "mind"} OBVIOUS
<1>3. top \subseteq {"power", "dex", "mind"} OBVIOUS
<1> HIDE DEF top, own
<1>4. Cardinality(top) = 1 => \E v : v \in top
  <2>1. SUFFICES ASSUME Cardinality(top) = 1, top = {} PROVE FALSE OBVIOUS
  <2> QED BY <2>1, FS_EmptySet
<1>5. (\E v : v \in top) => (CHOOSE v \in top : TRUE) \in top OBVIOUS
<1> QED BY <1>1, <1>2, <1>3, <1>4, <1>5

LEMMA CallingIs == ASSUME NEW class PROVE Calling(class) \in {"HU", "RA", "FO"}
BY DEF Calling

\* What a mag of ten levels becomes, one of thirty-five, and one of fifty or more.
LEMMA LV10Is ==
  ASSUME NEW m \in MagRecord, Apart(m), NEW k
  PROVE  LET n == MagLV10Evolution(m, k) IN Learnt(m, n) /\ SameValues(m, n) /\ EvolutionOf(n) = 1
<1> DEFINE kind == [HU |-> "Varuna", RA |-> "Kalki", FO |-> "Vritra"][Calling(k.class)]
<1>1. kind \in {"Varuna", "Kalki", "Vritra"} BY CallingIs
<1>2. MagLV10Evolution(m, k) = Become(m, kind) BY DEF MagLV10Evolution
<1> HIDE DEF kind
<1>3. kind \in DOMAIN Teaches BY <1>1, TeachesIs
<1>4. \A c \in {"Varuna", "Kalki", "Vritra"} : Diet(c).EvolutionClass = 1 BY DEF Diet
<1> QED BY <1>1, <1>2, <1>3, <1>4, BecomeIs DEF EvolutionOf

LEMMA LV35Is ==
  ASSUME NEW m \in MagRecord, Apart(m), NEW k
  PROVE  LET n == MagLV35Evolution(m, k) IN Learnt(m, n) /\ SameValues(m, n) /\ EvolutionOf(n) \in {2, 3}
<1> DEFINE calling == Calling(k.class)
           align == MagAlignment(m, calling)
           Thirty == {"Rudra", "Marutah", "Vayu", "Surya", "Mitra", "Tapas", "Sumba", "Ashvinau", "Namuci"}
           kind == [HU |-> [power |-> "Rudra", dex |-> "Marutah",  mind |-> "Vayu"],
                    RA |-> [power |-> "Surya", dex |-> "Mitra",    mind |-> "Tapas"],
                    FO |-> [power |-> "Sumba", dex |-> "Ashvinau", mind |-> "Namuci"]][calling][align]
<1>1. MagLV35Evolution(m, k) = Become(m, kind) BY DEF MagLV35Evolution
<1>2. calling \in {"HU", "RA", "FO"} BY CallingIs
<1>3. align \in {"power", "dex", "mind"} BY <1>2, AlignmentIs
<1> HIDE DEF calling, align
<1>4. kind \in Thirty BY <1>2, <1>3
<1> HIDE DEF kind
<1>5. kind \in DOMAIN Teaches BY <1>4, TeachesIs
<1>6. \A c \in Thirty : Diet(c).EvolutionClass \in {2, 3} BY DEF Diet
<1> QED BY <1>1, <1>4, <1>5, <1>6, BecomeIs DEF EvolutionOf

\* What the tables have.
Latest ==
  {"Apsaras", "Kama", "Bhirava", "Varaha", "Garuda", "Yaksa", "Ila", "Nandin"} \cup
  {"Soma", "Bana", "Ushasu", "Kabanda", "Kaitabha", "Madhu", "Durga", "Naga"} \cup
  {"Marica", "Ravana", "Naraka", "Ribhava", "Sita", "Kumara", "Andhaka"}

LEMMA LatestIs == \A kind \in Latest : kind \in DOMAIN Teaches /\ Diet(kind).EvolutionClass = 3
<1>1. \A kind \in Latest : Diet(kind).EvolutionClass = 3 BY DEF Diet, Latest
<1>2. Latest \subseteq DOMAIN Teaches BY TeachesIs DEF Latest
<1> QED BY <1>1, <1>2

LEMMA TablesAre ==
  ASSUME NEW align \in {"power", "dex", "mind"}, NEW column \in 1 .. 4
  PROVE  HunterMags[align][column] \in Latest /\ RangerMags[align][column] \in Latest
         /\ ForceMags[align][column] \in Latest
<1>1. HunterMags[align][column] \in Latest BY DEF HunterMags, Latest
<1>2. RangerMags[align][column] \in Latest BY DEF RangerMags, Latest
<1>3. ForceMags[align][column] \in Latest BY DEF ForceMags, Latest
<1> QED BY <1>1, <1>2, <1>3

LEMMA LV50Is ==
  ASSUME NEW m \in MagRecord, Apart(m), NEW k
  PROVE  LET n == MagLV50Evolution(m, k) IN Learnt(m, n) /\ SameValues(m, n) /\ EvolutionOf(n) = 3
<1> DEFINE calling == Calling(k.class)
           align == MagAlignment(m, calling)
           second == CASE align = "power" -> Levels(m, "mind") > Levels(m, "dex")
                       [] align = "dex" -> Levels(m, "power") > Levels(m, "mind")
                       [] align = "mind" -> Levels(m, "dex") > Levels(m, "power")
           column == (IF Odd(k.section) THEN 1 ELSE 3) + (IF second THEN 0 ELSE 1)
           kind == IF calling = "FO" /\ Levels(m, "defense") > 44
                   THEN IF align = "power" THEN "Andhaka" ELSE "Bana"
                   ELSE [HU |-> HunterMags, RA |-> RangerMags, FO |-> ForceMags][calling][align][column]
<1>1. MagLV50Evolution(m, k) = Become(m, kind) BY DEF MagLV50Evolution
<1>2. calling \in {"HU", "RA", "FO"} BY CallingIs
<1>3. align \in {"power", "dex", "mind"} BY <1>2, AlignmentIs
<1> HIDE DEF calling, align
<1>4. column \in 1 .. 4
  <2> HIDE DEF second
  <2> QED OBVIOUS
<1> HIDE DEF column
<1>5. HunterMags[align][column] \in Latest /\ RangerMags[align][column] \in Latest
      /\ ForceMags[align][column] \in Latest
  BY <1>3, <1>4, TablesAre
<1>6. [HU |-> HunterMags, RA |-> RangerMags, FO |-> ForceMags][calling][align][column] \in Latest
  BY <1>2, <1>5
<1>7. "Andhaka" \in Latest /\ "Bana" \in Latest BY DEF Latest
<1>8. kind \in Latest BY <1>6, <1>7
<1> HIDE DEF kind
<1>9. kind \in DOMAIN Teaches /\ Diet(kind).EvolutionClass = 3 BY <1>8, LatestIs
<1> QED BY <1>1, <1>9, BecomeIs DEF EvolutionOf

Characters == [class : Classes, section : ToSet(Sections)]

LEMMA ClassesAre ==
  Classes = {"HUmar", "HUnewearl", "HUcast", "HUcaseal"} \cup {"RAmar", "RAcast", "RAcaseal", "RAmarl"}
              \cup {"FOnewm", "FOnewearl", "FOmarl", "FOmar"}
<1>1. ASSUME NEW a, NEW b, NEW c, NEW d PROVE ToSet(<<a, b, c, d>>) = {a, b, c, d}
  <2>1. DOMAIN <<a, b, c, d>> = {1, 2, 3, 4} OBVIOUS
  <2> QED BY <2>1 DEF ToSet
<1> QED BY <1>1 DEF Classes, Hunters, Rangers, Forces

Final == {"Deva", "Rati", "Savitri", "Pushan", "Dewari", "Rukmin", "Nidra", "Sato", "Bhima"}

LEMMA SpecialIs == ASSUME NEW k \in Characters PROVE MagSpecial(k) \in Final
<1>1. k.class \in Classes BY DEF Characters
<1>2. k.class \in {"HUmar", "HUcast"} \cup {"HUnewearl", "HUcaseal"} \cup {"RAmar", "RAcast"}
                  \cup {"RAcaseal", "RAmarl"} \cup {"FOnewm", "FOmar"} \cup {"FOnewearl", "FOmarl"}
  BY <1>1, ClassesAre
<1> QED BY <1>2 DEF MagSpecial, Final

LEMMA FinalIs ==
  \A kind \in Final : kind \in Kinds /\ kind \notin DOMAIN Teaches /\ Diet(kind).EvolutionClass = 4
<1>1. \A kind \in Final : Diet(kind).EvolutionClass = 4 BY DEF Diet, Final
<1>2. \A kind \in Final : kind \notin DOMAIN Teaches BY TeachesIs DEF Final
<1>3. Final \subseteq Kinds BY DEF Final, Kinds
<1> QED BY <1>1, <1>2, <1>3

\* What becomes of a mag that has gained a level, and when nothing does.
LEMMA EvolutionIs ==
  ASSUME NEW m \in MagRecord, Apart(m), NEW k \in Characters, NEW E \in 0 .. 4
  PROVE  LET n == CheckMagEvolution(m, k, E)
         IN /\ Learnt(m, n) /\ SameValues(m, n)
            /\ m.level \in 10 .. 34 /\ E = 0 => EvolutionOf(n) = 1
            /\ m.level \in 35 .. 49 /\ E < 2 => EvolutionOf(n) \in {2, 3}
            /\ m.level < 50 /\ ~(m.level \in 10 .. 34 /\ E = 0) /\ ~(m.level \in 35 .. 49 /\ E < 2) => n = m
            /\ m.level >= 50 => n = m \/ EvolutionOf(n) \in {3, 4}
<1> DEFINE n == CheckMagEvolution(m, k, E)
<1>0. m.level \in Nat BY DEF MagRecord
<1>1. CASE m.level \in 10 .. 34 /\ E <= 0
  <2>1. n = MagLV10Evolution(m, k) BY <1>0, <1>1 DEF CheckMagEvolution
  <2> HIDE DEF n
  <2>2. Learnt(m, n) /\ SameValues(m, n) /\ EvolutionOf(n) = 1 BY <2>1, LV10Is
  <2> QED BY <1>0, <1>1, <2>2 DEF n
<1>2. CASE m.level \in 35 .. 49 /\ E < 2
  <2>1. n = MagLV35Evolution(m, k) BY <1>0, <1>2 DEF CheckMagEvolution
  <2> HIDE DEF n
  <2>2. Learnt(m, n) /\ SameValues(m, n) /\ EvolutionOf(n) \in {2, 3} BY <2>1, LV35Is
  <2> QED BY <1>0, <1>2, <2>2 DEF n
<1>3. CASE m.level >= 50 /\ m.level % 5 = 0 /\ E <= 3
  <2>0. ~(m.level \in 10 .. 34 /\ E <= 0) /\ ~(m.level \in 35 .. 49 /\ E < 2) BY <1>0, <1>3
  <2>1. n = IF m.level >= 100 /\ InBalance(m, k.section) /\ m.mtype # MagSpecial(k) THEN [m EXCEPT !.mtype = MagSpecial(k)]
            ELSE MagLV50Evolution(m, k)
    BY <1>3, <2>0, Zenon DEF CheckMagEvolution
  <2> HIDE DEF n
  <2>2. CASE m.level >= 100 /\ InBalance(m, k.section) /\ m.mtype # MagSpecial(k)
    <3>1. MagSpecial(k) \in Final BY SpecialIs
    <3>2. MagSpecial(k) \in Kinds /\ MagSpecial(k) \notin DOMAIN Teaches /\ Diet(MagSpecial(k)).EvolutionClass = 4
      BY <3>1, FinalIs
    <3>3. n = [m EXCEPT !.mtype = MagSpecial(k)] BY <2>1, <2>2
    <3>4. Learnt(m, n) /\ SameValues(m, n) /\ n.mtype = MagSpecial(k) BY <3>2, <3>3, OtherKind
    <3> QED BY <1>0, <1>3, <3>2, <3>4 DEF n, EvolutionOf
  <2>3. CASE ~(m.level >= 100 /\ InBalance(m, k.section) /\ m.mtype # MagSpecial(k))
    <3>1. n = MagLV50Evolution(m, k) BY <2>1, <2>3
    <3>2. Learnt(m, n) /\ SameValues(m, n) /\ EvolutionOf(n) = 3 BY <3>1, LV50Is
    <3> QED BY <1>0, <1>3, <3>2 DEF n
  <2> QED BY <2>2, <2>3
<1>4. CASE /\ ~(m.level \in 10 .. 34 /\ E <= 0) /\ ~(m.level \in 35 .. 49 /\ E < 2)
           /\ ~(m.level >= 50 /\ m.level % 5 = 0 /\ E <= 3)
  <2>1. n = m BY <1>4, Zenon DEF CheckMagEvolution
  <2> HIDE DEF n
  <2>2. Learnt(m, n) /\ SameValues(m, n) BY <2>1 DEF Learnt, SameValues
  <2> QED BY <1>0, <1>4, <2>1, <2>2 DEF n
<1> QED BY <1>1, <1>2, <1>3, <1>4

\* A mag in the midst of a meal that began when it was of evolution class E.
Summed(m) == m.level = Levels(m, "defense") + Levels(m, "power") + Levels(m, "dex") + Levels(m, "mind")

Stage(m) ==
  /\ m.level < 10 => EvolutionOf(m) \in {0, 4}
  /\ m.level \in 10 .. 34 => EvolutionOf(m) \in {1, 4}
  /\ m.level >= 35 => EvolutionOf(m) >= 2

Midway(m, E) ==
  /\ m \in MagRecord /\ Apart(m) /\ m.level \in 0 .. 200 /\ Summed(m) /\ Stage(m)
  /\ m.level < 10 => EvolutionOf(m) = E
  /\ m.level < 35 /\ E >= 2 => EvolutionOf(m) = E

Values == {"defense", "power", "dex", "mind"}

\* The mag has just come from this level to the next one, and has not changed its kind since.
Risen(m, E, level) ==
  /\ level \in 0 .. 200 /\ E \in 0 .. 4
  /\ m \in MagRecord /\ Apart(m) /\ Summed(m) /\ m.level = (IF level = 200 THEN 200 ELSE level + 1)
  /\ level < 10 => EvolutionOf(m) \in {0, 4} /\ EvolutionOf(m) = E
  /\ level \in 10 .. 34 => EvolutionOf(m) \in {1, 4}
  /\ level >= 35 => EvolutionOf(m) >= 2
  /\ level < 35 /\ E >= 2 => EvolutionOf(m) = E

Settled(m, n, E) == Midway(n, E) /\ Learnt(m, n) /\ SameValues(m, n)

\* What a gained level does.
LEMMA LevelIs ==
  ASSUME NEW m, NEW k \in Characters, NEW E, NEW level, Risen(m, E, level)
  PROVE  Settled(m, CheckMagEvolution(m, k, E), E)
<1> DEFINE n == CheckMagEvolution(m, k, E)
<1>0. /\ level \in 0 .. 200 /\ E \in 0 .. 4
      /\ m \in MagRecord /\ Apart(m) /\ Summed(m) /\ m.level = (IF level = 200 THEN 200 ELSE level + 1)
      /\ level < 10 => EvolutionOf(m) \in {0, 4} /\ EvolutionOf(m) = E
      /\ level \in 10 .. 34 => EvolutionOf(m) \in {1, 4}
      /\ level >= 35 => EvolutionOf(m) >= 2
      /\ level < 35 /\ E >= 2 => EvolutionOf(m) = E
  BY DEF Risen
<1>1. /\ Learnt(m, n) /\ SameValues(m, n)
      /\ m.level \in 10 .. 34 /\ E = 0 => EvolutionOf(n) = 1
      /\ m.level \in 35 .. 49 /\ E < 2 => EvolutionOf(n) \in {2, 3}
      /\ m.level < 50 /\ ~(m.level \in 10 .. 34 /\ E = 0) /\ ~(m.level \in 35 .. 49 /\ E < 2) => n = m
      /\ m.level >= 50 => n = m \/ EvolutionOf(n) \in {3, 4}
  BY <1>0, EvolutionIs
<1> HIDE DEF n
<1>2. n \in MagRecord /\ Apart(n) /\ n.level = m.level BY <1>1 DEF Learnt, SameValues
<1>3. Summed(n) BY <1>0, <1>1 DEF Summed, Levels, SameValues
<1>4. m.level \in 0 .. 200 /\ (level = 200 => m.level = 200) /\ (level < 200 => m.level = level + 1) BY <1>0
<1> DEFINE c == EvolutionOf(n)
           e == EvolutionOf(m)
           l == m.level
<1>5. /\ l \in 10 .. 34 /\ E = 0 => c = 1
      /\ l \in 35 .. 49 /\ E < 2 => c \in {2, 3}
      /\ l < 50 /\ ~(l \in 10 .. 34 /\ E = 0) /\ ~(l \in 35 .. 49 /\ E < 2) => c = e
      /\ l >= 50 => c = e \/ c \in {3, 4}
  BY <1>1
<1>6. /\ level < 10 => e \in {0, 4} /\ e = E
      /\ level \in 10 .. 34 => e \in {1, 4}
      /\ level >= 35 => e >= 2
      /\ level < 35 /\ E >= 2 => e = E
  BY <1>0
<1>7. e \in 0 .. 4 /\ c \in 0 .. 4 BY DietIs DEF EvolutionOf
<1>8. /\ n.level = l /\ l \in 0 .. 200 /\ (level = 200 => l = 200) /\ (level < 200 => l = level + 1)
      /\ level \in 0 .. 200 /\ E \in 0 .. 4
  BY <1>0, <1>2, <1>4
<1> HIDE DEF c, e, l
<1>9. /\ l < 10 => c \in {0, 4} /\ c = E
      /\ l \in 10 .. 34 => c \in {1, 4}
      /\ l >= 35 => c >= 2
      /\ l < 35 /\ E >= 2 => c = E
  <2>1. CASE l < 10 BY <1>5, <1>6, <1>7, <1>8, <2>1
  <2>2. CASE l \in 10 .. 34 BY <1>5, <1>6, <1>7, <1>8, <2>2
  <2>3. CASE l >= 35 BY <1>5, <1>6, <1>7, <1>8, <2>3
  <2> QED BY <1>8, <2>1, <2>2, <2>3
<1>10. Stage(n) /\ (n.level < 10 => EvolutionOf(n) = E) /\ (n.level < 35 /\ E >= 2 => EvolutionOf(n) = E)
  BY <1>8, <1>9 DEF Stage, c
<1>11. n \in MagRecord /\ Apart(n) /\ n.level \in 0 .. 200 /\ Summed(n) BY <1>2, <1>3, <1>4
<1>12. Midway(n, E) BY <1>10, <1>11 DEF Midway
<1>13. Settled(m, n, E) BY <1>1, <1>12 DEF Settled
<1> QED BY <1>13 DEF n

LEMMA WithinIs ==
  ASSUME NEW x \in Int, NEW low \in Int, NEW high \in Int, low <= high
  PROVE  Within(x, low, high) \in low .. high
BY DEF Within

\* What a hundred gained does to the levels of a value.
LEMMA LevelsAre ==
  ASSUME NEW x \in Int, NEW part \in 0 .. 199
  PROVE  /\ 100 * (x \div 100) + part \in Int
         /\ (100 * (x \div 100) + part) \div 100 = (x \div 100) + (IF part >= 100 THEN 1 ELSE 0)
<1> DEFINE q == x \div 100
<1>1. q \in Int OBVIOUS
<1> HIDE DEF q
<1>2. 100 * q + part \in Int BY <1>1
<1>3. (100 * q + part) \div 100 = q + (IF part >= 100 THEN 1 ELSE 0) BY <1>1
<1> QED BY <1>2, <1>3 DEF q

\* What feeding makes of a mag before it becomes another; a part of a hundred or more is a level.
Parts == 0 .. 199
MagLevels == 0 .. 200
Carried(part) == IF part >= 100 THEN 1 ELSE 0

FedAs(m, n, value, part, level) ==
  /\ n \in MagRecord /\ n.level = level /\ Levels(n, value) = Levels(m, value) + Carried(part)
  /\ \A v \in Values \ {value} : n[v] = m[v]
  /\ n.mtype = m.mtype /\ n.synchro = m.synchro /\ n.IQ = m.IQ
  /\ n.PBflags = m.PBflags /\ n.blasts = m.blasts

\* A value is fed.
LEMMA FedIs ==
  ASSUME NEW m \in MagRecord, NEW value \in Values, NEW part \in Parts, NEW level \in MagLevels
  PROVE  FedAs(m, Fed(m, value, part, level), value, part, level)
<1> DEFINE x == 100 * Levels(m, value) + part
           n == Fed(m, value, part, level)
<1>1. n = [m EXCEPT ![value] = x, !.level = level] BY DEF Fed
<1>2. m[value] \in Int BY DEF MagRecord, Values
<1>3. x \in Int /\ x \div 100 = Levels(m, value) + Carried(part)
  <2>1. part \in 0 .. 199 BY DEF Parts
  <2> QED BY <1>2, <2>1, LevelsAre DEF Levels, Carried
<1>4. level \in Nat BY DEF MagLevels
<1> HIDE DEF x, n
<1>5. /\ n \in MagRecord /\ n.level = level /\ n[value] = x
      /\ \A v \in Values \ {value} : n[v] = m[v]
      /\ n.mtype = m.mtype /\ n.synchro = m.synchro /\ n.IQ = m.IQ
      /\ n.PBflags = m.PBflags /\ n.blasts = m.blasts
  <2>1. CASE value = "defense" BY <1>1, <1>3, <1>4, <2>1 DEF MagRecord, Values
  <2>2. CASE value = "power" BY <1>1, <1>3, <1>4, <2>2 DEF MagRecord, Values
  <2>3. CASE value = "dex" BY <1>1, <1>3, <1>4, <2>3 DEF MagRecord, Values
  <2>4. CASE value = "mind" BY <1>1, <1>3, <1>4, <2>4 DEF MagRecord, Values
  <2> QED BY <2>1, <2>2, <2>3, <2>4 DEF Values
<1>6. Levels(n, value) = Levels(m, value) + Carried(part) BY <1>3, <1>5 DEF Levels
<1>7. FedAs(m, n, value, part, level) BY <1>5, <1>6 DEF FedAs
<1> QED BY <1>7 DEF n

\* The sum of the levels when one value has changed.
LEMMA SummedOn ==
  ASSUME NEW m \in MagRecord, NEW n \in MagRecord, NEW value \in Values, NEW d \in Int, Summed(m),
         n.level = m.level + d, Levels(n, value) = Levels(m, value) + d,
         \A v \in Values \ {value} : n[v] = m[v]
  PROVE  Summed(n)
<1>1. \A v \in Values \ {value} : Levels(n, v) = Levels(m, v) BY DEF Levels
<1>2. \A v \in Values : m[v] \in Int BY DEF MagRecord, Values
<1>3. \A v \in Values : Levels(m, v) \in Int BY <1>2 DEF Levels
<1>4. m.level \in Int BY DEF MagRecord
<1>5. CASE value = "defense" BY <1>1, <1>3, <1>4, <1>5 DEF Summed, Values
<1>6. CASE value = "power" BY <1>1, <1>3, <1>4, <1>6 DEF Summed, Values
<1>7. CASE value = "dex" BY <1>1, <1>3, <1>4, <1>7 DEF Summed, Values
<1>8. CASE value = "mind" BY <1>1, <1>3, <1>4, <1>8 DEF Summed, Values
<1> QED BY <1>5, <1>6, <1>7, <1>8 DEF Values

LEMMA FedSound ==
  ASSUME NEW m \in MagRecord, Apart(m), Summed(m), NEW value \in Values, NEW part \in Parts, NEW level \in MagLevels,
         level = m.level + Carried(part)
  PROVE  LET o == Fed(m, value, part, level)
         IN /\ o \in MagRecord /\ o.level = level /\ Apart(o) /\ Summed(o) /\ Learnt(m, o)
            /\ o.synchro = m.synchro /\ o.IQ = m.IQ /\ EvolutionOf(o) = EvolutionOf(m)
<1> DEFINE o == Fed(m, value, part, level)
           d == Carried(part)
<1>1. FedAs(m, o, value, part, level) BY FedIs
<1> HIDE DEF o
<1>2. /\ o \in MagRecord /\ o.level = level /\ Levels(o, value) = Levels(m, value) + d
      /\ \A v \in Values \ {value} : o[v] = m[v]
      /\ o.mtype = m.mtype /\ o.synchro = m.synchro /\ o.IQ = m.IQ
      /\ o.PBflags = m.PBflags /\ o.blasts = m.blasts
  BY <1>1 DEF FedAs
<1>3. Blasts(o) = Blasts(m) /\ Apart(o) BY <1>2, SameBlasts
<1>4. d \in Int /\ o.level = m.level + d BY <1>2 DEF Carried
<1> HIDE DEF d
<1>5. Summed(o) BY <1>2, <1>4, SummedOn
<1>6. Learnt(m, o) BY <1>2, <1>3 DEF Learnt
<1>7. EvolutionOf(o) = EvolutionOf(m) BY <1>2 DEF EvolutionOf
<1> QED BY <1>2, <1>3, <1>5, <1>6, <1>7 DEF o

\* One value is fed.
Eaten(m, n, E) == Midway(n, E) /\ Learnt(m, n) /\ n.synchro = m.synchro /\ n.IQ = m.IQ
Classed == 0 .. 4

LEMMA GrownIs ==
  ASSUME NEW m, NEW E \in Classed, Midway(m, E), NEW k \in Characters, NEW value \in Values, NEW gain \in Int
  PROVE  Eaten(m, Grown(m, value, gain, k, E), E)
<1> DEFINE part == Within((m[value] % 100) + gain, 0, 199)
           n == Grown(m, value, gain, k, E)
<1>1. n = IF part < 100 THEN Fed(m, value, part, m.level)
          ELSE CheckMagEvolution(IF m.level = 200 THEN Fed(m, value, 99, 200) ELSE Fed(m, value, part, m.level + 1), k, E)
  BY ZenonT(60) DEF Grown
<1>2. m \in MagRecord /\ Apart(m) /\ m.level \in MagLevels /\ Summed(m) /\ Stage(m) BY DEF Midway, MagLevels
<1>3. part \in Parts
  <2>1. m[value] \in Int BY <1>2 DEF MagRecord, Values
  <2>2. (m[value] % 100) + gain \in Int BY <2>1
  <2>3. \A x \in Int : Within(x, 0, 199) \in 0 .. 199 BY DEF Within
  <2> QED BY <2>2, <2>3, Zenon DEF Parts
<1> HIDE DEF part, n
<1>4. CASE part < 100
  <2>1. n = Fed(m, value, part, m.level) BY <1>1, <1>4
  <2>2. m.level = m.level + Carried(part) BY <1>2, <1>3, <1>4 DEF Carried, Parts, MagLevels
  <2>3. /\ n \in MagRecord /\ n.level = m.level /\ Apart(n) /\ Summed(n) /\ Learnt(m, n)
        /\ n.synchro = m.synchro /\ n.IQ = m.IQ /\ EvolutionOf(n) = EvolutionOf(m)
    <3> DEFINE level == m.level
    <3>1. m \in MagRecord /\ Apart(m) /\ Summed(m) /\ level \in MagLevels /\ level = m.level + Carried(part)
      BY <1>2, <2>2
    <3>2. n = Fed(m, value, part, level) BY <2>1
    <3> HIDE DEF level
    <3>3. /\ n \in MagRecord /\ n.level = level /\ Apart(n) /\ Summed(n) /\ Learnt(m, n)
          /\ n.synchro = m.synchro /\ n.IQ = m.IQ /\ EvolutionOf(n) = EvolutionOf(m)
      BY <1>3, <3>1, <3>2, FedSound
    <3> QED BY <3>3 DEF level
  <2>4. Midway(n, E) BY <1>2, <2>3 DEF Midway, Stage, MagLevels
  <2>5. Eaten(m, n, E) BY <2>3, <2>4 DEF Eaten
  <2> QED BY <2>5 DEF n
<1>5. CASE ~(part < 100)
  <2> DEFINE rest == IF m.level = 200 THEN 99 ELSE part
             level == IF m.level = 200 THEN 200 ELSE m.level + 1
             o == Fed(m, value, rest, level)
  <2>1. n = CheckMagEvolution(o, k, E) BY <1>1, <1>5
  <2>2. rest \in Parts /\ level \in MagLevels /\ level = m.level + Carried(rest)
    BY <1>2, <1>3, <1>5 DEF Parts, MagLevels, Carried
  <2> HIDE DEF o, rest
  <2>3. /\ o \in MagRecord /\ o.level = level /\ Apart(o) /\ Summed(o) /\ Learnt(m, o)
        /\ o.synchro = m.synchro /\ o.IQ = m.IQ /\ EvolutionOf(o) = EvolutionOf(m)
    <3> HIDE DEF level
    <3>1. o = Fed(m, value, rest, level) BY DEF o
    <3>2. m \in MagRecord /\ Apart(m) /\ Summed(m) BY <1>2
    <3> QED BY <2>2, <3>1, <3>2, FedSound
  <2>4. /\ m.level < 10 => EvolutionOf(o) \in {0, 4} /\ EvolutionOf(o) = E
        /\ m.level \in 10 .. 34 => EvolutionOf(o) \in {1, 4}
        /\ m.level >= 35 => EvolutionOf(o) >= 2
        /\ m.level < 35 /\ E >= 2 => EvolutionOf(o) = E
    BY <2>3 DEF Midway, Stage
  <2>5. Midway(n, E) /\ Learnt(o, n) /\ SameValues(o, n)
    <3>1. m.level \in 0 .. 200 /\ o.level = (IF m.level = 200 THEN 200 ELSE m.level + 1)
      BY <1>2, <2>3 DEF MagLevels
    <3>2. E \in 0 .. 4 BY DEF Classed
    <3>3. Risen(o, E, m.level) BY <2>3, <2>4, <3>1, <3>2 DEF Risen
    <3>4. Settled(o, CheckMagEvolution(o, k, E), E) BY <3>3, LevelIs
    <3> QED BY <2>1, <3>4 DEF Settled
  <2>6. Learnt(m, n) BY <2>3, <2>5, LearntOn
  <2>7. n.synchro = m.synchro /\ n.IQ = m.IQ BY <2>3, <2>5 DEF SameValues
  <2>8. Eaten(m, n, E) BY <2>5, <2>6, <2>7 DEF Eaten
  <2> QED BY <2>8 DEF n
<1> QED BY <1>4, <1>5

----------------------------------------------------------------------------

MagInv == MagsTypeOK /\ (mag # <<>> => keeper \in Keepers /\ SoundMag(mag))

\* A sound mag, said with what is needed here.
LEMMA SoundIs ==
  ASSUME NEW m \in MagRecord
  PROVE  SoundMag(m) <=> Summed(m) /\ Apart(m) /\ Stage(m)
<1>1. Cardinality(Blasts(m)) = Cardinality(m.PBflags) <=> Apart(m) BY ApartIs
<1> DEFINE grown == Diet(m.mtype).EvolutionClass
<1>2. grown = EvolutionOf(m) BY DEF EvolutionOf
<1> QED BY <1>1, <1>2 DEF SoundMag, Summed, Stage

LEMMA NoMag == ASSUME NEW m \in MagRecord PROVE m # <<>>
<1>1. m = [mtype |-> m.mtype, level |-> m.level, defense |-> m.defense, power |-> m.power, dex |-> m.dex,
           mind |-> m.mind, synchro |-> m.synchro, IQ |-> m.IQ, PBflags |-> m.PBflags, blasts |-> m.blasts]
  BY DEF MagRecord
<1>2. "level" \in DOMAIN m BY <1>1
<1>3. DOMAIN <<>> = {} OBVIOUS
<1> QED BY <1>2, <1>3

\* Its synchro and IQ alone are others.
Tended(m, synchro, IQ) == [m EXCEPT !.synchro = synchro, !.IQ = IQ]

LEMMA TendedIs ==
  ASSUME NEW m \in MagRecord, NEW synchro \in Int, NEW IQ \in Int
  PROVE  LET n == Tended(m, synchro, IQ)
         IN /\ n \in MagRecord /\ n.synchro = synchro /\ n.IQ = IQ /\ n.level = m.level /\ n.mtype = m.mtype
            /\ n.defense = m.defense /\ n.power = m.power /\ n.dex = m.dex /\ n.mind = m.mind
            /\ n.PBflags = m.PBflags /\ n.blasts = m.blasts
<1> DEFINE n == Tended(m, synchro, IQ)
           Flags == {{}, {1}, {1, 2}, {1, 2, 4}}
           Three == (0 .. 5) \X (0 .. 5) \X (0 .. 3)
<1>1. MagRecord = [mtype : Kinds, level : Nat, defense : Int, power : Int, dex : Int, mind : Int, synchro : Int,
                   IQ : Int, PBflags : Flags, blasts : Three]
  BY DEF MagRecord
<1> HIDE DEF Flags, Three
<1>2. n = [mtype |-> m.mtype, level |-> m.level, defense |-> m.defense, power |-> m.power, dex |-> m.dex,
           mind |-> m.mind, synchro |-> synchro, IQ |-> IQ, PBflags |-> m.PBflags, blasts |-> m.blasts]
  <2>1. m = [mtype |-> m.mtype, level |-> m.level, defense |-> m.defense, power |-> m.power, dex |-> m.dex,
             mind |-> m.mind, synchro |-> m.synchro, IQ |-> m.IQ, PBflags |-> m.PBflags, blasts |-> m.blasts]
    BY <1>1
  <2>2. DOMAIN m = {"mtype", "level", "defense", "power", "dex", "mind", "synchro", "IQ", "PBflags", "blasts"}
    BY <2>1
  <2>3. DOMAIN n = DOMAIN m BY DEF Tended
  <2>4. /\ n["mtype"] = m.mtype /\ n["level"] = m.level /\ n["defense"] = m.defense /\ n["power"] = m.power
        /\ n["dex"] = m.dex /\ n["mind"] = m.mind /\ n["synchro"] = synchro /\ n["IQ"] = IQ
        /\ n["PBflags"] = m.PBflags /\ n["blasts"] = m.blasts
    BY <2>2 DEF Tended
  <2>5. n = [x \in DOMAIN m |-> n[x]] BY <2>3 DEF Tended
  <2> HIDE DEF n
  <2> QED BY <2>2, <2>4, <2>5
<1>3. /\ m.mtype \in Kinds /\ m.level \in Nat /\ m.defense \in Int /\ m.power \in Int /\ m.dex \in Int
      /\ m.mind \in Int /\ m.PBflags \in Flags /\ m.blasts \in Three
  BY <1>1
<1> HIDE DEF n
<1>4. n \in MagRecord BY <1>1, <1>2, <1>3
<1> QED BY <1>2, <1>4 DEF n

\* What a meal does.
LEMMA FeedIs ==
  ASSUME MagInv, NEW food \in 1 .. 11, FeedMag(food)
  PROVE  mag' # <<>> /\ MagInv' /\ Learnt(mag, mag')
<1> DEFINE diet == Diet(mag.mtype)
           E == diet.EvolutionClass
           ft == Feed_Table[diet.table][food]
           synchro == Within(mag.synchro + ft[1], 0, 120)
           IQ == Within(mag.IQ + ft[2], 0, 200)
           m0 == Tended(mag, synchro, IQ)
           m1 == Grown(m0, "defense", ft[3], keeper, E)
           m2 == Grown(m1, "power", ft[4], keeper, E)
           m3 == Grown(m2, "dex", ft[5], keeper, E)
           m4 == Grown(m3, "mind", ft[6], keeper, E)
<1>1. mag # <<>> /\ events < MaxEvents /\ mag' = m4 /\ events' = events + 1 /\ keeper' = keeper
  BY DEF FeedMag, Tended
<1>2. /\ mag \in MagRecord /\ mag.level \in 0 .. 200 /\ mag.synchro \in 0 .. 120 /\ mag.IQ \in 0 .. 200
      /\ keeper \in Characters /\ keeper \in Keepers /\ events \in 0 .. MaxEvents /\ MaxEvents \in Nat
  BY <1>1, MagsAssumption DEF MagInv, MagsTypeOK, Characters
<1>3. diet.table \in 1 .. 8 /\ E \in 0 .. 4 BY DietIs
<1>4. \A n \in 1 .. 6 : ft[n] \in Int BY <1>3, FoodIs
<1>5. E = EvolutionOf(mag) BY DEF EvolutionOf
<1> HIDE DEF ft, E
<1>6. synchro \in 0 .. 120 /\ IQ \in 0 .. 200
  <2> DEFINE x == mag.synchro + ft[1]
             y == mag.IQ + ft[2]
  <2>1. ft[1] \in Int /\ ft[2] \in Int BY <1>4
  <2>2. x \in Int /\ y \in Int BY <1>2, <2>1
  <2> HIDE DEF x, y
  <2>3. Within(x, 0, 120) \in 0 .. 120 BY <2>2 DEF Within
  <2>4. Within(y, 0, 200) \in 0 .. 200 BY <2>2 DEF Within
  <2> QED BY <2>3, <2>4 DEF x, y
<1> HIDE DEF synchro, IQ
<1>7. /\ m0 \in MagRecord /\ m0.synchro = synchro /\ m0.IQ = IQ /\ m0.level = mag.level /\ m0.mtype = mag.mtype
      /\ m0.defense = mag.defense /\ m0.power = mag.power /\ m0.dex = mag.dex /\ m0.mind = mag.mind
      /\ m0.PBflags = mag.PBflags /\ m0.blasts = mag.blasts
  BY <1>2, <1>6, TendedIs
<1> HIDE DEF m0
<1>8. Summed(mag) /\ Apart(mag) /\ Stage(mag) BY <1>1, <1>2, SoundIs DEF MagInv
<1>9. Blasts(m0) = Blasts(mag) /\ Apart(m0) BY <1>7, <1>8, SameBlasts
<1>10. Summed(m0) BY <1>7, <1>8 DEF Summed, Levels
<1>11. EvolutionOf(m0) = E BY <1>5, <1>7 DEF EvolutionOf
<1>12. Midway(m0, E)
  <2>1. Stage(m0) BY <1>5, <1>7, <1>8, <1>11 DEF Stage
  <2>2. m0.level < 10 => EvolutionOf(m0) = E BY <1>11
  <2> QED BY <1>2, <1>7, <1>9, <1>10, <1>11, <2>1 DEF Midway
<1>13. Learnt(mag, m0) BY <1>7, <1>9 DEF Learnt
<1>14. "defense" \in Values /\ "power" \in Values /\ "dex" \in Values /\ "mind" \in Values BY DEF Values
<1>15. ft[3] \in Int /\ ft[4] \in Int /\ ft[5] \in Int /\ ft[6] \in Int BY <1>4
<1>24. keeper \in Characters /\ E \in Classed BY <1>2, <1>3 DEF Classed
<1>25. \A m, value, gain : Midway(m, E) /\ value \in Values /\ gain \in Int
                            => Eaten(m, Grown(m, value, gain, keeper, E), E)
  BY <1>24, GrownIs
<1>26. Eaten(m0, m1, E) /\ Midway(m1, E)
  <2>1. Eaten(m0, m1, E) BY <1>12, <1>14, <1>15, <1>25
  <2> QED BY <2>1 DEF Eaten
<1> HIDE DEF m1
<1>27. Eaten(m1, m2, E) /\ Midway(m2, E)
  <2>1. Eaten(m1, m2, E) BY <1>26, <1>14, <1>15, <1>25
  <2> QED BY <2>1 DEF Eaten
<1> HIDE DEF m2
<1>28. Eaten(m2, m3, E) /\ Midway(m3, E)
  <2>1. Eaten(m2, m3, E) BY <1>27, <1>14, <1>15, <1>25
  <2> QED BY <2>1 DEF Eaten
<1> HIDE DEF m3
<1>29. Eaten(m3, m4, E) BY <1>28, <1>14, <1>15, <1>25
<1> HIDE DEF m4
<1>16. Learnt(m0, m1) /\ m1.synchro = m0.synchro /\ m1.IQ = m0.IQ BY <1>26 DEF Eaten
<1>17. Learnt(m1, m2) /\ m2.synchro = m1.synchro /\ m2.IQ = m1.IQ BY <1>27 DEF Eaten
<1>18. Learnt(m2, m3) /\ m3.synchro = m2.synchro /\ m3.IQ = m2.IQ BY <1>28 DEF Eaten
<1>19. Midway(m4, E) /\ Learnt(m3, m4) /\ m4.synchro = m3.synchro /\ m4.IQ = m3.IQ BY <1>29 DEF Eaten
<1>20. Learnt(mag, m4)
  <2>1. Learnt(mag, m1) BY <1>13, <1>16, LearntOn
  <2>2. Learnt(mag, m2) BY <1>17, <2>1, LearntOn
  <2>3. Learnt(mag, m3) BY <1>18, <2>2, LearntOn
  <2> QED BY <1>19, <2>3, LearntOn
<1>21. /\ m4 \in MagRecord /\ m4.level \in 0 .. 200 /\ m4.synchro \in 0 .. 120 /\ m4.IQ \in 0 .. 200
  BY <1>6, <1>7, <1>16, <1>17, <1>18, <1>19 DEF Midway
<1>22. SoundMag(m4)
  <2>1. Summed(m4) /\ Apart(m4) /\ Stage(m4) BY <1>19 DEF Midway
  <2> QED BY <1>21, <2>1, SoundIs
<1>23. m4 # <<>> BY <1>21, NoMag
<1> QED BY <1>1, <1>2, <1>20, <1>21, <1>22, <1>23 DEF MagInv, MagsTypeOK

\* What becomes of it with a cell.
LEMMA CellIs ==
  ASSUME NEW kind \in Cells \cup {"Pitri", "Soniti", "Churel", "Preta", "DEVILSWING", "DEVILSTAIL"}
  PROVE  kind \in Kinds /\ kind \notin DOMAIN Teaches /\ Diet(kind).EvolutionClass = 4
<1>1. kind \in Kinds BY DEF Kinds
<1>2. kind \notin DOMAIN Teaches BY TeachesIs DEF Cells
<1>3. Diet(kind).EvolutionClass = 4 BY DEF Diet, Cells
<1> QED BY <1>1, <1>2, <1>3

LEMMA UseCellIs ==
  ASSUME MagInv, UseCell
  PROVE  mag' # <<>> /\ MagInv' /\ Learnt(mag, mag')
<1>1. mag # <<>> /\ events < MaxEvents /\ events' = events + 1 /\ keeper' = keeper BY DEF UseCell
<1>2. PICK kind \in Cells \cup {"Pitri", "Soniti", "Churel", "Preta", "DEVILSWING", "DEVILSTAIL"} :
        mag' = [mag EXCEPT !.mtype = kind]
  BY DEF UseCell
<1>3. kind \in Kinds /\ kind \notin DOMAIN Teaches /\ Diet(kind).EvolutionClass = 4 BY CellIs
<1>4. /\ mag \in MagRecord /\ mag.level \in 0 .. 200 /\ mag.synchro \in 0 .. 120 /\ mag.IQ \in 0 .. 200
      /\ keeper \in Keepers /\ events \in 0 .. MaxEvents /\ MaxEvents \in Nat
  BY <1>1, MagsAssumption DEF MagInv, MagsTypeOK
<1>5. Summed(mag) /\ Apart(mag) /\ Stage(mag) BY <1>1, <1>4, SoundIs DEF MagInv
<1>6. Learnt(mag, mag') /\ SameValues(mag, mag') /\ mag'.mtype = kind BY <1>2, <1>3, <1>4, <1>5, OtherKind
<1>7. mag' \in MagRecord /\ Apart(mag') BY <1>6 DEF Learnt
<1>8. Summed(mag') BY <1>5, <1>6 DEF Summed, Levels, SameValues
<1>9. Stage(mag')
  <2>1. EvolutionOf(mag') = 4 BY <1>3, <1>6 DEF EvolutionOf
  <2> QED BY <2>1 DEF Stage
<1>10. SoundMag(mag') BY <1>7, <1>8, <1>9, SoundIs
<1>11. mag' # <<>> BY <1>7, NoMag
<1> QED BY <1>1, <1>4, <1>6, <1>7, <1>10, <1>11 DEF MagInv, MagsTypeOK, SameValues

LEMMA DieIs ==
  ASSUME MagInv, Die
  PROVE  mag' # <<>> /\ MagInv' /\ Learnt(mag, mag')
<1> DEFINE synchro == Within(mag.synchro - 5, 0, 120)
<1>1. /\ mag # <<>> /\ events < MaxEvents /\ events' = events + 1 /\ keeper' = keeper
      /\ mag' = [mag EXCEPT !.synchro = synchro]
  BY DEF Die
<1>2. /\ mag \in MagRecord /\ mag.level \in 0 .. 200 /\ mag.synchro \in 0 .. 120 /\ mag.IQ \in 0 .. 200
      /\ keeper \in Keepers /\ events \in 0 .. MaxEvents /\ MaxEvents \in Nat
  BY <1>1, MagsAssumption DEF MagInv, MagsTypeOK
<1>3. synchro \in 0 .. 120 BY <1>2 DEF Within
<1>4. Summed(mag) /\ Apart(mag) /\ Stage(mag) BY <1>1, <1>2, SoundIs DEF MagInv
<1> HIDE DEF synchro
<1>5. PICK n : n = Tended(mag, synchro, mag.IQ) OBVIOUS
<1>13. mag' = n BY <1>1, <1>2, <1>5 DEF Tended, MagRecord
<1>6. /\ n \in MagRecord /\ n.synchro = synchro /\ n.IQ = mag.IQ /\ n.level = mag.level /\ n.mtype = mag.mtype
      /\ n.defense = mag.defense /\ n.power = mag.power /\ n.dex = mag.dex /\ n.mind = mag.mind
      /\ n.PBflags = mag.PBflags /\ n.blasts = mag.blasts
  BY <1>2, <1>3, <1>5, TendedIs
<1>7. Blasts(n) = Blasts(mag) /\ Apart(n) BY <1>4, <1>6, SameBlasts
<1>8. Summed(n) BY <1>4, <1>6 DEF Summed, Levels
<1>9. Stage(n) BY <1>4, <1>6 DEF Stage, EvolutionOf
<1>10. SoundMag(n) BY <1>6, <1>7, <1>8, <1>9, SoundIs
<1>11. Learnt(mag, n) BY <1>6, <1>7 DEF Learnt
<1>12. n # <<>> BY <1>6, NoMag
<1> QED BY <1>1, <1>2, <1>3, <1>6, <1>10, <1>11, <1>12, <1>13 DEF MagInv, MagsTypeOK

LEMMA LoadIs ==
  ASSUME MagInv, LoadMag
  PROVE  MagInv'
<1>1. PICK m \in Hatched, k \in Keepers : mag' = FixItem(m) /\ keeper' = k BY DEF LoadMag
<1>2. mag = <<>> /\ events' = events BY DEF LoadMag
<1>3. m \in MagRecord /\ SoundMag(FixItem(m)) /\ MaxEvents \in Nat BY MagsAssumption
<1> DEFINE n == FixItem(m)
           total == Levels(m, "defense") + Levels(m, "power") + Levels(m, "dex") + Levels(m, "mind")
           broken == (\E v \in Values : m[v] < 0) \/ total > 200 \/ m.level > 200
           synchro == Within(m.synchro, 0, 120)
           IQ == Within(m.IQ, 0, 200)
<1>4. n = IF broken
          THEN [m EXCEPT !.mtype = "Mag", !.level = 5, !.defense = 500, !.power = 0, !.dex = 0, !.mind = 0,
                         !.synchro = 20, !.IQ = 0, !.PBflags = {}, !.blasts = <<0, 0, 0>>]
          ELSE Tended(m, synchro, IQ)
  BY DEF FixItem, Tended, Values
<1>5. n \in MagRecord /\ n.level \in 0 .. 200 /\ n.synchro \in 0 .. 120 /\ n.IQ \in 0 .. 200
  <2>1. synchro \in 0 .. 120 /\ IQ \in 0 .. 200
    <3>1. m.synchro \in Int /\ m.IQ \in Int BY <1>3 DEF MagRecord
    <3> QED BY <3>1 DEF Within
  <2>2. broken \/ m.level \in 0 .. 200 BY <1>3 DEF MagRecord
  <2> HIDE DEF n, broken, synchro, IQ
  <2>3. CASE broken
    <3>1. n = [m EXCEPT !.mtype = "Mag", !.level = 5, !.defense = 500, !.power = 0, !.dex = 0, !.mind = 0,
                        !.synchro = 20, !.IQ = 0, !.PBflags = {}, !.blasts = <<0, 0, 0>>]
      BY <1>4, <2>3
    <3>2. "Mag" \in Kinds /\ <<0, 0, 0>> \in (0 .. 5) \X (0 .. 5) \X (0 .. 3) BY DEF Kinds
    <3>3. n = [mtype |-> "Mag", level |-> 5, defense |-> 500, power |-> 0, dex |-> 0, mind |-> 0,
               synchro |-> 20, IQ |-> 0, PBflags |-> {}, blasts |-> <<0, 0, 0>>]
      BY <1>3, <3>1, ZenonT(60) DEF MagRecord
    <3> QED BY <3>2, <3>3 DEF MagRecord
  <2>4. CASE ~broken
    <3>1. n = Tended(m, synchro, IQ) BY <1>4, <2>4
    <3>2. n \in MagRecord /\ n.synchro = synchro /\ n.IQ = IQ /\ n.level = m.level
      BY <1>3, <2>1, <3>1, TendedIs
    <3> QED BY <2>1, <2>2, <2>4, <3>2
  <2> QED BY <2>3, <2>4
<1> HIDE DEF n
<1>6. mag' = n BY <1>1 DEF n
<1>7. SoundMag(n) BY <1>3 DEF n
<1> QED BY <1>1, <1>2, <1>5, <1>6, <1>7 DEF MagInv, MagsTypeOK

LEMMA MagsStart == ASSUME MagsInit PROVE MagInv
BY MagsAssumption DEF MagsInit, MagInv, MagsTypeOK

LEMMA MagsOn == ASSUME MagInv, [MagsNext]_magVars PROVE MagInv'
<1>1. CASE LoadMag BY <1>1, LoadIs
<1>2. ASSUME NEW food \in 1 .. 11, FeedMag(food) PROVE MagInv' BY <1>2, FeedIs
<1>3. CASE Die BY <1>3, DieIs
<1>4. CASE UseCell BY <1>4, UseCellIs
<1>5. CASE UNCHANGED magVars BY <1>5 DEF magVars, MagInv, MagsTypeOK
<1> QED BY <1>1, <1>2, <1>3, <1>4, <1>5 DEF MagsNext

\* What is learnt is what BlastsKept says.
LEMMA LearntIs ==
  ASSUME NEW m, NEW n, Learnt(m, n)
  PROVE  /\ Blasts(m) \subseteq Blasts(n)
         /\ n.mtype # m.mtype /\ n.mtype \in DOMAIN Teaches =>
              Teaches[n.mtype] \in Blasts(n) \/ Cardinality(Blasts(n)) = 3
<1>1. n \in MagRecord /\ Apart(n) BY DEF Learnt
<1>2. Cardinality(Blasts(n)) = Cardinality(n.PBflags) BY <1>1, ApartIs
<1>3. 4 \in n.PBflags => n.PBflags = {1, 2, 4}
  <2>1. n.PBflags \in {{}, {1}, {1, 2}, {1, 2, 4}} BY <1>1 DEF MagRecord
  <2> QED BY <2>1
<1>4. Cardinality({1, 2, 4}) = 3
  <2>1. 1 # 2 /\ 4 \notin {1, 2} OBVIOUS
  <2> QED BY <2>1, ThreeAre, Zenon
<1> QED BY <1>2, <1>3, <1>4 DEF Learnt

LEMMA KeepsBlasts ==
  ASSUME MagInv, [MagsNext]_magVars, mag # <<>>, magVars' # magVars
  PROVE  Learnt(mag, mag')
<1>1. ~LoadMag BY DEF LoadMag
<1>2. ASSUME NEW food \in 1 .. 11, FeedMag(food) PROVE Learnt(mag, mag') BY <1>2, FeedIs
<1>3. CASE Die BY <1>3, DieIs
<1>4. CASE UseCell BY <1>4, UseCellIs
<1> QED BY <1>1, <1>2, <1>3, <1>4 DEF MagsNext

\* A mag is of the level of its values, shows as many blasts as it has, and is what mags of its level
\* are, whatever it is fed (FeedMag, CheckMagEvolution, AddPB), for every mag a character may bring.
THEOREM MagsAlwaysSound == MagsSpec => []MagSound
<1>1. MagsInit => MagInv BY MagsStart
<1>2. MagInv /\ [MagsNext]_magVars => MagInv' BY MagsOn
<1>3. MagInv => MagSound BY DEF MagInv, MagSound
<1> QED BY <1>1, <1>2, <1>3, PTL DEF MagsSpec

THEOREM MagsAlwaysTyped == MagsSpec => []MagsTypeOK
<1>1. MagsInit => MagInv BY MagsStart
<1>2. MagInv /\ [MagsNext]_magVars => MagInv' BY MagsOn
<1>3. MagInv => MagsTypeOK BY DEF MagInv
<1> QED BY <1>1, <1>2, <1>3, PTL DEF MagsSpec

\* However often it becomes another in one meal, a mag forgets no photon blast and knows that of what
\* it has become, unless it knows three (AddPB, called by each evolution).
THEOREM BlastsAlwaysKept == MagsSpec => BlastsKept
<1> DEFINE Keeps == mag # <<>> =>
                      /\ Blasts(mag) \subseteq Blasts(mag')
                      /\ mag'.mtype # mag.mtype /\ mag'.mtype \in DOMAIN Teaches =>
                           Teaches[mag'.mtype] \in Blasts(mag') \/ Cardinality(Blasts(mag')) = 3
<1>1. MagsInit => MagInv BY MagsStart
<1>2. MagInv /\ [MagsNext]_magVars => MagInv' BY MagsOn
<1>3. MagInv /\ [MagsNext]_magVars => [Keeps]_magVars
  <2>1. SUFFICES ASSUME MagInv, [MagsNext]_magVars, magVars' # magVars, mag # <<>>
                 PROVE  /\ Blasts(mag) \subseteq Blasts(mag')
                        /\ mag'.mtype # mag.mtype /\ mag'.mtype \in DOMAIN Teaches =>
                             Teaches[mag'.mtype] \in Blasts(mag') \/ Cardinality(Blasts(mag')) = 3
    OBVIOUS
  <2>2. Learnt(mag, mag') BY <2>1, KeepsBlasts
  <2> QED BY <2>2, LearntIs
<1>4. BlastsKept <=> [][Keeps]_magVars BY DEF BlastsKept
<1> HIDE DEF Keeps
<1> QED BY <1>1, <1>2, <1>3, <1>4, PTL DEF MagsSpec
=============================================================================

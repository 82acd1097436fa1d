-------------------------------- MODULE Mags --------------------------------
(***************************************************************************)
(* A mag is fed.  Each of its four values grows or shrinks by what the     *)
(* food gives; a hundred of a value is a level, and at some levels the mag *)
(* becomes another, which may teach it a photon blast.  The numbers are    *)
(* the program's own.  What is eaten leaves the inventory (GameItems).     *)
(***************************************************************************)
EXTENDS Integers, Sequences, FiniteSets, SequencesExt

CONSTANTS
  Hatched,     \* the mags a character may bring along
  Keepers,     \* class and section id of the characters
  MaxEvents    \* bound on what happens to a mag

VARIABLES
  mag,
  keeper,      \* [class, section]
  events       \* events, deaths and cells

magVars == <<mag, keeper, events>>

----------------------------------------------------------------------------
(* The tables                                                              *)

Hunters == <<"HUmar", "HUnewearl", "HUcast", "HUcaseal">>
Rangers == <<"RAmar", "RAcast", "RAcaseal", "RAmarl">>
Forces == <<"FOnewm", "FOnewearl", "FOmarl", "FOmar">>

Calling(class) ==
  IF class \in ToSet(Hunters) THEN "HU" ELSE IF class \in ToSet(Rangers) THEN "RA" ELSE "FO"

\* SectionIDs; the order gives them their numbers.
Sections == <<"Viridia", "Greennill", "Skyly", "Bluefull", "Purplenum",
              "Pinkal", "Redria", "Oran", "Yellowboze", "Whitill">>
Odd(section) == \E n \in 1 .. 5 : Sections[2 * n] = section

\* PBTypes
Farlla == 0
Estlla == 1
Golla == 2
Pilla == 3
Leilla == 4
Mylla_Youlla == 5

\* What a mag knows that has become this one.
Teachers == [pb \in 0 .. 5 |->
  CASE pb = Farlla -> {"Varuna", "Ravana", "Ribhava"}
    [] pb = Estlla -> {"Kalki", "Apsaras", "Nandin", "Soma", "Bana", "Durga", "Andhaka"}
    [] pb = Golla -> {"Rudra", "Surya", "Sumba", "Varaha", "Yaksa", "Ushasu", "Kumara", "Naraka"}
    [] pb = Pilla -> {"Marutah", "Mitra", "Ashvinau", "Kama", "Bhirava", "Garuda", "Marica", "Sita"}
    [] pb = Leilla -> {"Vritra"}
    [] pb = Mylla_Youlla -> {"Vayu", "Tapas", "Namuci", "Ila", "Kabanda", "Kaitabha", "Madhu", "Naga"}]

Teaches == [kind \in UNION {Teachers[pb] : pb \in 0 .. 5} |-> CHOOSE pb \in 0 .. 5 : kind \in Teachers[pb]]

\* synchro, IQ, defense, power, dex and mind from mono-, di- and trimate, mono-, di- and
\* trifluid, antidote, antiparalysis, sol, moon and star atomizer.
Feed_Table == <<
  << <<3,3,5,40,5,0>>, <<3,3,10,45,5,0>>, <<4,4,15,50,10,0>>, <<3,3,5,0,5,40>>,
     <<3,3,10,0,5,45>>, <<4,4,15,0,10,50>>, <<3,3,5,10,40,0>>, <<3,3,5,0,44,10>>,
     <<4,1,15,30,15,25>>, <<4,1,15,25,15,30>>, <<6,5,25,25,25,25>> >>,
  << <<0,0,5,10,0,-1>>, <<2,1,6,15,3,-3>>, <<3,2,12,21,4,-7>>, <<0,0,5,0,0,8>>,
     <<2,1,7,0,3,13>>, <<3,2,7,-7,6,19>>, <<0,1,0,5,15,0>>, <<2,0,-1,0,14,5>>,
     <<-2,2,10,11,8,0>>, <<3,-2,9,0,9,11>>, <<4,3,14,9,18,11>> >>,
  << <<0,-1,1,9,0,-5>>, <<3,0,1,13,0,-10>>, <<4,1,8,16,2,-15>>, <<0,-1,0,-5,0,9>>,
     <<3,0,4,-10,0,13>>, <<3,2,6,-15,5,17>>, <<-1,1,-5,4,12,-5>>, <<0,0,-5,-6,11,4>>,
     <<4,-2,0,11,3,-5>>, <<-1,1,4,-5,0,11>>, <<4,2,7,8,6,9>> >>,
  << <<0,-1,0,3,0,0>>, <<2,0,5,7,0,-5>>, <<3,1,4,14,6,-10>>, <<0,0,0,0,0,4>>,
     <<0,1,4,-5,0,8>>, <<2,2,4,-10,3,15>>, <<-3,3,0,0,7,0>>, <<3,0,-4,-5,20,-5>>,
     <<3,-2,-10,9,6,9>>, <<-2,2,8,5,-8,7>>, <<3,2,7,7,7,7>> >>,
  << <<2,-1,-5,9,-5,0>>, <<2,0,0,11,0,-10>>, <<0,1,4,14,0,-15>>, <<2,-1,-5,0,-6,10>>,
     <<2,0,0,-10,0,11>>, <<0,1,4,-15,0,15>>, <<2,-1,-5,-5,16,-5>>, <<-2,3,7,-3,0,-3>>,
     <<4,-2,5,21,-5,-20>>, <<3,0,-5,-20,5,21>>, <<3,2,4,6,8,5>> >>,
  << <<2,-1,-4,13,-5,-5>>, <<0,1,0,16,0,-15>>, <<2,0,3,19,-2,-18>>, <<2,-1,-4,-5,-5,13>>,
     <<0,1,0,-15,0,16>>, <<2,0,3,-20,0,19>>, <<0,1,5,-6,6,-5>>, <<-1,1,0,-4,14,-10>>,
     <<4,-1,4,17,-5,-15>>, <<2,0,-10,-15,5,21>>, <<3,2,2,8,3,6>> >>,
  << <<-1,1,-3,9,-3,-4>>, <<2,0,0,11,0,-10>>, <<2,0,2,15,0,-16>>, <<-1,1,-3,-4,-3,9>>,
     <<2,0,0,-10,0,11>>, <<2,0,-2,-15,0,19>>, <<2,-1,0,6,9,-15>>, <<-2,3,0,-15,9,6>>,
     <<3,-1,9,-20,-5,17>>, <<0,2,-5,20,5,-20>>, <<3,2,0,11,0,11>> >>,
  << <<-1,0,-4,21,-15,-5>>, <<0,1,-1,27,-10,-16>>, <<2,0,5,29,-7,-25>>, <<-1,0,-10,-5,-10,21>>,
     <<0,1,-5,-16,-5,25>>, <<2,0,-7,-25,6,29>>, <<-1,1,-10,-10,28,-10>>, <<2,-1,9,-18,24,-15>>,
     <<2,1,19,18,-15,-20>>, <<2,1,-15,-20,19,18>>, <<4,2,3,7,3,3>> >> >>

\* The table a mag eats by, and how far it has come.
Diet(kind) ==
  CASE kind = "Mag" -> [table |-> 1, EvolutionClass |-> 0]
    [] kind \in {"Varuna", "Vritra", "Kalki"} -> [table |-> 2, EvolutionClass |-> 1]
    [] kind \in {"Ashvinau", "Sumba", "Namuci", "Marutah", "Rudra"} -> [table |-> 3, EvolutionClass |-> 2]
    [] kind \in {"Surya", "Tapas", "Mitra"} -> [table |-> 4, EvolutionClass |-> 2]
    [] kind \in {"Apsaras", "Vayu", "Varaha", "Ushasu", "Kama", "Kaitabha", "Kumara", "Bhirava"} ->
         [table |-> 5, EvolutionClass |-> 3]
    [] kind \in {"Ila", "Garuda", "Sita", "Soma", "Durga", "Nandin", "Yaksa", "Ribhava"} ->
         [table |-> 6, EvolutionClass |-> 3]
    [] kind \in {"Andhaka", "Kabanda", "Naga", "Naraka", "Bana", "Marica", "Madhu", "Ravana"} ->
         [table |-> 7, EvolutionClass |-> 3]
    [] kind \in {"Deva", "Rukmin", "Sato"} -> [table |-> 6, EvolutionClass |-> 4]
    [] kind \in {"Rati", "Pushan", "Bhima"} -> [table |-> 7, EvolutionClass |-> 4]
    [] OTHER -> [table |-> 8, EvolutionClass |-> 4]

----------------------------------------------------------------------------
(* Photon blasts                                                           *)

\* Faulty: the third is written down as it is.
AddPB_plain(m, pb) ==
  CASE 1 \notin m.PBflags -> [m EXCEPT !.PBflags = @ \cup {1}, !.blasts[1] = pb]
    [] m.PBflags = {1} -> [m EXCEPT !.PBflags = @ \cup {2}, !.blasts[2] = pb]
    [] OTHER -> [m EXCEPT !.PBflags = @ \cup {4}, !.blasts[3] = pb % 4]

\* Three and three bits hold a blast, the last two the number of one among the other four.
AddPB(m, pb) ==
  IF \/ 1 \in m.PBflags /\ m.blasts[1] = pb
     \/ 2 \in m.PBflags /\ m.blasts[2] = pb
     \/ 4 \in m.PBflags
  THEN m
  ELSE CASE 1 \notin m.PBflags -> [m EXCEPT !.PBflags = @ \cup {1}, !.blasts[1] = pb]
         [] m.PBflags = {1} -> [m EXCEPT !.PBflags = @ \cup {2}, !.blasts[2] = pb]
         [] OTHER -> [m EXCEPT !.PBflags = @ \cup {4},
                               !.blasts[3] = pb - Cardinality({i \in {1, 2} : m.blasts[i] < pb})]

----------------------------------------------------------------------------
(* Evolution                                                               *)

Levels(m, value) == m[value] \div 100

Become(m, kind) == AddPB([m EXCEPT !.mtype = kind], Teaches[kind])

\* The greatest of the three values a mag can lean to; if two are, the one of its keeper's calling.
MagAlignment(m, calling) ==
  LET top == {v \in {"power", "dex", "mind"} : \A w \in {"power", "dex", "mind"} : m[w] <= m[v]}
  IN IF Cardinality(top) = 1 THEN CHOOSE v \in top : TRUE
     ELSE [HU |-> "power", RA |-> "dex", FO |-> "mind"][calling]

MagLV10Evolution(m, k) ==
  Become(m, [HU |-> "Varuna", RA |-> "Kalki", FO |-> "Vritra"][Calling(k.class)])

MagLV35Evolution(m, k) ==
  LET calling == Calling(k.class)
  IN Become(m, [HU |-> [power |-> "Rudra", dex |-> "Marutah",  mind |-> "Vayu"],
                RA |-> [power |-> "Surya", dex |-> "Mitra",    mind |-> "Tapas"],
                FO |-> [power |-> "Sumba", dex |-> "Ashvinau", mind |-> "Namuci"]]
               [calling][MagAlignment(m, calling)])

\* By alignment: of odd sections, those whose second value is the greater and the others, then the
\* same of even sections.
HunterMags ==
  [power |-> <<"Apsaras", "Kama", "Bhirava", "Varaha">>,
   dex   |-> <<"Garuda", "Yaksa", "Ila", "Nandin">>,
   mind  |-> <<"Soma", "Bana", "Ushasu", "Kabanda">>]
RangerMags ==
  [power |-> <<"Kaitabha", "Madhu", "Bhirava", "Kama">>,
   dex   |-> <<"Kaitabha", "Varaha", "Bhirava", "Kama">>,
   mind  |-> <<"Durga", "Kabanda", "Apsaras", "Varaha">>]
ForceMags ==
  [power |-> <<"Naga", "Marica", "Ravana", "Naraka">>,
   dex   |-> <<"Garuda", "Bhirava", "Ribhava", "Sita">>,
   mind  |-> <<"Ila", "Kumara", "Kabanda", "Naga">>]

MagLV50Evolution(m, k) ==
  LET calling == Calling(k.class)
      align == MagAlignment(m, calling)
      second == CASE align = "power" -> Levels(m, "mind") > Levels(m, "dex")
                  [] align = "dex" -> Levels(m, "power") > Levels(m, "mind")
                  [] align = "mind" -> Levels(m, "dex") > Levels(m, "power")
      column == (IF Odd(k.section) THEN 1 ELSE 3) + (IF second THEN 0 ELSE 1)
  IN Become(m, IF calling = "FO" /\ Levels(m, "defense") > 44
               THEN IF align = "power" THEN "Andhaka" ELSE "Bana"
               ELSE [HU |-> HunterMags, RA |-> RangerMags, FO |-> ForceMags][calling][align][column])

\* Two pairs of values in balance; which pairs, the section says.
InBalance(m, section) ==
  LET partner == CASE section \in {"Viridia", "Bluefull", "Redria", "Whitill"} -> "dex"
                   [] section \in {"Skyly", "Pinkal", "Yellowboze"} -> "power"
                   [] section \in {"Greennill", "Oran", "Purplenum"} -> "mind"
      pair == {"defense", partner}
      Both(values) == LET v == CHOOSE v \in values : TRUE
                          w == CHOOSE w \in values : w # v
                      IN Levels(m, v) + Levels(m, w)
  IN Both(pair) = Both({"defense", "power", "dex", "mind"} \ pair)

MagSpecial(k) ==
  LET cross == k.section \in {"Skyly", "Pinkal", "Yellowboze"}
      first == k.section \in {"Viridia", "Bluefull", "Redria", "Whitill"}
  IN CASE k.class \in {"HUmar", "HUcast"} -> IF first THEN "Deva" ELSE "Rati"
       [] k.class \in {"HUnewearl", "HUcaseal"} -> "Savitri"
       [] k.class \in {"RAmar", "RAcast"} -> "Pushan"
       [] k.class \in {"RAcaseal", "RAmarl"} -> IF cross THEN "Dewari" ELSE "Rukmin"
       [] k.class \in {"FOnewm", "FOmar"} -> "Nidra"
       [] k.class \in {"FOnewearl", "FOmarl"} -> IF first THEN "Sato" ELSE "Bhima"

\* EvolutionClass is that of the mag as it was before the meal.  A mag that became its keeper's special
\* one in this meal, and is at level 200, is taken for one that did not: it goes on to become another.
CheckMagEvolution(m, k, EvolutionClass) ==
  CASE m.level \in 10 .. 34 /\ EvolutionClass <= 0 -> MagLV10Evolution(m, k)
    [] m.level \in 35 .. 49 /\ EvolutionClass < 2 -> MagLV35Evolution(m, k)
    [] m.level >= 50 /\ m.level % 5 = 0 /\ EvolutionClass <= 3 ->
         IF m.level >= 100 /\ InBalance(m, k.section) /\ m.mtype # MagSpecial(k) THEN [m EXCEPT !.mtype = MagSpecial(k)]
         ELSE MagLV50Evolution(m, k)
    [] OTHER -> m

----------------------------------------------------------------------------
(* Feeding                                                                 *)

Within(n, low, high) == IF n < low THEN low ELSE IF n > high THEN high ELSE n

\* The hundreds of a value are kept, the part below is another.
Fed(m, value, part, level) == [m EXCEPT ![value] = 100 * Levels(m, value) + part, !.level = level]

\* Faulty: a value goes on growing at level 200.
Grown_on(m, value, gain, k, EvolutionClass) ==
  LET part == Within((m[value] % 100) + gain, 0, 199)
  IN IF part < 100 THEN Fed(m, value, part, m.level)
     ELSE CheckMagEvolution(Fed(m, value, part, IF m.level = 200 THEN 200 ELSE m.level + 1), k, EvolutionClass)

\* The part of a value below a hundred is fed; what goes over is a level, up to level 200.
Grown(m, value, gain, k, EvolutionClass) ==
  LET part == Within((m[value] % 100) + gain, 0, 199)
  IN IF part < 100 THEN Fed(m, value, part, m.level)
     ELSE CheckMagEvolution(IF m.level = 200 THEN Fed(m, value, 99, 200) ELSE Fed(m, value, part, m.level + 1),
                            k, EvolutionClass)

FeedMag(food) ==
  LET diet == Diet(mag.mtype)
      ft == Feed_Table[diet.table][food]
      tasted == [mag EXCEPT !.synchro = Within(@ + ft[1], 0, 120), !.IQ = Within(@ + ft[2], 0, 200)]
      Eat(m, value, n) == Grown(m, value, ft[n], keeper, diet.EvolutionClass)
  IN /\ mag # <<>> /\ events < MaxEvents
     /\ mag' = Eat(Eat(Eat(Eat(tasted, "defense", 3), "power", 4), "dex", 5), "mind", 6)
     /\ events' = events + 1
     /\ UNCHANGED keeper

\* 0x60/4D, the character dies.
Die ==
  /\ mag # <<>> /\ events < MaxEvents
  /\ mag' = [mag EXCEPT !.synchro = Within(@ - 5, 0, 120)]
  /\ events' = events + 1
  /\ UNCHANGED keeper

\* A cell makes a mag one that grows no further.
Cells ==
  {"RoboChao", "OpaOpa", "Pian", "Chao", "CHUCHU", "KAPUKAPU", "ANGELSWING", "HAMBURGER", "PANZERSTAIL",
   "MARK3", "MASTERSYSTEM", "GENESIS", "SEGASATURN", "DREAMCAST", "Geungsi"}

UseCell ==
  /\ mag # <<>> /\ events < MaxEvents
  /\ \E kind \in Cells \cup {IF Odd(keeper.section) THEN "Pitri" ELSE "Soniti"}
                       \cup {IF Odd(keeper.section) THEN "Churel" ELSE "Preta"}
                       \cup {IF mag.mtype = "DEVILSWING" THEN "DEVILSTAIL" ELSE "DEVILSWING"} :
       mag' = [mag EXCEPT !.mtype = kind]
  /\ events' = events + 1
  /\ UNCHANGED keeper

\* A stored mag is made sound as the character is loaded, or else begins anew.
FixItem(m) ==
  LET values == {"defense", "power", "dex", "mind"}
      total == Levels(m, "defense") + Levels(m, "power") + Levels(m, "dex") + Levels(m, "mind")
  IN IF (\E v \in values : m[v] < 0) \/ total > 200 \/ m.level > 200
     THEN [m EXCEPT !.mtype = "Mag", !.level = 5, !.defense = 500, !.power = 0, !.dex = 0, !.mind = 0,
                    !.synchro = 20, !.IQ = 0, !.PBflags = {}, !.blasts = <<0, 0, 0>>]
     ELSE [m EXCEPT !.synchro = Within(@, 0, 120), !.IQ = Within(@, 0, 200)]

LoadMag ==
  /\ mag = <<>>
  /\ \E m \in Hatched, k \in Keepers : mag' = FixItem(m) /\ keeper' = k
  /\ UNCHANGED events

\* The types of mags
Kinds ==
  {"Mag"} \cup DOMAIN Teaches \cup Cells
  \cup {"Deva", "Rati", "Savitri", "Rukmin", "Pushan", "Dewari", "Sato", "Bhima", "Nidra"}
  \cup {"Pitri", "Soniti", "Churel", "Preta", "DEVILSWING", "DEVILSTAIL"}
  \cup {"ELENOR", "BlankMag", "Tellusis", "StrikerUnit", "Pioneer", "Puyo", "Muyo", "Rappy", "Yahoo", "Gaelgiel",
        "Agastya"}

Classes == ToSet(Hunters) \cup ToSet(Rangers) \cup ToSet(Forces)

MagRecord ==
  [mtype : Kinds, level : Nat, defense : Int, power : Int, dex : Int, mind : Int, synchro : Int, IQ : Int,
   PBflags : {{}, {1}, {1, 2}, {1, 2, 4}}, blasts : (0 .. 5) \X (0 .. 5) \X (0 .. 3)]

\* The photon blasts of a mag, as the client reads them: the third is that of the others of which so
\* many are less.
Blasts(m) ==
  LET two == {m.blasts[i] : i \in m.PBflags \cap {1, 2}}
      others == (0 .. 5) \ two
  IN two \cup {b \in others : 4 \in m.PBflags /\ Cardinality({c \in others : c < b}) = m.blasts[3]}

\* A mag's level is the hundreds of its values; it has as many different photon blasts as it shows;
\* and it has become what mags of its level become.
SoundMag(m) ==
  /\ m.level = Levels(m, "defense") + Levels(m, "power") + Levels(m, "dex") + Levels(m, "mind")
  /\ Cardinality(Blasts(m)) = Cardinality(m.PBflags)
  /\ LET grown == Diet(m.mtype).EvolutionClass
     IN (m.level < 10 => grown \in {0, 4}) /\ (m.level \in 10 .. 34 => grown \in {1, 4})
        /\ (m.level >= 35 => grown >= 2)

\* Mags are as a character was stored with them, or begin anew.
ASSUME MagsAssumption ==
  /\ MaxEvents \in Nat
  /\ Keepers \subseteq [class : Classes, section : ToSet(Sections)]
  /\ Hatched \subseteq MagRecord /\ \A m \in Hatched : SoundMag(FixItem(m))

MagsInit == mag = <<>> /\ keeper = <<>> /\ events = 0

MagsNext == LoadMag \/ (\E food \in 1 .. 11 : FeedMag(food)) \/ Die \/ UseCell

MagsSpec == MagsInit /\ [][MagsNext]_magVars

----------------------------------------------------------------------------

MagsTypeOK ==
  /\ keeper \in Keepers \cup {<<>>} /\ events \in 0 .. MaxEvents
  /\ mag # <<>> => mag \in MagRecord /\ mag.level \in 0 .. 200 /\ mag.synchro \in 0 .. 120 /\ mag.IQ \in 0 .. 200

\* However a mag is fed its level is that of its values, it has as many different photon blasts as it
\* shows, and it has become what mags of its level become, whatever it had before a meal that took it
\* over several levels (CheckMagEvolution, AddPB).
MagSound == mag # <<>> => SoundMag(mag)

\* A mag forgets no photon blast, and one that has become another knows what that one teaches, unless
\* it knows three others: a meal may teach it more than one.
BlastsKept ==
  [][mag # <<>> =>
       /\ Blasts(mag) \subseteq Blasts(mag')
       /\ mag'.mtype # mag.mtype /\ mag'.mtype \in DOMAIN Teaches =>
            Teaches[mag'.mtype] \in Blasts(mag') \/ Cardinality(Blasts(mag')) = 3]_magVars
=============================================================================

------------------------------ MODULE Monsters ------------------------------
(***************************************************************************)
(* The monsters and boxes of one game: which ones its maps hold and which  *)
(* of them are drawn rare, who is told, what they leave behind and what    *)
(* experience they give, through quests, restarts of a battle and changes  *)
(* of the players.                                                         *)
(*                                                                         *)
(* Monsters are numbered from zero as they are read ("mid").  Maps fit the *)
(* table of 0xB50.  What is drawn from a table may be anything in it.      *)
(***************************************************************************)
EXTENDS Integers, Sequences, FiniteSets, SequencesExt

CONSTANTS
  GameKinds,   \* what a game may be: [episode, difficulty, oneperson, battle, event, areas]; of its areas in
               \* turn the files one of which is drawn, and whether it is one of the last three of episode 4
  QuestMaps,   \* quests: [government, boost, level, objects, parts], a part being [area, file]
  XP,          \* bptable: experience by entry
  Helpers,     \* Dark Falz has 512
  MaxRares,    \* entries of rareData, without the one kept for Kondrieu
  GameSeats, Floors,
  Boxes,       \* objData: of each box, [fixed, full, sort, type, rank]
  PT, RT,      \* the drop tables of episodes 1 and 2, and what is rare
  Arms,        \* what a player may have: [special, droid, counter, master], master: of level 200
  FirstRares,  \* bp_*: what the quest with the crystal gives
  MaxMoves     \* bound on the number of requests

VARIABLES
  field,        \* the game, <<>> while there is none
  todo,        \* parts of maps still to be read
  seats,       \* who sits where
  got,         \* history: [seat, mid] that experience was given for since the last restart
  laid,        \* history: what was laid down, [from, id]
  moves        \* number of requests

monsterVars == <<field, todo, seats, got, laid, moves>>

----------------------------------------------------------------------------
(* Which monsters there are: ParseMapData.                                 *)
(* A record is [base, skin, mark, add], the skin's lowest two bits, whether *)
(* reserved11 is one, and the count in reserved[0]; a kind is [rt, bp], the *)
(* index in the drop tables and in bptable.                                *)

NoKind == <<0, -1>>
Clone == [base |-> 0, skin |-> 0, mark |-> FALSE, add |-> 0]

\* One kind each.
Plain ==
  {<<96, <<12, \h4E>>>>, <<98, <<15, \h1A>>>>, <<129, <<25, \h1D>>>>, <<131, <<28, 7>>>>, <<132, <<29, 9>>>>,
   <<160, <<30, \h52>>>>, <<161, <<31, \h0A>>>>, <<162, <<34, \h1E>>>>, <<164, <<36, \h0D>>>>, <<165, <<37, \h0E>>>>,
   <<66, <<4, 1>>>>, <<101, <<21, \h31>>>>, <<167, <<40, \h1F>>>>, <<168, <<38, \h20>>>>,
   <<193, <<45, \h0F>>>>, <<197, <<46, \h25>>>>, <<202, <<78, \h2C>>>>, <<203, <<73, \h0F>>>>, <<204, <<76, \h12>>>>,
   <<216, <<61, \h3D>>>>, <<217, <<54, 7>>>>, <<218, <<55, \h1A>>>>, <<219, <<71, \h30>>>>, <<220, <<72, \h0D>>>>,
   <<222, <<66, \h40>>>>, <<223, <<67, \h41>>>>, <<225, <<82, \h26>>>>, <<272, <<1, 9>>>>, <<275, <<6, \h1F>>>>}

\* Families told apart by the skin: 0, 1, 2, 3.
BySkin ==
  {<<68, <<<<9, \h4B>>, <<10, \h4C>>, <<11, \h4D>>, <<11, \h4D>>>>>>,
   <<99, <<<<16, \h4F>>, <<17, \h50>>, <<18, \h51>>, <<18, \h51>>>>>>,
   <<128, <<<<24, \h1B>>, <<50, \h1C>>, <<24, \h1B>>, <<50, \h1C>>>>>>,
   <<166, <<<<41, \h53>>, <<42, \h54>>, <<43, \h55>>, <<43, \h55>>>>>>,
   <<212, <<<<62, 6>>, <<63, \h13>>, <<63, \h13>>, <<63, \h13>>>>>>,
   <<213, <<<<52, \h4B>>, <<53, \h4C>>, <<52, \h4B>>, <<53, \h4C>>>>>>,
   <<214, <<<<56, \h3A>>, <<57, \h45>>, <<58, \h46>>, <<58, \h46>>>>>>,
   <<215, <<<<59, \h3B>>, <<60, \h3C>>, <<59, \h3B>>, <<60, \h3C>>>>>>,
   <<221, <<<<64, \h4F>>, <<65, \h50>>, <<64, \h4F>>, <<65, \h50>>>>>>,
   <<277, <<<<9, 0>>, <<10, 1>>, <<11, 3>>, <<11, 3>>>>>>,
   <<279, <<<<14, \h11>>, <<16, \h12>>, <<15, \h13>>, <<15, \h13>>>>>>}

\* Families with a rare kind, the usual one first.
ByRare ==
  {<<64, <<1, \h49>>, <<2, \h4A>>>>, <<67, <<7, 2>>, <<8, 3>>>>, <<100, <<19, \h30>>, <<20, \h2F>>>>,
   <<130, <<26, 6>>, <<27, \h13>>>>, <<274, <<4, \h19>>, <<5, \h1A>>>>, <<278, <<12, \h0F>>, <<13, \h10>>>>}

Drawn == {64, 65, 97, 100, 274, 276, 278, 281}      \* drawn rare
BySkinSet == {64, 65, 274, 276, 278}                \* made rare by the map's skin, others by its mark
SetRare(m) == IF m.base \in BySkinSet THEN m.skin % 2 = 1 ELSE m.mark

EventRappy(event) == CASE event = 1 -> 79 [] event = 4 -> 81 [] event = 5 -> 80 [] OTHER -> 51

Rappy(g, r, aMob) ==
  IF g.episode = 3
  THEN <<IF r THEN 18 ELSE 17, (IF aMob THEN \h17 ELSE 5) + (IF r THEN 1 ELSE 0)>>
  ELSE IF ~r THEN <<5, \h18>> ELSE <<IF g.episode = 1 THEN 6 ELSE EventRappy(g.event), \h19>>

\* aMob is set for the later areas of episodes 2 and 4.
Lily(g, r, aMob) == IF g.episode = 2 /\ aMob THEN <<83, \h25>> ELSE IF r THEN <<14, 5>> ELSE <<13, 4>>
Sinow(g, m, aMob) ==
  IF g.episode = 2 /\ aMob THEN <<84, \h23>> ELSE IF m.skin % 2 = 1 THEN <<70, \h44>> ELSE <<69, \h43>>
Saint(m, r) == <<IF r THEN 21 ELSE IF m.skin % 2 = 1 THEN 20 ELSE 19, \h22>>
Zu(r, aMob) == IF r THEN <<8, IF aMob THEN \h1C ELSE 8>> ELSE <<7, IF aMob THEN \h1B ELSE 7>>
Lizard(r, aMob) == IF r THEN <<2, IF aMob THEN \h1E ELSE \h0E>> ELSE <<3, IF aMob THEN \h1D ELSE \h0D>>

KindOf(g, m, r, aMob) ==
  CASE m.base = 65 -> Rappy(g, r, aMob)
    [] m.base = 97 -> Lily(g, r, aMob)
    [] m.base = 192 -> IF g.episode = 1 THEN <<44, \h12>> ELSE IF g.episode = 2 THEN <<77, \h1E>> ELSE NoKind
    [] m.base = 200 -> <<47, IF g.difficulty > 0 THEN \h38 ELSE \h37>>
    [] m.base = 224 -> Sinow(g, m, aMob)
    [] m.base = 273 -> Lizard(r, aMob)
    [] m.base = 276 -> Zu(r, aMob)
    [] m.base = 281 -> Saint(m, r)
    [] OTHER ->
       LET plain == {k[2] : k \in {k \in Plain : k[1] = m.base}}
           skins == {k[2][m.skin + 1] : k \in {k \in BySkin : k[1] = m.base}}
           rares == {IF r THEN k[3] ELSE k[2] : k \in {k \in ByRare : k[1] = m.base}}
           all == plain \cup skins \cup rares
       IN  IF all = {} THEN NoKind ELSE CHOOSE k \in all : TRUE

Copies(n, x) == [i \in 1 .. n |-> x]

\* Who comes with a monster, each with a number of its own.
Children(g, m) ==
  CASE m.base = 66 -> [i \in 1 .. (IF m.add = 0 THEN 30 ELSE m.add) |-> IF i <= 30 THEN <<3, 0>> ELSE NoKind]
    [] m.base = 101 -> <<<<23, \h32>>, <<22, \h33>>>>
    [] m.base = 132 -> Copies(8, <<28, 8>>)
    [] m.base = 167 -> Copies(4, <<38, \h20>>)
    [] m.base = 200 -> Copies(Helpers, <<0, IF g.difficulty = 3 THEN \h39 ELSE \h35>>)
    [] m.base = 223 -> Copies(m.add, <<68, \h42>>)
    [] OTHER -> <<>>

\* Numbers left unused after a monster.
Unused(g, m, aMob) ==
  CASE m.base = 130 -> IF m.add = 0 THEN 4 ELSE 0
    [] m.base = 161 -> 2
    [] m.base = 202 -> Helpers
    [] m.base = 203 -> 47
    [] m.base = 204 -> 5
    [] m.base = 212 -> 4
    [] m.base = 224 -> IF g.episode = 2 /\ aMob THEN 4 ELSE 0
    [] m.base = 281 -> IF m.add = 0 THEN 24 ELSE 0
    [] OTHER -> 0

Placed(g, m, kind) == [g EXCEPT !.mapData = Append(@, [of |-> m, rt |-> kind[1], bp |-> kind[2]])]

\* The number of the monster that is placed next goes on the list.
Listed(g) == [g EXCEPT !.rareData = Append(@, Len(g.mapData))]

Room(g, base) == Len(g.rareData) < (IF base = 281 THEN MaxRares + 1 ELSE MaxRares)

\* A monster is placed, drawn rare if its number is among the lucky ones and there is room.
Place(g, m, aMob, lucky) ==
  LET drawn == m.base \in Drawn /\ ~SetRare(m) /\ Room(g, m.base) /\ Len(g.mapData) \in lucky
  IN  Placed(IF drawn THEN Listed(g) ELSE g, m, KindOf(g, m, drawn \/ SetRare(m), aMob))

\* Faulty: what a slime divides into is listed under the number of the slime.
Slimes_first(g, lucky) ==
  LET mid == Len(g.mapData) - 1
      next(x, i) ==
        LET drawn == Room(x, 100) /\ Len(x.mapData) \in lucky
        IN  Placed(IF drawn THEN [x EXCEPT !.rareData = Append(@, mid)] ELSE x, Clone,
                   IF drawn THEN <<20, \h2F>> ELSE <<19, \h30>>)
  IN  FoldLeft(next, g, <<1, 2, 3, 4>>)

\* What a slime divides into is drawn one by one.
Slimes(g, lucky) ==
  LET next(x, i) ==
        LET drawn == Room(x, 100) /\ Len(x.mapData) \in lucky
        IN  Placed(IF drawn THEN Listed(x) ELSE x, Clone, IF drawn THEN <<20, \h2F>> ELSE <<19, \h30>>)
  IN  FoldLeft(next, g, <<1, 2, 3, 4>>)

Followed(g, kinds, as) == FoldLeft(LAMBDA x, k : Placed(x, as, k), g, kinds)

\* A count in a record is left room for, unless the last one placed is a child.
ParseRecord(g, m, aMob, lucky) ==
  LET first == Place(g, m, aMob, lucky)
      kids == Children(g, m)
      with == IF m.base = 100 THEN Slimes(first, lucky)
              ELSE Followed(first, kids, IF m.base = 200 THEN [Clone EXCEPT !.base = 200] ELSE Clone)
      room == Unused(g, m, aMob) + (IF m.base = 100 \/ kids # <<>> THEN 0 ELSE m.add)
  IN  Followed(with, Copies(room, NoKind), Clone)

ParseMapData(g, file, aMob, lucky) == FoldLeft(LAMBDA x, m : ParseRecord(x, m, aMob, lucky), g, file)

----------------------------------------------------------------------------
(* Games and quests                                                        *)

Gone == [in |-> FALSE, bursting |-> FALSE, hasquest |-> FALSE, told |-> <<>>, floor |-> 0, kills |-> 0, arm |-> <<>>]
Entering(arm) == [Gone EXCEPT !.in = TRUE, !.bursting = TRUE, !.arm = arm]

In == {s \in GameSeats : seats[s].in}

\* made is the weapon that was made last, if what was made last is one.
NewGame(k) ==
  [episode |-> k.episode, difficulty |-> k.difficulty, oneperson |-> k.oneperson, battle |-> k.battle,
   event |-> k.event, mapData |-> <<>>, rareData |-> <<>>, dead |-> {}, drop |-> {}, boxHit |-> {}, itemID |-> 1,
   made |-> <<>>, quest_loaded |-> FALSE, inpquest |-> FALSE, objects |-> 0, meseta_boost |-> FALSE,
   battle_level |-> 0, redbox |-> FALSE, drops_disabled |-> FALSE, questE0 |-> FALSE]

MonstersInit ==
  field = <<>> /\ todo = <<>> /\ seats = [s \in GameSeats |-> Gone] /\ got = <<>> /\ laid = <<>> /\ moves = 0

Move == todo = <<>> /\ field # <<>> /\ moves < MaxMoves /\ moves' = moves + 1

\* Of each area one file is drawn.
MapsOf(k) == [i \in DOMAIN k.areas |-> [files |-> k.areas[i].files, aMob |-> k.areas[i].desert]]

\* 0xC1: a player makes the game, and its maps are read.
MakeGame ==
  /\ field = <<>> /\ moves = 0
  /\ \E k \in GameKinds, arm \in Arms :
       /\ field' = NewGame(k)
       /\ seats' = [seats EXCEPT ![0] = Entering(arm)]
       /\ todo' = MapsOf(k)
  /\ UNCHANGED <<got, laid, moves>>

\* LoadMapData: of the next part one file is drawn and read.
LoadMapData ==
  /\ todo # <<>>
  /\ \E file \in todo[1].files :
       LET last == Len(ParseMapData(field, file, todo[1].aMob, {}).mapData)
       IN  \E lucky \in SUBSET (Len(field.mapData) .. last - 1) :
             field' = ParseMapData(field, file, todo[1].aMob, lucky)
  /\ todo' = Tail(todo)
  /\ UNCHANGED <<seats, got, laid, moves>>

\* 0x10/00; who may join which game is in Lobby.
JoinGame(s) ==
  /\ Move /\ In # {} /\ s \notin In /\ ~field.oneperson
  /\ \A t \in In : ~seats[t].bursting /\ (field.inpquest => seats[t].hasquest)
  /\ field.quest_loaded => field.inpquest
  /\ \E arm \in Arms : seats' = [seats EXCEPT ![s] = Entering(arm)]
  /\ UNCHANGED <<field, todo, got, laid>>

QuitGame(s) ==
  /\ Move /\ s \in In
  /\ seats' = [seats EXCEPT ![s] = Gone]
  /\ field' = IF In = {s} THEN <<>> ELSE field
  /\ UNCHANGED <<todo, got, laid>>

\* 0x6F: the list of rare monsters is sent, after a government quest if there is one.
BurstEnd(s) ==
  /\ Move /\ s \in In /\ seats[s].bursting /\ (field.inpquest => seats[s].hasquest)
  /\ seats' = [seats EXCEPT ![s].bursting = FALSE, ![s].told = field.rareData]
  /\ UNCHANGED <<field, todo, got, laid>>

\* Faulty: the quest is sent to who starts it, and others are taken to have it.
QuestSent_one(s) == [seats EXCEPT ![s].bursting = TRUE]

QuestSent(s) == [t \in GameSeats |-> IF t \in In THEN [seats[t] EXCEPT !.bursting = TRUE] ELSE seats[t]]

\* 0x10/0F: the maps of the quest replace those of the game; what is dead and what was opened stays so.
StartQuest(s, q) ==
  /\ Move /\ s \in In /\ ~field.quest_loaded
  /\ field' = [field EXCEPT !.quest_loaded = TRUE, !.inpquest = q.government, !.objects = q.objects,
                          !.battle_level = IF field.battle THEN q.level ELSE @,
                          !.meseta_boost = field.battle /\ q.boost, !.mapData = <<>>, !.rareData = <<>>]
  /\ todo' = [i \in DOMAIN q.parts |->
                [files |-> {q.parts[i].file},
                 aMob |-> (field.episode = 3 /\ q.parts[i].area > 5) \/ (field.episode = 2 /\ q.parts[i].area > 15)]]
  /\ seats' = QuestSent(s)
  /\ UNCHANGED <<got, laid>>

\* 0xAC.
QuestLoaded(s) ==
  /\ Move /\ s \in In /\ field.quest_loaded /\ ~seats[s].hasquest
  /\ seats' = [seats EXCEPT ![s].hasquest = TRUE]
  /\ UNCHANGED <<field, todo, got, laid>>

\* 0x60/1F and 20.
ChangeFloor(s, f) ==
  /\ Move /\ s \in In /\ seats[s].floor # f
  /\ seats' = [seats EXCEPT ![s].floor = f]
  /\ UNCHANGED <<field, todo, got, laid>>

----------------------------------------------------------------------------
(* What is made: GenerateRandomAttributes, GenerateCommonItem              *)

Found(sort, type, rank) ==
  [sort |-> sort, type |-> type, rank |-> rank, untekked |-> FALSE, grind |-> 0, attr |-> <<>>, slots |-> 0, amount |-> 0]

Nothing == <<>>

ep2_rtremap == <<0, 1, 2, 3, 4, 8, 5, 6, 7, 8, 9, 10>>

\* The floor of a boss counts as the last of its area; zero is the city.
FloorArea(g, floor) ==
  CASE g.episode = 1 -> (CASE floor = 11 -> 3 [] floor = 12 -> 6 [] floor = 13 -> 8 [] floor = 14 -> 10 [] OTHER -> floor)
    [] g.episode = 2 -> (CASE floor = 14 -> 3 [] floor = 15 -> 6 [] floor = 12 -> 9 [] floor = 13 -> 10
                           [] OTHER -> IF floor <= 11 THEN ep2_rtremap[floor + 1] ELSE 10)
    [] OTHER -> floor

Area(g, floor) == FloorArea(g, floor) + (IF g.episode = 3 THEN 1 ELSE 0)

Smaller(a, b) == IF a < b THEN a ELSE b

\* Tables count areas from zero.
Row(area) == Smaller(area, 10) - 1

PTOf(g) == PT[IF g.episode = 2 THEN 2 ELSE 1]

\* A percentage is a byte, and of each attribute there is one.
Attributes(pt, row, most) ==
  LET add(attr, d) ==
        IF d[1] = 0 \/ \E k \in DOMAIN attr : attr[k].type = d[1] THEN attr
        ELSE Append(attr, [type |-> d[1], pct |-> ((d[2] - 2) * 5) % 256])
  IN  {FoldLeft(add, <<>>, draws) : draws \in [1 .. most -> pt.attachment[row] \X pt.percents]}

Special(pt, row) == IF pt.element_ranking[row] > 0 THEN BOOLEAN ELSE {FALSE}

RareWeapon(it) == it.type > 12 \/ (it.type > 9 /\ it.rank > 3) \/ (it.type < 10 /\ it.rank > 4)

Amount(range) == {[Found("meseta", 0, 0) EXCEPT !.amount = n] : n \in range[1] .. (IF range[2] > range[1] THEN range[2] ELSE range[1])}

\* What is known beforehand is completed; in the city it stays as it is.
GenerateRandomAttributes(g, it, floor) ==
  LET area == Area(g, floor)
      row == Row(area)
      pt == PTOf(g)
  IN  CASE area = 0 -> {it}
        [] it.sort = "weapon" ->
             {[it EXCEPT !.untekked = u, !.grind = n, !.attr = a] :
                u \in IF RareWeapon(it) THEN {TRUE} ELSE Special(pt, row),
                n \in IF RareWeapon(it) THEN {0} ELSE pt.grinds,
                a \in Attributes(pt, row, IF it.type \in {\h33, \hAB} THEN 2 ELSE 3)}
        [] it.sort = "armor" -> {[it EXCEPT !.slots = n] : n \in pt.slots}
        [] it.sort = "tech" -> {[it EXCEPT !.rank = n] : n \in pt.tech_levels[row]}
        [] it.sort = "meseta" -> Amount(pt.box_meseta[row])
        [] OTHER -> {it}

CommonWeapons(pt, row) ==
  {[Found("weapon", w[1], Smaller(w[2], IF w[1] > 9 THEN 3 ELSE 4)) EXCEPT !.untekked = u, !.grind = n, !.attr = a] :
     w \in pt.weapons[row], u \in Special(pt, row), n \in pt.grinds, a \in Attributes(pt, row, 3)}

\* Better ones the deeper and the harder, up to the last that is no rare one.
CommonArmor(pt, g, fl) ==
  {[Found("armor", 1, Smaller(fl \div 3 + 5 * g.difficulty + n, \h17)) EXCEPT !.slots = k] : n \in 0 .. fl \div 2 + 1, k \in pt.slots}
CommonShields(g, fl) ==
  {Found("shield", 2, Smaller(fl \div 3 + 4 * g.difficulty + n, \h14)) : n \in 0 .. fl \div 2 + 1}
CommonUnits(pt, row) ==
  IF pt.unit_level[row] \in 2 .. 8 THEN {Found("unit", 3, u) : u \in pt.units[row]} ELSE {Found("tool", 0, 0)}

CommonTools(pt, row) ==
  UNION {IF t = 2 THEN {Found("tech", 2, n) : n \in pt.tech_levels[row]} ELSE {Found("tool", t, 0)} : t \in pt.tools[row]}

\* Equipment and tools; a box that says nothing may hold anything but rare things.
CommonSets(g, type, is_enemy) ==
  IF is_enemy THEN {3, CASE type = 0 -> 0 [] type \in 1 .. 3 -> 1 [] OTHER -> 3}
  ELSE (IF g.meseta_boost THEN {4} ELSE {}) \cup (IF type = 255 THEN 0 .. 4 ELSE {type})

GenerateCommonItem(g, type, is_enemy, floor) ==
  LET area == Area(g, floor)
      fl == IF g.battle /\ g.quest_loaded
            THEN IF g.battle_level = 0 \/ g.battle_level > 5 THEN 6 ELSE 3
            ELSE Smaller(area, 10)
      row == Row(fl)
      pt == PTOf(g)
      made(set) ==
        CASE set = 0 -> CommonWeapons(pt, row)
          [] set = 1 -> UNION {CASE eq = 1 -> CommonArmor(pt, g, fl) [] eq = 2 -> CommonShields(g, fl)
                                 [] OTHER -> CommonUnits(pt, row) : eq \in IF is_enemy THEN {type} ELSE 1 .. 3}
          [] set = 2 -> {Found("mag", 0, 5)}
          [] set = 3 -> CommonTools(pt, row)
          [] OTHER -> Amount(pt.box_meseta[row])
  IN  IF area = 0 THEN {Nothing} ELSE UNION {made(set) : set \in CommonSets(g, type, is_enemy)}

----------------------------------------------------------------------------
(* What the players do                                                     *)

MonsterIds == 0 .. Len(field.mapData) - 1
Monster(mid) == field.mapData[mid + 1]

\* Episode 4 has no table of its own for what is not rare.
ep4_rtremap == <<0, 1, 8, 7, 19, 20, 56, 55, 2, 9, 10, 11, 72, 2, 41, 43, 42, 5, 6, 47, 47, 47>>
DropRow(rt) == IF field.episode # 3 THEN rt ELSE IF rt < 22 THEN ep4_rtremap[rt + 1] ELSE 0
DropPT(rt) == IF field.episode = 3 /\ DropRow(rt) > \h2F THEN PT[2] ELSE PTOf(field)

\* enemy_dar: whether anything is dropped.
DAR(rt) ==
  IF (field.episode = 3 /\ rt \in 19 .. 21) \/ DropPT(rt).enemy_dar[DropRow(rt)] = 100 \/ field.redbox THEN {TRUE}
  ELSE IF DropPT(rt).enemy_dar[DropRow(rt)] = 0 THEN {FALSE} ELSE BOOLEAN

\* What may come of it; a rare thing for certain with the red box.
MonsterDrop(rt, floor) ==
  LET rare == RT[field.episode].monsters[rt]
      pt == DropPT(rt)
      common == Amount(pt.enemy_meseta[DropRow(rt)])
                \cup GenerateCommonItem(field, pt.enemy_drop[DropRow(rt)], TRUE, floor)
  IN  UNION {GenerateRandomAttributes(field, it, floor) : it \in rare}
      \cup (IF rare # {} /\ field.redbox THEN {} ELSE common)

\* What is made is laid down and gets the next id; in the city nothing may come of it.
LaidDown(g, it, from) ==
  /\ field' = IF it = Nothing THEN g
             ELSE [g EXCEPT !.made = IF it.sort = "weapon" THEN it ELSE Nothing, !.itemID = @ + 1]
  /\ laid' = IF it = Nothing THEN laid ELSE Append(laid, [from |-> from, id |-> field.itemID])

\* Faulty: a monster that has left nothing may be asked again, and one that has left something.
AfterDrop_same(g, mid) == g

AfterDrop(g, mid) == [g EXCEPT !.drop = @ \cup {mid}]

\* 0x62/60: a client asks what a monster leaves; its kind is the server's but for the Death Gunner.
AskDrop(s, mid, said35) ==
  /\ Move /\ s \in In /\ ~field.drops_disabled /\ mid \notin field.drop
  /\ LET rt == IF field.episode = 1 /\ said35 /\ Monster(mid).rt = 34 THEN 35 ELSE Monster(mid).rt
     IN  \/ TRUE \in DAR(rt) /\ \E it \in MonsterDrop(rt, seats[s].floor) : LaidDown(AfterDrop(field, mid), it, <<"monster", mid>>)
         \/ FALSE \in DAR(rt) /\ LaidDown(AfterDrop(field, mid), Nothing, <<>>)
  /\ UNCHANGED <<todo, seats, got>>

\* A box that holds a thing of a certain kind, or a certain thing.
FixedBox(box, floor) ==
  IF ~box.full THEN GenerateCommonItem(field, box.sort, FALSE, floor)
  ELSE IF box.sort = 4 THEN GenerateCommonItem(field, 4, FALSE, floor)
  ELSE IF box.sort = 0 /\ box.type = 0 THEN GenerateCommonItem(field, 255, FALSE, floor)
  ELSE GenerateRandomAttributes(
         field, Found(<<"weapon", "armor", "mag", "tool">>[box.sort + 1], box.type + (IF box.sort < 2 THEN 1 ELSE 0), box.rank), floor)

\* The rare things of the boxes of an area are tried in turn, for certain with the red box.
OtherBox(floor) ==
  LET here == SelectSeq(RT[field.episode].boxes, LAMBDA e : e[1] = FloorArea(field, floor))
      rare == IF here = <<>> THEN {} ELSE IF field.redbox THEN {here[1][2]} ELSE {here[i][2] : i \in DOMAIN here}
  IN  UNION {GenerateRandomAttributes(field, it, floor) : it \in rare}
      \cup (IF rare # {} /\ field.redbox THEN {} ELSE GenerateCommonItem(field, 255, FALSE, floor))

\* 0x62/A2: a client opens a box, of the quest if there is one.
AskBox(s, b) ==
  /\ Move /\ s \in In /\ ~field.drops_disabled /\ b \notin field.boxHit
  /\ LET fixed == (field.quest_loaded => b < field.objects) /\ Boxes[b].fixed
         things == IF fixed THEN FixedBox(Boxes[b], seats[s].floor) ELSE OtherBox(seats[s].floor)
     IN  \E it \in things : LaidDown([field EXCEPT !.boxHit = @ \cup {b}], it, <<"box", b>>)
  /\ UNCHANGED <<todo, seats, got>>

\* Who is where no such monster is, in a game without a quest.
Bosses ==
  <<{<<11, {192}>>, <<12, {193}>>, <<13, {194, 197}>>, <<14, {200}>>},
    {<<12, {192}>>, <<13, {202}>>, <<14, {203}>>, <<15, {204}>>}, {<<9, {280, 281, 41}>>}>>
Mismatch(base, floor) == ~field.quest_loaded /\ \E b \in Bosses[field.episode] : b[1] = floor /\ base \notin b[2]

Exp(mid) == IF Monster(mid).bp < 0 THEN 0 ELSE XP[Monster(mid).bp]

\* What counts kills counts them from 0x8000, in two bytes.
KillCounted(n) == ((IF n < \h8000 THEN \h8000 ELSE n) + 1) % \h10000

\* 0x60/C8: a monster is dead for one of the players, who gets its experience, and goes if it is somewhere
\* else; all of it for the last blow, else 77 per cent.
KillMonster(s, mid) ==
  /\ Move /\ s \in In /\ <<s, mid>> \notin field.dead
  /\ field' = IF Mismatch(Monster(mid).of.base, seats[s].floor) /\ In = {s} THEN <<>>
             ELSE [field EXCEPT !.dead = @ \cup {<<s, mid>>}]
  /\ got' = IF seats[s].arm.master \/ Exp(mid) = 0 THEN got ELSE Append(got, <<s, mid>>)
  /\ seats' = [seats EXCEPT ![s] = IF Mismatch(Monster(mid).of.base, seats[s].floor) THEN Gone
                                   ELSE IF seats[s].arm.counter THEN [@ EXCEPT !.kills = KillCounted(@)] ELSE @]
  /\ UNCHANGED <<todo, laid>>

\* 0x60/C6: some of a monster's experience is stolen, alive or dead and as often as one likes, eighty at most.
Stolen(s, mid) ==
  LET arm == seats[s].arm
      percent == CASE arm.special = 9 -> 8 [] arm.special = 10 -> 10
                   [] arm.special = 11 -> IF field.difficulty = 3 /\ arm.droid THEN 42 ELSE 12 [] OTHER -> 0
  IN  Smaller((Exp(mid) * percent) \div 100, 80)

\* 0x60/CF: who is in the battle starts it again, with all monsters and boxes.
StartAgain(s) ==
  /\ Move /\ s \in In /\ field.battle /\ field.quest_loaded
  /\ field' = [field EXCEPT !.boxHit = {}, !.dead = {}, !.drop = {}]
  /\ got' = <<>> /\ laid' = SelectSeq(laid, LAMBDA e : e.from[1] = "reward")
  /\ UNCHANGED <<todo, seats>>

\* The GM command /redbox.
RedBox ==
  /\ Move /\ In # {}
  /\ field' = [field EXCEPT !.redbox = ~@]
  /\ UNCHANGED <<todo, seats, got, laid>>

\* 0x62/DF and E0: in a quest for one a crystal is given for what the quest gives instead of drops.
UseCrystal(s) ==
  /\ Move /\ s \in In /\ field.oneperson /\ field.quest_loaded /\ ~field.drops_disabled
  /\ field' = [field EXCEPT !.drops_disabled = TRUE]
  /\ UNCHANGED <<todo, seats, got, laid>>

CrystalReward(s, route) ==
  /\ Move /\ s \in In /\ field.oneperson /\ field.quest_loaded /\ field.drops_disabled /\ ~field.questE0
  /\ LET n == IF route > 3 THEN 1 ELSE field.difficulty + 1
     IN  /\ \E it \in FirstRares :
              field' = [field EXCEPT !.questE0 = TRUE, !.itemID = @ + n,
                                   !.made = IF it.sort = "weapon" THEN [it EXCEPT !.untekked = TRUE] ELSE Nothing]
         /\ laid' = laid \o [i \in 1 .. n |-> [from |-> <<"reward", i>>, id |-> field.itemID + i - 1]]
  /\ UNCHANGED <<todo, seats, got>>

Request(s) ==
  \/ JoinGame(s) \/ QuitGame(s) \/ BurstEnd(s) \/ QuestLoaded(s) \/ StartAgain(s) \/ UseCrystal(s)
  \/ \E q \in QuestMaps : StartQuest(s, q)
  \/ \E f \in Floors : ChangeFloor(s, f)
  \/ \E b \in DOMAIN Boxes : AskBox(s, b)
  \/ \E route \in {0, 4} : CrystalReward(s, route)
  \/ field # <<>> /\ \E mid \in MonsterIds : KillMonster(s, mid) \/ \E said35 \in BOOLEAN : AskDrop(s, mid, said35)

MonstersNext == MakeGame \/ LoadMapData \/ RedBox \/ \E s \in GameSeats : Request(s)

MonstersSpec == MonstersInit /\ [][MonstersNext]_monsterVars

----------------------------------------------------------------------------

MonstersTypeOK ==
  field # <<>> =>
    /\ field.episode \in 1 .. 3 /\ field.difficulty \in 0 .. 3 /\ Len(field.rareData) <= MaxRares + 1
    /\ \A i \in DOMAIN field.mapData : field.mapData[i].rt \in 0 .. 84 /\ field.mapData[i].bp \in -1 .. 95
    /\ \A s \in In : \A mid \in MonsterIds : Stolen(s, mid) \in 0 .. 80

\* The kinds that are rare ones of their family.
RareKind(e) ==
  \E k \in {<<64, {2}>>, <<65, {6, 18, 51, 79, 80, 81}>>, <<97, {14}>>, <<100, {20}>>, <<0, {20}>>, <<274, {5}>>,
            <<276, {8}>>, <<278, {13}>>, <<281, {21}>>} : e.of.base = k[1] /\ e.rt \in k[2]

\* The list of rare monsters names those that were drawn, each once and as they are numbered, whatever
\* comes with the monsters before them; Lilies of the tower are listed though they are no rare ones.
RaresListed ==
  field # <<>> =>
    /\ \A i \in DOMAIN field.rareData : i > 1 => field.rareData[i - 1] < field.rareData[i]
    /\ \A mid \in MonsterIds :
         LET e == Monster(mid) IN
         (RareKind(e) /\ ~SetRare(e.of)) <=> (mid \in Range(field.rareData) /\ e.rt # 83)

\* Whoever plays in a game has been told which of its monsters are the rare ones, those of a quest that was
\* started as it came in among them.
RaresTold == field # <<>> => \A s \in In : seats[s].bursting \/ seats[s].told = field.rareData

\* Until a battle is started again no monster or box leaves two things and none gives one seat its
\* experience twice, whoever leaves and comes; no thing that is made has the id of another, and a weapon
\* has each attribute once and in no more places than it has.
DropsSound ==
  /\ \A i, k \in DOMAIN laid : i # k => laid[i].from # laid[k].from /\ laid[i].id # laid[k].id
  /\ \A i, k \in DOMAIN got : i # k => got[i] # got[k]
  /\ field # <<>> /\ field.made # Nothing =>
       LET it == field.made IN
       /\ \A i, k \in DOMAIN it.attr : i # k => it.attr[i].type # it.attr[k].type
       /\ it.type \in {\h33, \hAB} => Len(it.attr) <= 2
=============================================================================

------------------------------- MODULE Growth -------------------------------
(***************************************************************************)
(* What a character is: level, experience and the points of its stats,     *)
(* which levels and materials raise.  Materials are counted apart, and     *)
(* again from the stats when a character is loaded.  In a battle the       *)
(* character is copied and the copy comes back afterwards.                 *)
(***************************************************************************)
EXTENDS Integers, Sequences, FiniteSets, FiniteSetsExt, Folds

CONSTANTS
  Heroes,      \* the players
  Points,      \* stats that a material raises, one by one
  Starting,    \* startingData: [Points -> Nat]
  LevelData,   \* playerLevelData: what level 0, 1, .. adds to each
  Steps,       \* tnlxp as it is written: experience from each level to the next
  Yields,      \* mapData[mid].exp, by mid
  MaxMat,      \* materials a character may use, 250 or 150
  MaxHPMat,    \* HPmat and TPmat at most, 250
  MaxFights    \* bound on what happens to the characters

MaxLevel == Len(Steps) - 1   \* 199
InLobby == 4                 \* places a seat's number does not stand for
Off == 5
Mids == DOMAIN Yields

VARIABLES
  hero,        \* character
  hero_backup, \* character_backup, or <<>>
  mode,        \* client->mode
  matuse,      \* client->matuse
  place,       \* clientID, or one of the two places below
  game,        \* [battle, battle_level, quest]
  dead,        \* monsterData[mid].dead
  saved,       \* the characters as stored
  fights

growthVars == <<hero, hero_backup, mode, matuse, place, game, dead, saved, fights>>

----------------------------------------------------------------------------

\* tnlxp, as main adds it up.
tnlxp == [lv \in 0 .. MaxLevel |-> FoldFunctionOnSet(+, 0, Steps, 1 .. lv + 1)]

\* The points of a character of this level without materials.
Base == [level \in 0 .. MaxLevel |->
  [p \in Points |-> Starting[p] + FoldFunctionOnSet(+, 0, [k \in 1 .. level |-> LevelData[k][p]], 1 .. level)]]

Newborn(c) == [c EXCEPT !.level = 0, !.XP = 0, !.points = [p \in Points |-> IF p = "LCK" THEN @[p] ELSE Starting[p]]]

\* The character with what its levels up to this one add.
Raised(c, level) ==
  [c EXCEPT !.level = level,
            !.points = [p \in Points |-> @[p] + Base[level][p] - Base[c.level][p]]]

SkipToLevel(c, target) ==
  LET level == IF target > MaxLevel THEN MaxLevel ELSE target
  IN IF c.level >= level THEN c ELSE [Raised(c, level) EXCEPT !.XP = tnlxp[level - 1]]

\* Faulty: one level at a time.
AddExp_one(c, XP) ==
  LET rich == [c EXCEPT !.XP = @ + XP]
  IN IF rich.XP < tnlxp[c.level] THEN rich ELSE Raised(rich, c.level + 1)

\* Levels are gained as long as there is experience for the next, and none after the last.
AddExp(c, XP) ==
  LET rich == [c EXCEPT !.XP = @ + XP]
      ends == {lv \in c.level + 1 .. MaxLevel : lv = MaxLevel \/ rich.XP < tnlxp[lv]}
  IN IF rich.XP < tnlxp[c.level] THEN rich ELSE Raised(rich, Min(ends))

----------------------------------------------------------------------------
(* Coming and going                                                        *)

\* Materials are what the points have more than levels give.
Recount(c) == [p \in Points |-> (c.points[p] - Base[c.level][p]) \div 2]

Load(h) ==
  /\ place[h] = Off
  /\ hero' = [hero EXCEPT ![h] = saved[h]]
  /\ matuse' = [matuse EXCEPT ![h] = Recount(saved[h])]
  /\ place' = [place EXCEPT ![h] = InLobby]
  /\ UNCHANGED <<hero_backup, mode, game, dead, saved, fights>>

InGame(h) == place[h] \in 0 .. 3
Seats == {place[h] : h \in {k \in Heroes : InGame(k)}}

\* The first to enter opens the game; a battle that has begun is closed (Lobby).
Enter(h) ==
  /\ place[h] = InLobby
  /\ \/ /\ Seats = {}
        /\ \E battle \in BOOLEAN : game' = [battle |-> battle, battle_level |-> 0, quest |-> FALSE]
        /\ dead' = [mid \in Mids |-> {}]
     \/ /\ Seats # {}
        /\ ~(game.battle /\ game.quest)
        /\ UNCHANGED <<game, dead>>
  /\ place' = [place EXCEPT ![h] = Min((0 .. 3) \ Seats)]
  /\ UNCHANGED <<hero, hero_backup, mode, matuse, saved, fights>>

\* The permanent character comes back.
Permanent(h) == IF hero_backup[h] # <<>> /\ mode[h] # 0 THEN hero_backup[h] ELSE hero[h]

\* Send95
LeaveGame(h) ==
  /\ InGame(h)
  /\ hero' = [hero EXCEPT ![h] = Permanent(h)]
  /\ mode' = [mode EXCEPT ![h] = IF hero_backup[h] # <<>> THEN 0 ELSE @]
  /\ hero_backup' = [hero_backup EXCEPT ![h] = <<>>]
  /\ place' = [place EXCEPT ![h] = InLobby]
  /\ UNCHANGED <<matuse, game, dead, saved, fights>>

\* initialize_connection
Offline(h) ==
  /\ place[h] # Off
  /\ hero' = [hero EXCEPT ![h] = Permanent(h)]
  /\ saved' = [saved EXCEPT ![h] = Permanent(h)]
  /\ hero_backup' = [hero_backup EXCEPT ![h] = <<>>]
  /\ mode' = [mode EXCEPT ![h] = 0]
  /\ place' = [place EXCEPT ![h] = Off]
  /\ UNCHANGED <<matuse, game, dead, fights>>

----------------------------------------------------------------------------
(* Battles                                                                 *)

Fight == fights < MaxFights /\ fights' = fights + 1

\* By rule: the mode and the battle level.
Rules ==
  <<[mode |-> 1, level |-> 0], [mode |-> 3, level |-> 1], [mode |-> 3, level |-> 5], [mode |-> 3, level |-> 2],
    [mode |-> 2, level |-> 0], [mode |-> 3, level |-> 20], [mode |-> 3, level |-> 1], [mode |-> 3, level |-> 20]>>

\* What mode 3 makes of a character.
Reset(c, battle_level) == IF battle_level > 1 THEN SkipToLevel(Newborn(c), battle_level - 1) ELSE Newborn(c)

StartBattle(rule) ==
  /\ Fight /\ Seats # {} /\ ~game.quest
  /\ game' = [game EXCEPT !.quest = TRUE, !.battle_level = IF game.battle THEN Rules[rule].level ELSE @]
  /\ IF game.battle
     THEN /\ hero_backup' = [h \in Heroes |-> IF InGame(h) THEN hero[h] ELSE hero_backup[h]]
          /\ mode' = [h \in Heroes |-> IF InGame(h) THEN Rules[rule].mode ELSE mode[h]]
          /\ hero' = [h \in Heroes |-> IF InGame(h) /\ Rules[rule].mode = 3
                                       THEN Reset(hero[h], Rules[rule].level) ELSE hero[h]]
     ELSE UNCHANGED <<hero_backup, mode, hero>>
  /\ UNCHANGED <<matuse, place, dead, saved>>

\* 0x60/CF
RestartBattle(h) ==
  /\ Fight /\ InGame(h) /\ game.battle /\ mode[h] # 0
  /\ hero' = [k \in Heroes |->
       IF ~InGame(k) THEN hero[k]
       ELSE CASE mode[k] \in {1, 2} -> IF hero_backup[k] # <<>> THEN hero_backup[k] ELSE hero[k]
              [] mode[k] = 3 -> Reset(hero[k], game.battle_level)
              [] OTHER -> hero[k]]
  /\ dead' = [mid \in Mids |-> {}]
  /\ UNCHANGED <<hero_backup, mode, matuse, place, game, saved>>

\* 0x62/D0: levels are given to one of the battle.
GiveLevels(h, levels) ==
  /\ Fight /\ InGame(h) /\ game.battle /\ game.quest
  /\ hero' = [hero EXCEPT ![h] = SkipToLevel(@, @.level + levels)]
  /\ UNCHANGED <<hero_backup, mode, matuse, place, game, dead, saved>>

----------------------------------------------------------------------------
(* Experience and materials                                                *)

\* 0x60/C8: once for each monster and seat, less for those who did not hit last.
Kill(h, mid, hit_last) ==
  /\ Fight /\ InGame(h)
  /\ place[h] \notin dead[mid]
  /\ dead' = [dead EXCEPT ![mid] = @ \cup {place[h]}]
  /\ hero' = [hero EXCEPT ![h] =
       IF @.level < MaxLevel THEN AddExp(@, IF hit_last THEN Yields[mid] ELSE (Yields[mid] * 77) \div 100)
       ELSE @]
  /\ UNCHANGED <<hero_backup, mode, matuse, place, game, saved>>

\* 0x60/C6: by percent of the weapon's special, 80 at most, at any level.
Steal(h, mid, percent) ==
  /\ Fight /\ InGame(h)
  /\ LET part == (Yields[mid] * percent) \div 100
     IN hero' = [hero EXCEPT ![h] = AddExp(@, IF part > 80 THEN 80 ELSE part)]
  /\ UNCHANGED <<hero_backup, mode, matuse, place, game, dead, saved>>

\* /levelup
LevelUp(h, level) ==
  /\ Fight /\ InGame(h) /\ hero[h].level + 1 < level
  /\ LET target == (IF level > MaxLevel + 1 THEN MaxLevel + 1 ELSE level) - 2
     IN hero' = [hero EXCEPT ![h] = AddExp(@, tnlxp[target] - @.XP)]
  /\ UNCHANGED <<hero_backup, mode, matuse, place, game, dead, saved>>

\* Faulty: what is eaten in a battle is counted.
Counted_battle(h, p) == [matuse EXCEPT ![h][p] = @ + 1]

Counted(h, p) == IF mode[h] = 0 THEN [matuse EXCEPT ![h][p] = @ + 1] ELSE matuse

\* A material for one of the points; a battle knows no limit.
UseMaterial(h, p) ==
  /\ Fight /\ place[h] # Off
  /\ mode[h] # 0 \/ FoldFunctionOnSet(+, 0, matuse[h], Points) < MaxMat
  /\ hero' = [hero EXCEPT ![h].points[p] = @ + 2]
  /\ matuse' = Counted(h, p)
  /\ UNCHANGED <<hero_backup, mode, place, game, dead, saved>>

\* HP and TP materials are counted in the character.
UseVital(h, vital) ==
  /\ Fight /\ place[h] # Off
  /\ hero[h][vital] < MaxHPMat
  /\ mode[h] # 0 \/ (hero[h].HPmat + hero[h].TPmat) \div 2 < MaxHPMat
  /\ hero' = [hero EXCEPT ![h][vital] = @ + 2]
  /\ UNCHANGED <<hero_backup, mode, matuse, place, game, dead, saved>>

GrowthInit ==
  /\ saved = [h \in Heroes |-> [level |-> 0, XP |-> 0, points |-> Starting, HPmat |-> 0, TPmat |-> 0]]
  /\ hero = saved
  /\ hero_backup = [h \in Heroes |-> <<>>]
  /\ mode = [h \in Heroes |-> 0]
  /\ matuse = [h \in Heroes |-> [p \in Points |-> 0]]
  /\ place = [h \in Heroes |-> Off]
  /\ game = [battle |-> FALSE, battle_level |-> 0, quest |-> FALSE]
  /\ dead = [mid \in Mids |-> {}]
  /\ fights = 0

GrowthNext ==
  \/ \E rule \in 1 .. 8 : StartBattle(rule)
  \/ \E h \in Heroes :
       \/ Load(h) \/ Enter(h) \/ LeaveGame(h) \/ Offline(h) \/ RestartBattle(h)
       \/ \E levels \in 1 .. 2 : GiveLevels(h, levels)
       \/ \E mid \in Mids :
            \/ \E hit_last \in BOOLEAN : Kill(h, mid, hit_last)
            \/ \E percent \in {8, 10, 12, 42} : Steal(h, mid, percent)
       \/ \E level \in 2 .. MaxLevel + 2 : LevelUp(h, level)
       \/ \E p \in Points : UseMaterial(h, p)
       \/ \E vital \in {"HPmat", "TPmat"} : UseVital(h, vital)

GrowthSpec == GrowthInit /\ [][GrowthNext]_growthVars

----------------------------------------------------------------------------

GrowthTypeOK ==
  /\ fights \in 0 .. MaxFights
  /\ \A h \in Heroes :
       /\ hero[h].level \in 0 .. MaxLevel
       /\ hero[h].HPmat \in 0 .. MaxHPMat /\ hero[h].TPmat \in 0 .. MaxHPMat
       /\ mode[h] \in 0 .. 3
       /\ place[h] \in 0 .. Off
       /\ \A p \in Points : matuse[h][p] \in Nat

\* The level is the one that the experience is worth, and outside battles the materials counted are
\* those that would be counted if the character were saved and loaded now: no battle, restart of a
\* battle, levels given in one or material eaten in one leaves anything behind.
GrowthSound ==
  \A h \in Heroes : place[h] # Off =>
    LET c == hero[h]
    IN /\ c.level > 0 => c.XP >= tnlxp[c.level - 1]
       /\ c.level < MaxLevel => c.XP < tnlxp[c.level]
       /\ mode[h] = 0 => matuse[h] = Recount(c) /\ hero_backup[h] = <<>>
       /\ mode[h] # 0 => matuse[h] = Recount(hero_backup[h])
=============================================================================

----------------------------- MODULE Equipment -----------------------------
(***************************************************************************)
(* What a character wears, and what the things it carries become when they *)
(* are used.  Worn is a flag of an inventory item; a unit's slot and the   *)
(* mark of a wrapped item share a byte, data[4].  Kinds are the program's  *)
(* numbers: data[1] of weapons, data[2] of armor, shields and units.       *)
(***************************************************************************)
EXTENDS Integers, Sequences, FiniteSets, SequencesExt

CONSTANTS
  Packs,       \* inventories a character may be loaded with
  Finds,       \* things it may come by
  Wearable,    \* <<sort, kind>> its class and level allow
  Learnable,   \* <<technique, level>> they allow
  GrindLimit,  \* grind_table, of every weapon alike
  MaxPack,     \* the inventory's 30 places
  MaxUses      \* bound on what happens to them

VARIABLES
  pack,        \* character.inventory[0 .. inventoryUse - 1], or <<>> before it is loaded
  learned,     \* techniques, with their levels
  kicked,      \* todc
  uses

wearVars == <<pack, learned, kicked, uses>>

----------------------------------------------------------------------------

Worn(p, sort) == {n \in DOMAIN p : p[n].worn /\ p[n].sort = sort}

\* Taken off; and taken off with data[4] cleared.
Laid(p, S) == [n \in DOMAIN p |-> IF n \in S THEN [p[n] EXCEPT !.worn = FALSE] ELSE p[n]]
Bare(p, S) ==
  [n \in DOMAIN p |-> IF n \in S THEN [p[n] EXCEPT !.worn = FALSE, !.slot = 0, !.wrapped = FALSE] ELSE p[n]]

\* DeleteItemFromClient and DeleteFromInventory: armor that goes takes its units off.
Without(p, id) ==
  LET n == CHOOSE k \in DOMAIN p : p[k].id = id
      bared == IF p[n].sort = "armor" /\ p[n].worn THEN Bare(p, Worn(p, "armor") \cup Worn(p, "unit")) ELSE p
  IN RemoveAt(bared, n)

SendItemToEnd(p, n) == Append(RemoveAt(p, n), [p[n] EXCEPT !.worn = FALSE])

\* AddToInventory, of one thing.
AddToInventory(p, item) == Append(p, [item EXCEPT !.worn = FALSE])

----------------------------------------------------------------------------
(* Wearing                                                                 *)

\* check_equip and the level tables.
MayWear(item) == item.sort \in {"weapon", "armor", "shield"} => <<item.sort, item.kind>> \in Wearable

FreeSlots(p) == (0 .. 3) \ {p[n].slot : n \in {k \in Worn(p, "unit") : ~p[k].wrapped}}

\* Faulty: units stay when another armor is put on.
TakenOff_units(p, sort) ==
  IF sort \in {"armor", "shield"} THEN Bare(p, Worn(p, sort)) ELSE p

\* What is worn of a sort comes off before another is put on.
TakenOff(p, sort) ==
  CASE sort = "armor" -> Bare(p, Worn(p, "armor") \cup Worn(p, "unit"))
    [] sort = "shield" -> Bare(p, Worn(p, "shield"))
    [] sort \in {"weapon", "mag"} -> Laid(p, Worn(p, sort))
    [] OTHER -> p

\* The item gets a slot that is free, whether it is worn already or not.
EquipUnit(n) ==
  LET slots == FreeSlots(pack)
  IN IF slots = {} THEN kicked' = TRUE /\ pack' = Laid(pack, {n})
     ELSE /\ pack' = [pack EXCEPT ![n].slot = Min(slots), ![n].wrapped = FALSE, ![n].worn = @ \/ ~kicked]
          /\ UNCHANGED kicked

EquipItem(n) ==
  /\ LET item == pack[n]
     IN CASE ~MayWear(item) -> kicked' = TRUE /\ UNCHANGED pack
          [] item.sort = "unit" -> EquipUnit(n)
          [] OTHER ->
               /\ pack' = IF kicked /\ item.sort # "mag" THEN pack
                          ELSE [TakenOff(pack, item.sort) EXCEPT ![n].worn = @ \/ ~kicked]
               /\ UNCHANGED kicked
  /\ UNCHANGED learned

DeequipItem(n) ==
  /\ pack' = IF pack[n].sort = "unit" THEN Bare(pack, {n}) ELSE TakenOff(Laid(pack, {n}), pack[n].sort)
  /\ UNCHANGED <<learned, kicked>>

----------------------------------------------------------------------------
(* Using                                                                   *)

Whichever == -1

\* A weapon used with another in hand: what it needs and what that becomes.  The one used is gone.
Joined ==
  {[used |-> <<\h1E, Whichever>>, held |-> <<\hAF, 0, Whichever>>, becomes |-> <<\hB0, 0>>],   \* Mille Marteaux
   [used |-> <<\hAF, Whichever>>, held |-> <<\h1E, 0, Whichever>>, becomes |-> <<\hB0, 0>>],
   [used |-> <<\h42, 0>>, held |-> <<\h43, 0, 9>>, becomes |-> <<\h4B, 0>>],       \* Guld Milla
   [used |-> <<\h43, 0>>, held |-> <<\h42, 0, 9>>, becomes |-> <<\h4B, 0>>],
   [used |-> <<\h42, 1>>, held |-> <<\h43, 1, 9>>, becomes |-> <<\h4B, 1>>],       \* Dual Bird
   [used |-> <<\h43, 1>>, held |-> <<\h42, 1, 9>>, becomes |-> <<\h4B, 1>>],
   [used |-> <<\h8A, 0>>, held |-> <<Whichever, 1, Whichever>>, becomes |-> <<\h89, 3>>],      \* Sange, Yasha
   [used |-> <<\h8A, 1>>, held |-> <<Whichever, 0, Whichever>>, becomes |-> <<\h89, 3>>],
   [used |-> <<\hB6, Whichever>>, held |-> <<\hB7, 0, Whichever>>, becomes |-> <<\hB8, 0>>],   \* Jizai
   [used |-> <<\hB7, Whichever>>, held |-> <<\hB6, 0, Whichever>>, becomes |-> <<\hB8, 0>>]}
JoiningWeapons == {row.used[1] : row \in Joined}

\* A tool of sort 0x0E used with a weapon in hand.
Treated ==
  {[tool |-> \h00, held |-> <<\h8E, Whichever, Whichever>>, becomes |-> <<\h8E, 1>>],   \* S-Berill's Hands #1
   [tool |-> \h01, held |-> <<\h02, Whichever, Whichever>>, becomes |-> <<\h9D, 0>>],   \* Dark Flow
   [tool |-> \h01, held |-> <<\h09, Whichever, Whichever>>, becomes |-> <<\h9E, 0>>],   \* Dark Meteor
   [tool |-> \h01, held |-> <<\h0B, Whichever, Whichever>>, becomes |-> <<\h9F, 0>>],   \* Dark Bridge
   [tool |-> \h02, held |-> <<\h05, Whichever, Whichever>>, becomes |-> <<\h9C, 0>>],   \* Rainbow Baton
   [tool |-> \h03, held |-> <<\h2F, 0, \h19>>, becomes |-> <<\h2F, 1>>],    \* Black King Bar
   [tool |-> \h04, held |-> <<\h1F, Whichever, Whichever>>, becomes |-> <<\h38, 0>>],   \* Lavis Blade
   [tool |-> \h04, held |-> <<\h38, Whichever, Whichever>>, becomes |-> <<\h30, 0>>],   \* Double Cannon
   [tool |-> \h04, held |-> <<\h30, Whichever, Whichever>>, becomes |-> <<\h1F, 0>>],   \* Lavis Cannon
   [tool |-> \h05, held |-> <<\h56, 0, Whichever>>, becomes |-> <<\h5D, 0>>],     \* Plantain Fan
   [tool |-> \h05, held |-> <<\h56, 1, Whichever>>, becomes |-> <<\h63, 0>>],     \* Plantain Huge Fan
   [tool |-> \h07, held |-> <<\h0C, Whichever, Whichever>>, becomes |-> <<\h24, 0>>],   \* Magical Piece
   [tool |-> \h08, held |-> <<\h0A, Whichever, Whichever>>, becomes |-> <<\h4F, 0>>],   \* Summit Moon
   [tool |-> \h09, held |-> <<\h0C, Whichever, Whichever>>, becomes |-> <<\h5C, 0>>],   \* Twinkle Star
   [tool |-> \h0A, held |-> <<\h8C, 2, 9>>, becomes |-> <<\h8C, 3>>],
   [tool |-> \h0C, held |-> <<\h06, Whichever, Whichever>>, becomes |-> <<\h1C, 0>>],   \* Egg Blaster
   [tool |-> \h27, held |-> <<\h15, Whichever, 9>>, becomes |-> <<\h15, 1>>],     \* Burning Visit
   [tool |-> \h27, held |-> <<\h45, Whichever, 9>>, becomes |-> <<\h45, 1>>],     \* Snow Queen
   [tool |-> \h27, held |-> <<\h4E, Whichever, 9>>, becomes |-> <<\h4E, 1>>],     \* Iron Faust
   [tool |-> \h27, held |-> <<\h6D, Whichever, \h14>>, becomes |-> <<\h6D, 1>>]}  \* Power Maser

\* The same with the armor.
Tailored ==
  {<<\h06, \h1D, \h20>>, <<\h06, \h20, \h21>>, <<\h06, \h21, \h22>>, <<\h06, \h22, \h2F>>,   \* Parasite Wear
   <<\h07, \h1C, \h2D>>, <<\h07, \h2D, \h45>>,                                               \* Love Heart
   <<\h08, \h1C, \h31>>, <<\h09, \h1C, \h30>>}                                               \* Aura Field

\* What a shield becomes by merging.
Merged(tool) ==
  CASE tool < \h1D -> tool + \h24
    [] tool \in \h1D .. \h1F -> tool + \h25
    [] tool \in \h20 .. \h22 -> tool + \h26
    [] tool = \h23 -> \h41
    [] tool = \h24 -> \h45
    [] tool = \h25 -> \h49

Fits(item, held) ==
  /\ held[1] \in {Whichever, item.kind} /\ held[2] \in {Whichever, item.variant} /\ held[3] \in {Whichever, item.grind}

\* The worn item of a sort becomes another, and goes to the end.
Changed(p, sort, kind) == LET n == Max(Worn(p, sort)) IN SendItemToEnd([p EXCEPT ![n].kind = kind], n)

\* The weapon in hand becomes what a row says that it fits, ungrinded and without attribute.
Reworked(p, rows) ==
  LET fitting == {row \in rows : Worn(p, "weapon") # {} /\ Fits(p[Max(Worn(p, "weapon"))], row.held)}
      becomes == (CHOOSE row \in fitting : TRUE).becomes
      n == Max(Worn(p, "weapon"))
  IN IF fitting = {} THEN p
     ELSE Changed([p EXCEPT ![n].variant = becomes[2], ![n].grind = 0, ![n].slot = 0, ![n].wrapped = FALSE],
                  "weapon", becomes[1])

\* What a weapon, unit or mag that is used does: it becomes another itself, or joins what is worn.
GearUsed(p, n, item) ==
  LET Itself(kind) == SendItemToEnd([p EXCEPT ![n].kind = kind], n)
  IN CASE item.sort = "weapon" /\ item.kind = \h33 -> Itself(\h32)
       [] item.sort = "weapon" /\ item.kind = \hAB -> Itself(\hAC)
       [] item.sort = "weapon" /\ item.kind \in {row.used[1] : row \in Joined} ->
            Without(Reworked(p, {row \in Joined : row.used[1] = item.kind /\ row.used[2] \in {Whichever, item.variant}}),
                    item.id)
       [] item.sort = "unit" /\ item.kind \in {\h4D, \h4F} -> Itself(item.kind + 1)
       [] item.sort = "mag" /\ item.kind = \h2B ->
            Without(Reworked(p, {[held |-> <<\h68, 0, Whichever>>, becomes |-> <<\h58, 0>>]}), item.id)
       [] item.sort = "mag" /\ item.kind = \h2C ->
            Without(IF \E k \in Worn(p, "armor") : p[k].kind = \h1C THEN Changed(p, "armor", \h2C) ELSE p, item.id)
       [] OTHER -> p

\* A part, stone or cell, data[1] of 0x0E.
PartUsed(p, part) ==
  LET armor == {row \in Tailored : row[1] = part /\ \E n \in Worn(p, "armor") : p[n].kind = row[2]}
      rows == {row \in Treated : row.tool = part}
  IN CASE part \in \h16 .. \h25 /\ Worn(p, "shield") # {} -> Changed(p, "shield", Merged(part))
       [] armor # {} -> Changed(p, "armor", (CHOOSE row \in armor : TRUE)[3])
       [] part = \h07 /\ Worn(p, "armor") = {} -> p
       [] part = \h07 /\ Reworked(p, rows) = p /\ (\E n \in Worn(p, "shield") : p[n].kind = \h15) ->
            Changed(p, "shield", \h2A)
       [] OTHER -> Reworked(p, rows)

\* Materials are Growth's, what changes a mag is Mags'.
ToolUsed(p, item) ==
  LET hand == Worn(p, "weapon")
      armor == Worn(p, "armor")
      ground == p[Max(hand)].grind + item.variant + 1
  IN CASE item.kind = \h0A /\ hand # {} ->
            [p EXCEPT ![Max(hand)].grind = IF ground > GrindLimit THEN GrindLimit ELSE ground]
       [] item.kind = \h0E -> PartUsed(p, item.variant)
       [] item.kind = \h0F /\ armor # {} /\ p[Max(armor)].slots < 4 -> [p EXCEPT ![Max(armor)].slots = @ + 1]
       [] OTHER -> p

\* A disk teaches a technique, data[4], of a level, data[2].
Learn(item) ==
  IF item.sort = "tool" /\ item.kind = \h02 /\ ~item.wrapped
  THEN IF <<item.slot, item.variant>> \in Learnable
       THEN learned' = [learned EXCEPT ![item.slot] = item.variant] /\ UNCHANGED kicked
       ELSE kicked' = TRUE /\ UNCHANGED learned
  ELSE UNCHANGED <<learned, kicked>>

\* What is wrapped is unwrapped; a tool that is not wrapped is consumed; then the item as it was has
\* its effect.
UseItem(n) ==
  LET item == pack[n]
      rest == CASE item.wrapped -> [pack EXCEPT ![n].wrapped = FALSE]
                [] ~item.wrapped /\ item.sort = "tool" -> Without(pack, item.id)
                [] OTHER -> pack
      effect == IF item.sort = "tool" THEN ToolUsed(rest, item) ELSE GearUsed(rest, n, item)
  IN IF item.sort = "tool" /\ item.kind = \h15
     THEN IF Len(effect) >= MaxPack THEN kicked' = TRUE /\ pack' = effect /\ UNCHANGED learned
          ELSE /\ \E gift \in Finds : pack' = AddToInventory(effect, [gift EXCEPT !.id = uses + 100])
               /\ UNCHANGED <<learned, kicked>>
     ELSE pack' = effect /\ Learn(item)

\* 0x62/D6
Wrap(n) ==
  /\ pack' = AddToInventory(Without(pack, pack[n].id), [pack[n] EXCEPT !.wrapped = TRUE])
  /\ UNCHANGED <<learned, kicked>>

\* It is dropped, sold, given away or lost; and one that is found, bought or given.
Part(n) ==
  /\ pack' = Without(pack, pack[n].id)
  /\ UNCHANGED <<learned, kicked>>

Gain ==
  /\ IF Len(pack) >= MaxPack THEN kicked' = TRUE /\ UNCHANGED pack
     ELSE UNCHANGED kicked /\ \E item \in Finds : pack' = AddToInventory(pack, [item EXCEPT !.id = uses + 100])
  /\ UNCHANGED learned

\* Of what there is more than one worn, nothing is; armor takes units with it.
FixUp(p) ==
  LET many == {sort \in {"weapon", "armor", "shield", "mag"} : Cardinality(Worn(p, sort)) > 1}
      off == UNION {Worn(p, sort) : sort \in many \cup (IF "armor" \in many THEN {"unit"} ELSE {})}
  IN [n \in DOMAIN p |-> IF n \notin off THEN p[n]
                         ELSE [p[n] EXCEPT !.worn = FALSE,
                                           !.grind = IF p[n].sort \in {"weapon", "mag"} THEN @ ELSE 0]]

LoadPack ==
  /\ pack = <<>> /\ uses = 0
  /\ \E p \in Packs : pack' = FixUp(p)
  /\ UNCHANGED <<learned, kicked, uses>>

EquipmentInit ==
  /\ pack = <<>> /\ kicked = FALSE /\ uses = 0
  /\ learned = [technique \in 0 .. 18 |-> -1]

EquipmentNext ==
  \/ LoadPack
  \/ /\ pack # <<>> /\ uses < MaxUses /\ uses' = uses + 1
     /\ \/ Gain
        \/ \E n \in DOMAIN pack : EquipItem(n) \/ DeequipItem(n) \/ UseItem(n) \/ Wrap(n) \/ Part(n)

EquipmentSpec == EquipmentInit /\ [][EquipmentNext]_wearVars

----------------------------------------------------------------------------

EquipmentTypeOK ==
  /\ Len(pack) <= MaxPack /\ uses \in 0 .. MaxUses
  /\ \A n \in DOMAIN pack :
       /\ pack[n].sort \in {"weapon", "armor", "shield", "unit", "mag", "tool"}
       /\ pack[n].worn \in BOOLEAN /\ pack[n].wrapped \in BOOLEAN /\ pack[n].slots \in 0 .. 4

\* Whatever is put on, taken off, wrapped, used, merged or lost, a character wears one weapon, armor,
\* shield and mag at most, each of which it may wear, and units each in a slot of its own.
WornSound ==
  /\ \A sort \in {"weapon", "armor", "shield", "mag"} : Cardinality(Worn(pack, sort)) <= 1
  /\ \A n \in DOMAIN pack : pack[n].worn => MayWear(pack[n])
  /\ \A n, k \in Worn(pack, "unit") :
       /\ pack[n].slot \in 0 .. 3 /\ ~pack[n].wrapped
       /\ n # k => pack[n].slot # pack[k].slot
=============================================================================

------------------------------- MODULE Quests -------------------------------
(***************************************************************************)
(* Quests: what the ship reads of them when it starts, which of them a     *)
(* player is offered, which the leader of a game may start, and who may    *)
(* join a game that plays one.                                             *)
(*                                                                         *)
(* A player's quest flags are bits, 1024 of them for each difficulty; a    *)
(* client sets them as its player plays.  A client asks for what it was    *)
(* shown.  A list names fewer than 256 quests, and those for the           *)
(* government have numbers from that of their episode on.  In challenge    *)
(* games, which have no list, nobody asks for one.                         *)
(***************************************************************************)
EXTENDS Integers, Sequences, FiniteSets, SequencesExt

CONSTANTS
  QuestHunters,       \* players
  HallGMs,       \* those of them that may join whatever they have done
  QuestFiles,    \* what the files may say: of each menu the categories, of each whether its quest.lst is there and
                 \* its quests, [no, langs, parts]
  PartyKinds,    \* games: [episode, oneperson, battle, difficulty], with who may make one
                 \* and at which counters they ask (TRUE: the government's); a behaviour has one kind
  Speaks,        \* the language of each of them
  Beginnings,    \* the flags players may come with: [QuestHunters -> sets of bits]
  MaxSize,       \* players of a game
  MaxGames       \* bound on the number of games with more than one player

VARIABLES
  quests,        \* quests, quest_menus: [loaded, of, menus]
  hall,          \* the game: [open, kind, members, quest, gov, shown, fresh]; fresh: the list is that of who is there
  flags,         \* quest_data1 of every player
  games          \* games made for more than one player

questVars == <<quests, hall, flags, games>>

----------------------------------------------------------------------------
(* Flags                                                                   *)

Bit(flag, difficulty) == difficulty * 1024 + flag

qflag(set, flag, difficulty) == Bit(flag, difficulty) \in set

\* The flag that a quest of episode 1 for one player sets.
QuestCleared(n) == \h63 + 2 * n

qflag_ep1solo(set, difficulty) == \A n \in 1 .. 25 : qflag(set, QuestCleared(n), difficulty)

Dragon == \h1F9
DeRolLe == \h1FF
VolOpt == \h207

FirstTier == {\h65, \h67, \h6B}

\* Faulty: Doc's Secret Plan is behind the quest that is behind it.
UnlockedBy_circle(n) ==
  CASE n \in {1, 2, 4} -> {}
    [] n = 8 -> {QuestCleared(7)}
    [] n = 26 -> {QuestCleared(8)}
    [] n \in {5, 6, 7, 9} -> FirstTier
    [] n \in {3, 10, 11, 14, 17} -> FirstTier \union {Dragon}
    [] n \in {12, 15} -> FirstTier \union {Dragon} \union {QuestCleared(k) : k \in {10, 11, 14, 17}}
    [] n = 13 -> FirstTier \union {Dragon, QuestCleared(12)}
    [] n \in {16, 18, 20} -> FirstTier \union {DeRolLe}
    [] n = 21 -> FirstTier \union {DeRolLe, QuestCleared(20), QuestCleared(14)}
    [] n \in {19, 24} -> FirstTier \union {VolOpt}
    [] n = 23 -> FirstTier \union {VolOpt, QuestCleared(25)}
    [] n \in {22, 25} -> FirstTier \union {VolOpt, QuestCleared(23)}

\* SendA2: what a player must have done before quest n of episode 1 is offered to it alone.
UnlockedBy(n) ==
  CASE n \in {1, 2, 4} -> {}
    [] n = 8 -> {QuestCleared(7)}
    [] n = 26 -> {QuestCleared(8)}
    [] n \in {5, 6, 7, 9} -> FirstTier
    [] n \in {3, 10, 11, 14, 17} -> FirstTier \union {Dragon}
    [] n \in {12, 15} -> FirstTier \union {Dragon} \union {QuestCleared(k) : k \in {10, 11, 14, 17}}
    [] n = 13 -> FirstTier \union {Dragon, QuestCleared(12)}
    [] n \in {16, 18, 20} -> FirstTier \union {DeRolLe}
    [] n = 21 -> FirstTier \union {DeRolLe, QuestCleared(20), QuestCleared(14)}
    [] n \in {19, 24} -> FirstTier \union {VolOpt}
    [] n = 23 -> FirstTier \union {VolOpt, QuestCleared(14)}
    [] n \in {22, 25} -> FirstTier \union {VolOpt, QuestCleared(23)}

\* The number of an episode's first government quest, and the flags its k-th one after that asks for.
GovernmentBase(e) == CASE e = 1 -> 401 [] e = 2 -> 451 [] e = 3 -> 701

Progress(e, k) ==
  CASE e = 1 -> {\h1F3 + 2 * i : i \in 1 .. k}
    [] e = 2 -> {\h211 + 2 * i : i \in 1 .. k}
    [] e = 3 -> {\h2BC + i : i \in 1 .. k}

Has(set, wanted, difficulty) == \A f \in wanted : qflag(set, f, difficulty)

----------------------------------------------------------------------------
(* LoadQuests                                                              *)

\* The parts of a quest's data up to the first that is neither of objects, nor of events, nor of monsters.
Upto(parts) ==
  LET strange == {i \in DOMAIN parts : parts[i].sort = "other"}
  IN  IF strange = {} THEN parts
      ELSE SubSeq(parts, 1, (CHOOSE i \in strange : \A j \in strange : i <= j) - 1)

\* Faulty: the last two areas are forgotten.
ByArea_short(parts, sort) ==
  FlattenSeq([a \in 1 .. 16 |-> SelectSeq(parts, LAMBDA x : x.sort = sort /\ x.area = a - 1)])

\* Eighteen passes, one for each area.
ByArea(parts, sort) ==
  FlattenSeq([a \in 1 .. 18 |-> SelectSeq(parts, LAMBDA x : x.sort = sort /\ x.area = a - 1)])

Records(parts) == FlattenSeq([i \in DOMAIN parts |-> parts[i].records])

Quest(file) ==
  LET parts == Upto(file.parts)
      objects == Records(ByArea(parts, "object"))
  IN  [no |-> file.no, langs |-> file.langs, objectdata |-> objects, max_objects |-> Len(objects),
       mapdata |-> ByArea(parts, "monster"), source |-> parts]

\* The ship does not start without a list, without a quest in the first language or with an area it does not know.
Readable(category) ==
  /\ category.listed
  /\ \A i \in DOMAIN category.files :
       /\ 0 \in category.files[i].langs
       /\ \A j \in DOMAIN Upto(category.files[i].parts) :
            category.files[i].parts[j].sort \in {"object", "monster"} => category.files[i].parts[j].area <= 17

Unread == [loaded |-> FALSE, of |-> <<>>, menus |-> <<>>]

\* main: menu after menu, category after category, each quest numbered as it comes.
LoadQuests(lists) ==
  LET all == FlattenSeq(lists)
      files == FlattenSeq([c \in DOMAIN all |-> all[c].files])
      before(m, c) ==
        FoldLeft(LAMBDA n, x : n + Len(x.files), 0,
                 FlattenSeq(SubSeq(lists, 1, m - 1)) \o SubSeq(lists[m], 1, c - 1))
      \* quest_indexes
      indexes == [m \in DOMAIN lists |->
                    [c \in DOMAIN lists[m] |-> [i \in DOMAIN lists[m][c].files |-> before(m, c) + i]]]
  IN  IF \A c \in DOMAIN all : Readable(all[c])
      THEN quests' = [loaded |-> TRUE, of |-> [i \in DOMAIN files |-> Quest(files[i])], menus |-> indexes]
      ELSE quests' = [Unread EXCEPT !.menus = <<<<>>>>]

----------------------------------------------------------------------------

Shut == [open |-> FALSE, kind |-> <<>>, members |-> <<>>, quest |-> 0, gov |-> FALSE, shown |-> <<>>, fresh |-> FALSE]

QuestsInit ==
  /\ quests = Unread
  /\ hall = Shut
  /\ flags = [h \in QuestHunters |-> {}]
  /\ games = 0

Start ==
  /\ ~quests.loaded /\ quests.menus = <<>>
  /\ \E lists \in QuestFiles : LoadQuests(lists)
  /\ \E b \in Beginnings : flags' = b
  /\ \E kind \in PartyKinds : hall' = [Shut EXCEPT !.kind = kind]
  /\ UNCHANGED games

CloseHall == [Shut EXCEPT !.kind = hall.kind]

\* One of them makes a game.
OpenGame(h) ==
  /\ quests.loaded /\ ~hall.open /\ h \in hall.kind.makers
  /\ hall.kind.oneperson \/ games < MaxGames
  /\ games' = IF hall.kind.oneperson THEN games ELSE games + 1
  /\ hall' = [CloseHall EXCEPT !.open = TRUE, !.members = <<h>>]
  /\ UNCHANGED <<quests, flags>>

----------------------------------------------------------------------------
(* SendA2                                                                  *)

\* Which of the ten menus: quest_menus, counted from one.
MenuOf(kind, gov) ==
  IF kind.battle THEN 10
  ELSE kind.episode + (IF gov THEN 6 ELSE IF kind.oneperson THEN 3 ELSE 0)

\* The mark of a story quest of episode 1: 0 not shown, 1 shown, 2 shown as cleared.
StoryMark(set, n, difficulty) ==
  IF qflag_ep1solo(set, difficulty) \/ n > 26 THEN 1
  ELSE IF qflag(set, QuestCleared(n), difficulty) THEN 2
  ELSE IF Has(set, UnlockedBy(n), difficulty) THEN 1 ELSE 0

\* Faulty: only who asks is looked at.
PartyMark_self(h, ch, gov) ==
  IF gov /\ ch > 1
     /\ ~Has(flags[h], Progress(hall.kind.episode, ch - 1), hall.kind.difficulty)
  THEN 0 ELSE 1

\* The mark of any other quest, the ch-th of its category: all in the game must have come that far.
PartyMark(h, ch, gov) ==
  IF gov /\ ch > 1
     /\ \E i \in DOMAIN hall.members :
          ~Has(flags[hall.members[i]], Progress(hall.kind.episode, ch - 1), hall.kind.difficulty)
  THEN 0 ELSE 1

\* What a member that asks for a category sees, in the language it speaks if there is that.
Offer(h, category, gov) ==
  LET index == quests.menus[MenuOf(hall.kind, gov)][category]
      story == hall.kind.oneperson /\ hall.kind.episode = 1
      mark(ch) == IF story THEN StoryMark(flags[h], quests.of[index[ch]].no, hall.kind.difficulty)
                  ELSE PartyMark(h, ch, gov)
      line(ch) == [quest |-> index[ch], gov |-> gov, mark |-> mark(ch),
                   text |-> IF Speaks[h] \in quests.of[index[ch]].langs THEN Speaks[h] ELSE 0]
  IN  SelectSeq([ch \in DOMAIN index |-> line(ch)], LAMBDA x : x.mark # 0)

\* 0xA2 and then 0x10 for a category; who stands in the city asks.
AskQuests(h, gov, category) ==
  /\ hall.open /\ h \in ToSet(hall.members)
  /\ category \in DOMAIN quests.menus[MenuOf(hall.kind, gov)]
  /\ hall' = [hall EXCEPT !.shown = Offer(h, category, gov), !.fresh = TRUE]
  /\ UNCHANGED <<quests, flags, games>>

----------------------------------------------------------------------------
(* Command10 0x0F                                                          *)

\* Faulty: of the party only the leader is looked at again.
MayStart_leader(x, leader) ==
  LET n == quests.of[x.quest].no
      k == n - GovernmentBase(hall.kind.episode)
      d == hall.kind.difficulty
  IN  /\ hall.kind.oneperson /\ hall.kind.episode = 1 /\ qflag(flags[leader], QuestCleared(n), d)
         => qflag_ep1solo(flags[leader], d)
      /\ x.gov => Has(flags[leader], Progress(hall.kind.episode, k), d)

\* Faulty: the flag after the one before the quest is asked for too.
MayStart_next(x, leader) ==
  LET n == quests.of[x.quest].no
      k == n - GovernmentBase(hall.kind.episode)
      d == hall.kind.difficulty
  IN  /\ hall.kind.oneperson /\ hall.kind.episode = 1 /\ qflag(flags[leader], QuestCleared(n), d)
         => qflag_ep1solo(flags[leader], d)
      /\ x.gov => \A i \in DOMAIN hall.members :
                    Has(flags[hall.members[i]], Progress(hall.kind.episode, k + 1), d)

\* do_quest: a story quest is not played again before all are cleared, a government quest needs the whole party.
MayStart(x, leader) ==
  LET n == quests.of[x.quest].no
      k == n - GovernmentBase(hall.kind.episode)
      d == hall.kind.difficulty
  IN  /\ hall.kind.oneperson /\ hall.kind.episode = 1 /\ qflag(flags[leader], QuestCleared(n), d)
         => qflag_ep1solo(flags[leader], d)
      /\ x.gov => \A i \in DOMAIN hall.members :
                    Has(flags[hall.members[i]], Progress(hall.kind.episode, k), d)

\* The leader picks one of what it was shown; another's choice is not heard.
PickQuest(x) ==
  /\ hall.open /\ hall.quest = 0
  /\ MayStart(x, Head(hall.members))
  /\ hall' = [hall EXCEPT !.quest = x.quest, !.gov = x.gov, !.shown = <<>>, !.fresh = FALSE]
  /\ UNCHANGED <<quests, flags, games>>

\* Of a long list the first or the last is picked that was not cleared.
PickEnds ==
  LET new == SelectSeq(hall.shown, LAMBDA x : x.mark = 1)
  IN  new # <<>> /\ \E x \in {Head(new), Last(new)} : PickQuest(x)

PickOld == \E x \in ToSet(hall.shown) : x.mark = 2 /\ PickQuest(x)

----------------------------------------------------------------------------
(* What players do meanwhile                                               *)

\* SendToLobby 0x75: their clients set a flag for all that are there.
SetFlag(f) ==
  flags' = [h \in QuestHunters |-> IF h \in ToSet(hall.members) THEN flags[h] \union {Bit(f, hall.kind.difficulty)} ELSE flags[h]]

\* The quest is done: its flag is set, for the government the one that the next asks for; they all go home.
Finish ==
  /\ hall.quest # 0
  /\ LET n == quests.of[hall.quest].no
         k == n - GovernmentBase(hall.kind.episode)
     IN  IF hall.gov THEN \E f \in Progress(hall.kind.episode, k + 1) \ Progress(hall.kind.episode, k) : SetFlag(f)
         ELSE IF hall.kind.oneperson /\ n <= 26 THEN SetFlag(QuestCleared(n)) ELSE UNCHANGED flags
  /\ hall' = CloseHall
  /\ UNCHANGED <<quests, games>>

\* The next of the great monsters falls.
BeatBoss(f) ==
  /\ hall.open /\ hall.quest = 0 /\ hall.kind.episode = 1 /\ hall.kind.oneperson
  /\ f = DeRolLe => qflag(flags[Head(hall.members)], Dragon, hall.kind.difficulty)
  /\ f = VolOpt => qflag(flags[Head(hall.members)], DeRolLe, hall.kind.difficulty)
  /\ SetFlag(f)
  /\ UNCHANGED <<quests, hall, games>>

\* Faulty: a quest of the government is joined like any game.
Qualifies_any(h) == TRUE

\* Command10 0x00: who joins a government quest has come as far as it asks for.
Qualifies(h) ==
  hall.gov => Has(flags[h], Progress(hall.kind.episode, quests.of[hall.quest].no - GovernmentBase(hall.kind.episode)),
                  hall.kind.difficulty)

\* Faulty: the list of games looks at the flags of the easiest difficulty.
Greyed_easy(h) ==
  \/ hall.kind.oneperson
  \/ hall.quest # 0 /\ ~hall.gov
  \/ hall.gov /\ ~Has(flags[h], Progress(hall.kind.episode, quests.of[hall.quest].no - GovernmentBase(hall.kind.episode)), 0)

\* Send08: in the list of games this one is shown as one that cannot be joined.
Greyed(h) ==
  \/ hall.kind.oneperson
  \/ hall.quest # 0 /\ ~hall.gov
  \/ hall.gov /\ ~Has(flags[h], Progress(hall.kind.episode, quests.of[hall.quest].no - GovernmentBase(hall.kind.episode)),
                      hall.kind.difficulty)

MayEnter(h) ==
  /\ ~hall.kind.oneperson
  /\ hall.quest # 0 => hall.gov
  /\ Qualifies(h) \/ h \in HallGMs

Join(h) ==
  /\ hall.open /\ h \notin ToSet(hall.members) /\ Len(hall.members) < MaxSize
  /\ MayEnter(h)
  /\ hall' = [hall EXCEPT !.members = Append(@, h), !.fresh = FALSE]
  /\ UNCHANGED <<quests, flags, games>>

\* Of those that stay the one there longest leads.
LeaveQuest(h) ==
  /\ hall.open /\ h \in ToSet(hall.members)
  /\ LET left == SelectSeq(hall.members, LAMBDA m : m # h)
     IN  hall' = IF left = <<>> THEN CloseHall ELSE [hall EXCEPT !.members = left, !.fresh = FALSE]
  /\ UNCHANGED <<quests, flags, games>>

QuestsNext ==
  \/ Start
  \/ \E h \in QuestHunters : OpenGame(h)
  \/ hall.open /\ \E h \in QuestHunters, gov \in hall.kind.counters, category \in 1 .. 10 : AskQuests(h, gov, category)
  \/ PickEnds \/ PickOld
  \/ Finish
  \/ \E f \in {Dragon, DeRolLe, VolOpt} : BeatBoss(f)
  \/ \E h \in QuestHunters : Join(h) \/ LeaveQuest(h)

----------------------------------------------------------------------------

\* The types of the variables.
QuestsTypeOK ==
  /\ quests.loaded \in BOOLEAN
  /\ hall.open \in BOOLEAN /\ hall.quest \in 0 .. Len(quests.of) /\ hall.gov \in BOOLEAN
  /\ ToSet(hall.members) \subseteq QuestHunters /\ Len(hall.members) <= MaxSize
  /\ \A h \in QuestHunters : flags[h] \subseteq 0 .. 4095
  /\ games \in 0 .. MaxGames

\* However players come and go between the list, the choice and the quest, everyone that plays a quest of the
\* government and is no GM has done all the ones before it.
PartyQualified ==
  hall.gov => \A i \in DOMAIN hall.members : hall.members[i] \notin HallGMs =>
    Has(flags[hall.members[i]],
        Progress(hall.kind.episode, quests.of[hall.quest].no - GovernmentBase(hall.kind.episode)), hall.kind.difficulty)

\* What was offered as new can be started as long as nobody comes or goes: the list goes by the place of a quest in
\* its category, the choice by the quest's number.  The lists of the government in a game of episode 1 for one player
\* are excepted: SendA2 takes them for its story and shows all of them.
ShownStarts ==
  LET all == hall.kind.oneperson /\ hall.kind.episode = 1
  IN  hall.fresh => \A i \in DOMAIN hall.shown :
        hall.shown[i].mark = 1 => (all /\ hall.shown[i].gov) \/ MayStart(hall.shown[i], Head(hall.members))

\* Whatever order the story was played in, who has beaten the three great monsters and not cleared all of it is offered
\* a part it has not cleared.
NoDeadEnd ==
  hall.open /\ hall.kind.oneperson /\ hall.kind.episode = 1 =>
    LET set == flags[Head(hall.members)]
        d == hall.kind.difficulty
    IN  Has(set, {Dragon, DeRolLe, VolOpt}, d) /\ ~qflag_ep1solo(set, d)
        => \E n \in 1 .. 25 : ~qflag(set, QuestCleared(n), d) /\ StoryMark(set, n, d) = 1

\* A game that the list shows as open lets the player in, one shown as closed only a GM.
GreyIsShut == hall.open => \A h \in QuestHunters : Greyed(h) = ~(MayEnter(h) /\ Qualifies(h))

\* Boxes and monsters are numbered by their place, so every one that was read is kept, area after area, and those of an
\* area in the order of the file.
DataInOrder ==
  ~hall.open => \A q \in DOMAIN quests.of :
    LET parts == quests.of[q].source
        kept == SelectSeq(parts, LAMBDA x : x.sort = "monster")
        data == quests.of[q].mapdata
    IN  /\ ToSet(data) = ToSet(kept) /\ Len(data) = Len(kept)
        /\ \A i, j \in DOMAIN data : i < j =>
             \/ data[i].area < data[j].area
             \/ data[i].area = data[j].area /\ \E k, l \in DOMAIN kept : k < l /\ kept[k] = data[i] /\ kept[l] = data[j]
        /\ quests.of[q].max_objects =
             FoldLeft(LAMBDA n, x : n + Len(x.records), 0, SelectSeq(parts, LAMBDA x : x.sort = "object"))
        /\ ToSet(quests.of[q].objectdata) = UNION {ToSet(parts[i].records) : i \in {j \in DOMAIN parts : parts[j].sort = "object"}}

\* All of it.
QuestsSound == PartyQualified /\ ShownStarts /\ NoDeadEnd /\ GreyIsShut /\ DataInOrder
=============================================================================

----------------------------- MODULE GuildCards -----------------------------
(***************************************************************************)
(* Guild cards: the list a ship keeps of the cards that were shown and not *)
(* yet taken, and the login server's store of the cards that were, kept in *)
(* memory and record by record in a file (NO_SQL).                         *)
(*                                                                         *)
(* An order is handled as it is given: none depends on an answer and a     *)
(* client's orders travel on one link.  What is on a card is left out but  *)
(* for whether a comment has been written on it.                           *)
(***************************************************************************)
EXTENDS Integers, Sequences, FiniteSets, SequencesExt

CONSTANTS
  Holders,     \* guild card numbers of those who take cards
  Friends,     \* and of those who show them
  MAX_GCSEND,  \* cards shown that a ship remembers
  MaxCards,    \* cards an account can have (40)
  MaxShown     \* bound on how often cards are shown

ASSUME GuildCardsAssumption ==
  /\ MAX_GCSEND \in Nat \ {0} /\ MaxCards \in Nat \ {0} /\ MaxShown \in Nat
  /\ 0 \notin Holders \cup Friends

VARIABLES
  ship_gcsend_list,
  clock,        \* servertime
  guild_data,   \* account (0 when free), friend, priority, commented
  file,         \* guild.dat
  shows,        \* how many cards have been shown
  owed          \* history: how much more often who showed whom a card than had it taken

cardVars == <<ship_gcsend_list, clock, guild_data, file, shows, owed>>

Pairs == Friends \X Holders

CardsInit ==
  /\ ship_gcsend_list = <<>>
  /\ clock = 0
  /\ guild_data = <<>> /\ file = <<>>
  /\ shows = 0
  /\ owed = [p \in Pairs |-> 0]

----------------------------------------------------------------------------
(* The ship                                                                *)

Sent(i, pair) == ship_gcsend_list[i].pair = pair

Present(pair) == \E i \in DOMAIN ship_gcsend_list : Sent(i, pair)

First(S) == CHOOSE i \in S : \A j \in S : i <= j

OldestCard ==
  First({i \in DOMAIN ship_gcsend_list :
           \A j \in DOMAIN ship_gcsend_list : ship_gcsend_list[i].at <= ship_gcsend_list[j].at})

\* Faulty: with the list full no entry is given up.
PrepGuildCard_grows(pair) ==
  LET card == [pair |-> pair, at |-> clock] IN
  ship_gcsend_list' =
    IF Present(pair) THEN [ship_gcsend_list EXCEPT ![1] = card] ELSE Append(ship_gcsend_list, card)

\* A card shown again is written over the first entry of the list.
PrepGuildCard(pair) ==
  LET card == [pair |-> pair, at |-> clock] IN
  ship_gcsend_list' =
    IF Len(ship_gcsend_list) = MAX_GCSEND THEN [ship_gcsend_list EXCEPT ![OldestCard] = card]
    ELSE IF Present(pair) THEN [ship_gcsend_list EXCEPT ![1] = card]
    ELSE Append(ship_gcsend_list, card)

\* Faulty: the entry stays.
CleanedUp_not(list, i) == list

\* The list without entry i.  Nothing is moved onto itself when it is closed
\* up, and the first entry is then taken for free: it goes as well.
CleanedUp(list, i) == IF i = 1 THEN Tail(list) ELSE RemoveAt(Tail(list), i - 1)

\* 0x62/06: a client shows its card, to another or to itself.
ShowCard(from, to) ==
  /\ shows < MaxShown /\ shows' = shows + 1
  /\ PrepGuildCard(<<from, to>>)
  /\ clock' \in {clock, clock + 1}
  /\ owed' = [owed EXCEPT ![<<from, to>>] = @ + 1]
  /\ UNCHANGED <<guild_data, file>>

----------------------------------------------------------------------------
(* The login server                                                        *)

CardsOf(g) == {i \in DOMAIN guild_data : guild_data[i].account = g}
CardOf(g, f) == {i \in CardsOf(g) : guild_data[i].friend = f}
Free == {i \in DOMAIN guild_data : guild_data[i].account = 0}

\* UpdateDataFile, which may also append.
UpdateDataFile(data, i, record) ==
  IF i = Len(data) + 1 THEN Append(data, record) ELSE [data EXCEPT ![i] = record]

\* The record for f's card in g's list.
RecordFor(g, f) ==
  IF CardOf(g, f) # {} THEN First(CardOf(g, f))
  ELSE IF Free # {} THEN Max(Free) ELSE Len(guild_data) + 1

Priority(g) == Max({guild_data[i].priority : i \in CardsOf(g)} \cup {0}) + 1

\* 0x07/00.  With the list full g is told so.
AddGuildCard(g, f) ==
  IF Cardinality(CardsOf(g)) < MaxCards \/ CardOf(g, f) # {}
  THEN LET i == RecordFor(g, f)
           card == [account |-> g, friend |-> f, priority |-> Priority(g), commented |-> FALSE]
       IN /\ guild_data' = UpdateDataFile(guild_data, i, card)
          /\ file' = UpdateDataFile(file, i, card)
  ELSE UNCHANGED <<guild_data, file>>

\* 0xE8/04: g takes the card f has shown it.
TakeCard(g, f) ==
  /\ Present(<<f, g>>)
  /\ ship_gcsend_list' =
       CleanedUp(ship_gcsend_list, First({i \in DOMAIN ship_gcsend_list : Sent(i, <<f, g>>)}))
  /\ owed' = [owed EXCEPT ![<<f, g>>] = @ - 1]
  /\ AddGuildCard(g, f)
  /\ UNCHANGED <<clock, shows>>

\* Write record i of the store and of the file.
Change(i, record) ==
  /\ guild_data' = [guild_data EXCEPT ![i] = record]
  /\ file' = UpdateDataFile(file, i, record)
  /\ UNCHANGED <<ship_gcsend_list, clock, shows, owed>>

\* 0xE8/05 and 0x07/01
DeleteGuildCard(g, f) ==
  /\ CardOf(g, f) # {}
  /\ LET i == First(CardOf(g, f)) IN Change(i, [guild_data[i] EXCEPT !.account = 0])

\* 0xE8/09 and 0x07/02
ModifyGuildCardComment(g, f) ==
  \E i \in CardOf(g, f) :
    ~guild_data[i].commented /\ Change(i, [guild_data[i] EXCEPT !.commented = TRUE])

\* Faulty: each record is written to its own place.
SortedFile_asis(i, j, one, two) == UpdateDataFile(UpdateDataFile(file, i, one), j, two)

\* The file when i and j change places.
SortedFile(i, j, one, two) == UpdateDataFile(UpdateDataFile(file, i, two), j, one)

\* 0xE8/0A and 0x07/03: the two records change places.  The exchange of their
\* priorities goes through one variable too few: both end with the first's.
SortGuildCard(g, f1, f2) ==
  /\ CardOf(g, f1) # {} /\ CardOf(g, f2) # {} /\ f1 # f2
  /\ LET i == First(CardOf(g, f1))
         j == First(CardOf(g, f2))
         one == guild_data[i]
         two == [guild_data[j] EXCEPT !.priority = one.priority]
     IN /\ guild_data' = [guild_data EXCEPT ![i] = two, ![j] = one]
        /\ file' = SortedFile(i, j, one, two)
  /\ UNCHANGED <<ship_gcsend_list, clock, shows, owed>>

\* The login server is started again: LoadDataFile.
LoadDataFile ==
  /\ guild_data' = file
  /\ UNCHANGED <<ship_gcsend_list, clock, file, shows, owed>>

CardsNext ==
  \/ \E g \in Holders, f \in Friends :
       \/ ShowCard(f, g) \/ TakeCard(g, f) \/ DeleteGuildCard(g, f) \/ ModifyGuildCardComment(g, f)
       \/ \E f2 \in Friends : SortGuildCard(g, f, f2)
  \/ LoadDataFile

CardsSpec == CardsInit /\ [][CardsNext]_cardVars

----------------------------------------------------------------------------

CardsTypeOK ==
  /\ Len(ship_gcsend_list) <= MAX_GCSEND
  /\ \A i \in DOMAIN guild_data :
       guild_data[i].account \in Holders \cup {0} /\ guild_data[i].priority \in Nat

\* A card can be taken only as often as its owner has shown it to who takes
\* it, whatever else was shown, taken or forgotten in between and however the
\* list was closed up (PreppedGuildCard).
TakenWasShown == \A p \in Pairs : owed[p] >= 0

\* An account has at most MaxCards cards and none of anybody twice, though the
\* records that deleted cards leave are used again by others; and a restart
\* finds in the file the store as it was.
CardsStored ==
  /\ file = guild_data
  /\ \A g \in Holders :
       /\ Cardinality(CardsOf(g)) <= MaxCards
       /\ \A f \in Friends : Cardinality(CardOf(g, f)) <= 1

\* Cards are taken as shown and kept as taken.
CardsSound == TakenWasShown /\ CardsStored
=============================================================================

-------------------------------- MODULE Room --------------------------------
(***************************************************************************)
(* What the clients in a lobby or a game are shown: the arrows over the    *)
(* others' heads, the file of the quest that is started, piece by piece in *)
(* the language each speaks, and, to those in a lobby that look at the     *)
(* list of games, a game's members and its time, in turn.                  *)
(*                                                                         *)
(* A behaviour has one room, a lobby or a game.  Who is not in the game is *)
(* in a lobby.  A client asks for the next piece while it has not all of   *)
(* the file, and does not talk meanwhile.                                  *)
(***************************************************************************)
EXTENDS Integers, Sequences, FiniteSets, SequencesExt

CONSTANTS
  Guests,         \* players
  NoGuest,        \* nobody in a seat
  RoomSeats,      \* seats of the room
  RoomKinds,      \* what the room may be: [game, government], who comes in, guests, and the bounds [visits, changes, questions] on how often
                  \* somebody comes in, sets an arrow or a language, or asks for a page
  Speaking,       \* the language each of them speaks at first
  QuestTexts,     \* of every quest, for each language it is in, the sizes of its pieces
  ArrowColors     \* colours of arrows but for 0, which is none

VARIABLES
  room,           \* [open, game, government, guests, order, slots, arrow_color, quest_loaded, started]
  guest,          \* of every client [bursting, hasquest, sending_quest, qpos, lang, request, flag]
  view,           \* what each was shown: [arrows, pieces, pages]
  visits, changes, questions   \* what is left of the bounds

budget == <<visits, changes, questions>>
roomVars == <<room, guest, view, budget>>

Speech == {Speaking[p] : p \in Guests}

RoomSlots == 0 .. RoomSeats - 1

EmptySlots == [i \in RoomSlots |-> NoGuest]
NoArrows == [i \in RoomSlots |-> 0]

\* The room when nobody is in it: of a game nothing is left.
Emptied(r) ==
  [r EXCEPT !.order = <<>>, !.slots = EmptySlots, !.arrow_color = NoArrows, !.quest_loaded = 0, !.started = FALSE]

NewGuest == [bursting |-> FALSE, hasquest |-> FALSE, sending_quest |-> 0, qpos |-> 0, lang |-> 0, request |-> 0, flag |-> FALSE]
NewView == [arrows |-> [x \in Guests |-> 0], pieces |-> <<>>, pages |-> <<>>]

RoomInit ==
  /\ room = [open |-> FALSE, game |-> FALSE, government |-> FALSE, guests |-> {}, order |-> <<>>, slots |-> EmptySlots,
             arrow_color |-> NoArrows, quest_loaded |-> 0, started |-> FALSE]
  /\ guest = <<>> /\ view = <<>>
  /\ visits = 0 /\ changes = 0 /\ questions = 0

\* Which room it is; the players log in.
OpenRoom(kind) ==
  /\ ~room.open
  /\ room' = [room EXCEPT !.open = TRUE, !.game = kind.game, !.government = kind.government, !.guests = kind.guests]
  /\ visits' = kind.visits /\ changes' = kind.changes /\ questions' = kind.questions
  /\ guest' = [p \in Guests |-> [NewGuest EXCEPT !.lang = Speaking[p]]]
  /\ view' = [p \in Guests |-> NewView]

Inside == ToSet(room.order)
Seat(p) == CHOOSE i \in RoomSlots : room.slots[i] = p
Lowest(S) == CHOOSE i \in S : \A j \in S : i <= j

----------------------------------------------------------------------------
(* Pieces of a quest                                                       *)

\* The length of a piece with what fills it up to a multiple of eight.
Filled(n) == ((n + 7) \div 8) * 8

\* Faulty: the next piece is looked for right behind what the last one says it is long.
Advanced_bare(n) == n

\* How far the next piece is from this one.
Advanced(n) == Filled(n)

\* The quest in a language if it is in that, else in the first.
Tongue(q, lang) == IF lang \in DOMAIN QuestTexts[q] THEN lang ELSE 0
TextOf(q, lang) == QuestTexts[q][Tongue(q, lang)]

PieceStart(text, k) == FoldLeft(LAMBDA n, x : n + Filled(x), 0, SubSeq(text, 1, k - 1))

qsize(text) == PieceStart(text, Len(text) + 1)

\* The number of the piece that begins at a place, 0 in the middle of one.
PieceAt(text, pos) ==
  LET k == {i \in DOMAIN text : PieceStart(text, i) = pos} IN IF k = {} THEN 0 ELSE Lowest(k)

\* Faulty: a client that is still sent a quest is sent it on.
Begun_on(g, q) ==
  IF g.sending_quest # 0 THEN [g EXCEPT !.bursting = TRUE]
  ELSE [g EXCEPT !.bursting = TRUE, !.sending_quest = q, !.qpos = Advanced(TextOf(q, g.lang)[1])]

\* A client that is sent the first piece.
Begun(g, q) == [g EXCEPT !.bursting = TRUE, !.sending_quest = q, !.qpos = Advanced(TextOf(q, g.lang)[1])]

Piece(q, lang, k) == [quest |-> q, lang |-> Tongue(q, lang), k |-> k]

\* 0x10/0F: the leader starts a quest; all are sent its first piece.
BeginQuest(q) ==
  /\ room.game /\ room.order # <<>> /\ room.quest_loaded = 0
  /\ ~guest[Head(room.order)].bursting
  /\ room' = [room EXCEPT !.quest_loaded = q, !.started = TRUE]
  /\ guest' = [p \in Guests |-> IF p \in Inside THEN Begun(guest[p], q) ELSE guest[p]]
  /\ view' = [p \in Guests |-> IF p \in Inside THEN [view[p] EXCEPT !.pieces = <<Piece(q, guest[p].lang, 1)>>] ELSE view[p]]
  /\ UNCHANGED budget

Complete(p) ==
  LET q == room.quest_loaded IN q # 0 /\ Len(view[p].pieces) = Len(TextOf(q, guest[p].lang))

Loading(p) == view[p].pieces # <<>> /\ ~guest[p].hasquest

\* 0x13, 0x44: the next piece, or no more of them.
NextPiece(p) ==
  /\ p \in Inside /\ Loading(p) /\ room.game /\ guest[p].sending_quest # 0
  /\ LET g == guest[p]
         text == TextOf(g.sending_quest, g.lang)
         k == PieceAt(text, g.qpos)
     IN  IF g.qpos < qsize(text)
         THEN /\ guest' = [guest EXCEPT ![p].qpos = @ + Advanced(IF k = 0 THEN 8 ELSE text[k])]
              /\ view' = [view EXCEPT ![p].pieces = Append(@, Piece(g.sending_quest, g.lang, k))]
         ELSE guest' = [guest EXCEPT ![p].sending_quest = 0] /\ UNCHANGED view
  /\ UNCHANGED <<room, budget>>

\* 0xAC: a client has all of it.
HasAll(p) ==
  /\ p \in Inside /\ Loading(p) /\ Complete(p)
  /\ guest' = [guest EXCEPT ![p].hasquest = TRUE, ![p].sending_quest = 0]
  /\ UNCHANGED <<room, view, budget>>

----------------------------------------------------------------------------
(* Coming and going                                                        *)

\* Faulty: the seat keeps the arrow of who sat there.
Seated_kept(i, p) == [room EXCEPT !.order = Append(@, p), !.slots[i] = p]

\* Send67 and Send64: only a lobby's seat loses its arrow.
SeatedAt(i, p) ==
  [room EXCEPT !.order = Append(@, p), !.slots[i] = p, !.arrow_color[i] = IF room.game THEN @ ELSE 0]

\* A client comes into the room.  A game is not joined while one of its members is loading, nor with a quest under way
\* that is not the government's.
EnterRoom(p) ==
  /\ p \in room.guests \ Inside /\ visits > 0
  /\ \E i \in RoomSlots : room.slots[i] = NoGuest
  /\ room.game =>
       /\ room.started => room.government
       /\ \A m \in Inside : ~guest[m].bursting /\ (room.started => guest[m].hasquest)
  /\ room' = SeatedAt(Lowest({i \in RoomSlots : room.slots[i] = NoGuest}), p)
  /\ guest' = [guest EXCEPT ![p].bursting = TRUE]
  /\ visits' = visits - 1
  /\ UNCHANGED <<view, changes, questions>>

\* removeClientFromLobby; the others' clients forget who went, and its own forgets them.
LeaveRoom(p) ==
  /\ p \in Inside
  /\ LET left == SelectSeq(room.order, LAMBDA m : m # p)
     IN  room' = IF left = <<>> THEN Emptied(room) ELSE [room EXCEPT !.order = left, !.slots[Seat(p)] = NoGuest]
  /\ guest' = [guest EXCEPT ![p].hasquest = FALSE]
  /\ view' = [m \in Guests |-> IF m = p THEN [NewView EXCEPT !.pages = view[p].pages] ELSE [view[m] EXCEPT !.arrows[p] = 0]]
  /\ UNCHANGED budget

\* The arrows as ShowArrows tells them.
Arrows == [x \in Guests |-> IF x \in Inside THEN room.arrow_color[Seat(x)] ELSE 0]

\* Faulty: who appears in a lobby is not shown the arrows.
Appear_unshown(p) ==
  /\ guest' = [guest EXCEPT ![p].bursting = FALSE]
  /\ UNCHANGED <<room, view, budget>>

\* 0x60/23: who appears in a lobby is shown the arrows.
Appear(p) ==
  /\ guest' = [guest EXCEPT ![p].bursting = FALSE]
  /\ view' = [view EXCEPT ![p].arrows = Arrows]
  /\ UNCHANGED <<room, budget>>

\* 0x6F: who appears in a game is first sent the government's quest, if one is under way that it has not.
AppearInGame(p) ==
  /\ IF room.started /\ room.government /\ ~guest[p].hasquest
     THEN /\ guest' = [guest EXCEPT ![p] = Begun(guest[p], room.quest_loaded)]
          /\ view' = [view EXCEPT ![p].pieces = <<Piece(room.quest_loaded, guest[p].lang, 1)>>]
     ELSE guest' = [guest EXCEPT ![p].bursting = FALSE] /\ UNCHANGED view
  /\ UNCHANGED <<room, budget>>

Burst(p) == p \in Inside /\ guest[p].bursting /\ (IF room.game THEN AppearInGame(p) ELSE Appear(p))

----------------------------------------------------------------------------
(* Arrows, languages and pages                                             *)

\* Faulty: only the others are shown.
Shown_others(p, m) == IF m = p THEN view[m].arrows ELSE Arrows'

\* ShowArrows to all.
Shown(p, m) == Arrows'

\* 0x89 in a lobby, /arrow anywhere.
SetArrow(p, color) ==
  /\ p \in Inside /\ ~guest[p].bursting /\ changes > 0
  /\ room' = [room EXCEPT !.arrow_color[Seat(p)] = color]
  /\ view' = [m \in Guests |-> IF m \in Inside THEN [view[m] EXCEPT !.arrows = Shown(p, m)] ELSE view[m]]
  /\ changes' = changes - 1
  /\ UNCHANGED <<guest, visits, questions>>

\* /lang
SetLang(p, lang) ==
  /\ p \in Inside /\ ~guest[p].bursting /\ ~Loading(p) /\ changes > 0
  /\ guest' = [guest EXCEPT ![p].lang = lang]
  /\ changes' = changes - 1
  /\ UNCHANGED <<room, view, visits, questions>>

ThisGame == 1
OtherGame == 2   \* one more that is played all the time

\* Faulty: once the time was shown it is shown again.
MembersNext_once(g, number) == g.request # number

\* Which page comes next: the members, of a game not asked about last or when the time was shown last.
MembersNext(g, number) == g.request # number \/ ~g.flag

\* Command09, team info, to a client in a lobby.
TeamInfo(p, number) ==
  /\ room.game /\ p \notin Inside /\ questions > 0
  /\ LET active == number = OtherGame \/ room.order # <<>>
         members == MembersNext(guest[p], number)
         page == [game |-> number, page |-> IF ~active THEN "gone" ELSE IF members THEN "members" ELSE "time"]
     IN  /\ guest' = IF active THEN [guest EXCEPT ![p].request = number, ![p].flag = members] ELSE guest
         /\ view' = [view EXCEPT ![p].pages = IF Len(@) = 2 THEN <<@[2], page>> ELSE Append(@, page)]
  /\ questions' = questions - 1
  /\ UNCHANGED <<room, visits, changes>>

RoomNext ==
  \/ \E kind \in RoomKinds : OpenRoom(kind)
  \/ \E q \in DOMAIN QuestTexts : BeginQuest(q)
  \/ \E p \in Guests :
       \/ NextPiece(p) \/ HasAll(p) \/ EnterRoom(p) \/ LeaveRoom(p) \/ Burst(p)
       \/ \E color \in ArrowColors : SetArrow(p, color)
       \/ \E lang \in Speech : SetLang(p, lang)
       \/ \E number \in {ThisGame, OtherGame} : TeamInfo(p, number)

RoomSpec == RoomInit /\ [][RoomNext]_roomVars

----------------------------------------------------------------------------

RoomTypeOK ==
  /\ \A i \in RoomSlots : room.slots[i] \in Guests \union {NoGuest} /\ room.arrow_color[i] \in ArrowColors \union {0}
  /\ {room.slots[i] : i \in RoomSlots} \ {NoGuest} = Inside
  /\ room.quest_loaded \in {0} \union DOMAIN QuestTexts
  /\ room.open => \A p \in Guests :
       /\ guest[p].sending_quest \in {0} \union DOMAIN QuestTexts /\ guest[p].lang \in Speech
       /\ Len(view[p].pages) <= 2
  /\ visits \in Nat /\ changes \in Nat /\ questions \in Nat

\* What a member was sent of the quest under way is its beginning, in order and in one language, however often it was
\* begun, whatever it was sent in another game before and whoever came and went meanwhile.
PiecesInOrder ==
  \A p \in Inside : \E lang \in Speech :
    \A i \in DOMAIN view[p].pieces : view[p].pieces[i] = [quest |-> room.quest_loaded, lang |-> lang, k |-> i]

\* All that have appeared in a lobby see the same arrow over a head, the one who stands there last chose since it came.
ArrowsAgree ==
  ~room.game => \A p \in Inside : ~guest[p].bursting => view[p].arrows = Arrows

\* No arrow stands over who has not appeared yet.
NoneBefore == ~room.game => \A p \in Inside : guest[p].bursting => room.arrow_color[Seat(p)] = 0

\* Two answers in a row about a game that is played are not the same page.
BothPages ==
  room.open => \A p \in Guests :
    LET pages == view[p].pages
    IN  Len(pages) = 2 /\ pages[1].game = pages[2].game /\ "gone" \notin {pages[1].page, pages[2].page}
          => pages[1].page # pages[2].page

RoomSound == PiecesInOrder /\ ArrowsAgree /\ NoneBefore /\ BothPages
=============================================================================

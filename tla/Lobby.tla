------------------------------- MODULE Lobby -------------------------------
(***************************************************************************)
(* The rooms of one block of the ship server: the lobbies every client     *)
(* arrives in and the games clients create and join.  A room is a LOBBY    *)
(* record (def_structs.h), a client a BANANA record.  Every action is one  *)
(* packet handler of BlockProcessPacket, run to completion by the ship's   *)
(* select loop.                                                            *)
(***************************************************************************)
EXTENDS Integers, FiniteSets

CONSTANTS
  Clients,      \* connections of the block
  None,         \* the null pointer of client[] and of client->lobby
  NumLobbies,   \* 15 in the code: lobbies[0..14]
  NumGames,     \* SHIP_COMPILED_MAX_GAMES
  LobbySize,    \* 12 in the code
  GameSize,     \* 4 in the code
  MaxJoins      \* bound on gamePlayerCount, an unsigned counter of the joins of a game

ASSUME RoomAssumption ==
  /\ NumLobbies \in Nat \ {0}
  /\ NumGames \in Nat \ {0}
  /\ LobbySize \in Nat \ {0}
  /\ GameSize \in Nat \ {0}
  /\ MaxJoins \in Nat

VARIABLES
  rooms,        \* the LOBBY record of each lobby and game
  cl            \* the lobby part of each client's BANANA record

vars == <<rooms, cl>>

LobbyIds == 0 .. NumLobbies - 1
GameIds  == NumLobbies .. NumLobbies + NumGames - 1
RoomIds  == LobbyIds \cup GameIds

ASSUME NoneAssumption == None \notin Clients \cup RoomIds

AnyLobby == NumLobbies        \* preferred_lobby = 0xFF: no preference

Size(r) == IF r \in GameIds THEN GameSize ELSE LobbySize
Slots   == 0 .. (IF LobbySize > GameSize THEN LobbySize ELSE GameSize) - 1

Kinds  == {"normal", "battle", "oneperson"}
Quests == {"none", "running", "government"}  \* quest_loaded, quest_in_progress, inpquest

\* LOBBY after memset: no member, not in use.
EmptyRoom ==
  [slot |-> [i \in Slots |-> None], lobbyCount |-> 0, in_use |-> FALSE,
   kind |-> "normal", quest |-> "none", leader |-> 0,
   gamePlayerCount |-> 0, gamePlayerID |-> [i \in Slots |-> 0]]

\* BANANA after memset; "sent" is what the client got of the quest of its
\* game: nothing, the file, or the 0xAC that lets it start.
Offline ==
  [online |-> FALSE, lobby |-> None, clientID |-> 0, lobbyOK |-> FALSE,
   preferred_lobby |-> 0, bursting |-> FALSE, hasquest |-> FALSE,
   mode |-> FALSE, sent |-> "none"]

Init ==
  /\ rooms = [r \in RoomIds |-> EmptyRoom]
  /\ cl = [c \in Clients |-> Offline]

----------------------------------------------------------------------------
(* Helpers on one room                                                     *)

Occupied(slot, n) == {i \in 0 .. n - 1 : slot[i] # None}
Members(r) == {rooms[r].slot[i] : i \in Occupied(rooms[r].slot, Size(r))}

FirstFree(slot, n) ==
  CHOOSE i \in 0 .. n - 1 : slot[i] = None /\ \A j \in 0 .. i - 1 : slot[j] # None

\* Faulty: the lead goes to the lowest slot.
Oldest_byslot(ids, S) == CHOOSE i \in S : \A j \in S : i <= j

\* The slot of S with the lowest gamePlayerID, the first one on a tie.
Oldest(ids, S) ==
  CHOOSE i \in S : \A j \in S : ids[i] < ids[j] \/ (ids[i] = ids[j] /\ i <= j)

\* Faulty: the leader is set to the player number found, not to its slot.
Vacate_byid(room, i, n, isGame) ==
  LET slot == [room.slot EXCEPT ![i] = None]
      left == Occupied(slot, n)
      next == Oldest(room.gamePlayerID, left)
  IN  IF left = {} THEN EmptyRoom
      ELSE [room EXCEPT !.slot = slot, !.lobbyCount = Cardinality(left),
                        !.leader = IF isGame /\ i = @ THEN room.gamePlayerID[next] ELSE @]

\* Faulty: an empty game is not given back.
Vacate_keeps(room, i, n, isGame) ==
  LET slot == [room.slot EXCEPT ![i] = None]
      left == Occupied(slot, n)
  IN  [room EXCEPT !.slot = slot, !.lobbyCount = Cardinality(left),
                   !.leader = IF isGame /\ i = @ /\ left # {}
                              THEN Oldest(room.gamePlayerID, left) ELSE @]

\* removeClientFromLobby, the room's part: slot i of room r (of n slots).
Vacate(room, i, n, isGame) ==
  LET slot == [room.slot EXCEPT ![i] = None]
      left == Occupied(slot, n)
  IN  IF left = {} THEN EmptyRoom
      ELSE [room EXCEPT
              !.slot = slot,
              !.lobbyCount = Cardinality(left),
              !.leader = IF isGame /\ i = room.leader
                         THEN Oldest(room.gamePlayerID, left) ELSE room.leader]

\* The rooms once client c has left the one it is in, if any.
Without(c) ==
  IF cl[c].lobby = None THEN rooms
  ELSE LET r == cl[c].lobby IN
       [rooms EXCEPT ![r] = Vacate(rooms[r], cl[c].clientID, Size(r), r \in GameIds)]

\* Faulty: the client still points to the room it left.
Removed_stays(c) == [cl[c] EXCEPT !.hasquest = FALSE, !.sent = "none"]

\* removeClientFromLobby, the client's part; clientID keeps its value.
Removed(c) == [cl[c] EXCEPT !.lobby = None, !.hasquest = FALSE, !.sent = "none"]

\* Send67: c takes the first free slot of a lobby.
SeatInLobby(room, c) ==
  LET i == FirstFree(room.slot, LobbySize)
      slot == [room.slot EXCEPT ![i] = c]
  IN  [room EXCEPT !.slot = slot, !.lobbyCount = Cardinality(Occupied(slot, LobbySize))]

\* Faulty: whoever joins takes the lead.
SeatInGame_leads(room, c) ==
  LET i == FirstFree(room.slot, GameSize)
      slot == [room.slot EXCEPT ![i] = c]
  IN  [room EXCEPT !.slot = slot, !.lobbyCount = Cardinality(Occupied(slot, GameSize)),
                   !.gamePlayerCount = @ + 1, !.gamePlayerID[i] = room.gamePlayerCount + 1,
                   !.leader = i]

\* Send64: c takes the first free slot of a game and the next player number.
SeatInGame(room, c) ==
  LET i == FirstFree(room.slot, GameSize)
      slot == [room.slot EXCEPT ![i] = c]
  IN  [room EXCEPT
         !.slot = slot,
         !.lobbyCount = Cardinality(Occupied(slot, GameSize)),
         !.gamePlayerCount = room.gamePlayerCount + 1,
         !.gamePlayerID[i] = room.gamePlayerCount + 1]

\* The client's part of Send64, for the game g that "room" describes.
InGameOf(c, g, room) ==
  [Removed(c) EXCEPT !.lobby = g, !.clientID = FirstFree(room.slot, GameSize),
                     !.bursting = TRUE]

\* Faulty: the temporary character is kept.
AskLobby_nobackup(client) == [client EXCEPT !.lobbyOK = TRUE]

\* Send95: the client may pick a lobby; its permanent character is restored.
AskLobby(client) == [client EXCEPT !.lobbyOK = TRUE, !.mode = FALSE]

InGame(c) == cl[c].lobby \in GameIds

\* The client's menus open only once it stands in a room: it answers the
\* 0x95 prompt with 0x61 before it sends anything else.
MenuOpen(c) == cl[c].online /\ cl[c].lobby # None /\ ~cl[c].lobbyOK

----------------------------------------------------------------------------
(* The handlers                                                            *)

\* Character data arrives from the logon server (0x04/01): Send95.
EnterBlock(c) ==
  /\ ~cl[c].online
  /\ \E p \in LobbyIds \cup {AnyLobby} :
       cl' = [cl EXCEPT ![c] = AskLobby([cl[c] EXCEPT !.online = TRUE,
                                                      !.preferred_lobby = p])]
  /\ UNCHANGED rooms

\* The lobbies Send67 would take, from the preferred one up.
LobbyChoices(c) ==
  LET p == cl[c].preferred_lobby
      start == IF p \in LobbyIds /\ rooms[p].lobbyCount < LobbySize THEN p ELSE 0
  IN  {l \in start .. NumLobbies - 1 : rooms[l].lobbyCount < LobbySize}

\* 0x61: Send67 puts the client in the first lobby with room.
JoinLobby(c) ==
  /\ cl[c].lobbyOK
  /\ \E l \in LobbyChoices(c) :
       /\ \A k \in LobbyChoices(c) : l <= k
       /\ rooms' = [rooms EXCEPT ![l] = SeatInLobby(rooms[l], c)]
       /\ cl' = [cl EXCEPT ![c].lobbyOK = FALSE, ![c].lobby = l, ![c].bursting = TRUE,
                           ![c].clientID = FirstFree(rooms[l].slot, LobbySize)]

\* 0x61 when every lobby is full: the prompt is spent, the client is nowhere.
NoLobbyLeft(c) ==
  /\ cl[c].lobbyOK
  /\ LobbyChoices(c) = {}
  /\ cl' = [cl EXCEPT ![c].lobbyOK = FALSE, ![c].bursting = TRUE]
  /\ UNCHANGED rooms

\* 0x84: leave the room for lobby l.  From a game it is always granted.
ChangeLobby(c, l) ==
  /\ cl[c].online
  /\ InGame(c) \/ rooms[l].lobbyCount < LobbySize
  /\ rooms' = Without(c)
  /\ cl' = [cl EXCEPT ![c] = AskLobby([Removed(c) EXCEPT !.preferred_lobby = l])]

FreeGames == {g \in GameIds : ~rooms[g].in_use}

\* 0xC1: free_game, removeClientFromLobby, initialize_game, Send64.
CreateGame(c, kind) ==
  /\ MenuOpen(c) /\ ~InGame(c)
  /\ \E g \in FreeGames :
       LET new == [EmptyRoom EXCEPT !.in_use = TRUE, !.kind = kind] IN
       /\ \A h \in FreeGames : g <= h
       /\ rooms' = [Without(c) EXCEPT ![g] = SeatInGame(new, c)]
       /\ cl' = [cl EXCEPT ![c] = InGameOf(c, g, new)]

\* Faulty: the quest in progress is not looked at.
Joinable_anytime(g) ==
  /\ rooms[g].in_use /\ rooms[g].lobbyCount # GameSize /\ rooms[g].kind # "oneperson"
  /\ \A m \in Members(g) : ~cl[m].bursting

\* Command10: the conditions on the game and on its members.
Joinable(g) ==
  /\ rooms[g].in_use
  /\ rooms[g].lobbyCount # GameSize
  /\ rooms[g].quest # "running"
  /\ rooms[g].kind # "oneperson"
  /\ \A m \in Members(g) :
       /\ ~cl[m].bursting
       /\ rooms[g].quest = "government" => cl[m].hasquest

\* 0x10/00: join game g.
JoinGame(c, g) ==
  /\ MenuOpen(c) /\ ~InGame(c)
  /\ Joinable(g)
  /\ rooms[g].gamePlayerCount < MaxJoins
  /\ rooms' = [Without(c) EXCEPT ![g] = SeatInGame(rooms[g], c)]
  /\ cl' = [cl EXCEPT ![c] = InGameOf(c, g, rooms[g])]

\* 0x60/23: a client has appeared in a lobby.
BurstEndLobby(c) ==
  /\ cl[c].bursting /\ cl[c].lobby \in LobbyIds
  /\ cl' = [cl EXCEPT ![c].bursting = FALSE]
  /\ UNCHANGED rooms

\* 0x6F: a client has loaded its game; a government quest under way is sent
\* first, and the client keeps bursting until it has it.
BurstEndGame(c) ==
  /\ cl[c].bursting /\ InGame(c)
  /\ IF rooms[cl[c].lobby].quest = "government" /\ ~cl[c].hasquest
     THEN cl' = [cl EXCEPT ![c].sent = "file"]
     ELSE cl' = [cl EXCEPT ![c].bursting = FALSE]
  /\ UNCHANGED rooms

\* 0x10/0F: the leader starts a quest; in a battle game every member gets a
\* temporary character.
StartQuest(c, quest) ==
  /\ InGame(c)
  /\ LET g == cl[c].lobby IN
     /\ rooms[g].leader = cl[c].clientID
     /\ rooms[g].quest = "none"
     /\ rooms' = [rooms EXCEPT ![g].quest = quest]
     /\ cl' = [d \in Clients |->
                 IF d \in Members(g)
                 THEN [cl[d] EXCEPT !.bursting = TRUE, !.sent = "file",
                                    !.mode = cl[d].mode \/ rooms[g].kind = "battle"]
                 ELSE cl[d]]

\* 0xAC: a client that was sent the file has loaded it; the last one to do so
\* makes the server send 0xAC to the game.
QuestLoaded(c) ==
  /\ InGame(c) /\ cl[c].sent = "file" /\ ~cl[c].hasquest
  /\ LET m == Members(cl[c].lobby)
         all_quest == \A d \in m \ {c} : cl[d].hasquest
     IN  cl' = [d \in Clients |->
                  [cl[d] EXCEPT !.hasquest = cl[d].hasquest \/ d = c,
                                !.sent = IF all_quest /\ d \in m THEN "go" ELSE cl[d].sent]]
  /\ UNCHANGED rooms

\* initialize_connection: the connection is gone, whatever the reason.
Disconnect(c) ==
  /\ cl[c].online
  /\ rooms' = Without(c)
  /\ cl' = [cl EXCEPT ![c] = Offline]

Step(c) ==
  \/ EnterBlock(c)
  \/ JoinLobby(c)
  \/ NoLobbyLeft(c)
  \/ \E l \in LobbyIds : ChangeLobby(c, l)
  \/ \E kind \in Kinds : CreateGame(c, kind)
  \/ \E g \in GameIds : JoinGame(c, g)
  \/ BurstEndLobby(c)
  \/ BurstEndGame(c)
  \/ \E quest \in Quests \ {"none"} : StartQuest(c, quest)
  \/ QuestLoaded(c)
  \/ Disconnect(c)

Next == \E c \in Clients : Step(c)

Spec == Init /\ [][Next]_vars

----------------------------------------------------------------------------
(* Properties                                                              *)

RoomType ==
  [slot : [Slots -> Clients \cup {None}], lobbyCount : Nat, in_use : BOOLEAN,
   kind : Kinds, quest : Quests, leader : Slots,
   gamePlayerCount : Nat, gamePlayerID : [Slots -> Nat]]

ClientType ==
  [online : BOOLEAN, lobby : RoomIds \cup {None}, clientID : Slots, lobbyOK : BOOLEAN,
   preferred_lobby : LobbyIds \cup {AnyLobby}, bursting : BOOLEAN, hasquest : BOOLEAN,
   mode : BOOLEAN, sent : {"none", "file", "go"}]

\* The type of the block's state.
TypeOK ==
  /\ rooms \in [RoomIds -> RoomType]
  /\ cl \in [Clients -> ClientType]

\* A client's idea of where it is and the room's idea of who sits where are
\* the same: the slot a client names holds it, and a slot's client names that
\* slot.  removeClientFromLobby clears by clientID alone and relies on it.
MembersAgree ==
  /\ \A c \in Clients : LET k == cl[c] IN
       k.lobby # None => k.clientID < Size(k.lobby) /\ rooms[k.lobby].slot[k.clientID] = c
  /\ \A r \in RoomIds, i \in Slots : LET c == rooms[r].slot[i] IN
       c # None => i < Size(r) /\ cl[c].lobby = r /\ cl[c].clientID = i

\* lobbyCount, which the "full" guards read, counts the room's members, and a
\* game is in use exactly while somebody is in it: free_game never hands out a
\* game that has members, and no empty game stays reserved.
CountsExact ==
  \A r \in RoomIds :
    LET occ == Occupied(rooms[r].slot, Size(r)) IN
    /\ rooms[r].lobbyCount = Cardinality(occ)
    /\ rooms[r].in_use <=> (r \in GameIds /\ occ # {})

\* The leader of a game is a member of it, the one who has been in it longest:
\* the handlers of 0xAC and of 0x10/0F use client[leader] without a test.
LeaderIsOldest ==
  \A g \in GameIds :
    LET room == rooms[g]
        occ == Occupied(room.slot, GameSize)
    IN  occ # {} =>
          /\ room.leader \in occ
          /\ \A i \in occ \ {room.leader} : room.gamePlayerID[room.leader] < room.gamePlayerID[i]

\* Every member of a game whose quest has begun has the quest, is being sent
\* it, or (government quest) will be when it reports the end of its burst.
QuestReachesMembers ==
  \A g \in GameIds : \A m \in Members(g) :
    IF rooms[g].quest = "none" THEN cl[m].sent = "none" /\ ~cl[m].hasquest
    ELSE \/ cl[m].sent # "none"
         \/ rooms[g].quest = "government" /\ cl[m].bursting

\* A temporary battle character never leaves the battle it was made for: it
\* exists only inside a battle game whose quest has begun.
BattleConfined ==
  \A c \in Clients :
    cl[c].mode => InGame(c) /\ rooms[cl[c].lobby].kind = "battle"
                            /\ rooms[cl[c].lobby].quest # "none"

\* The lead of a game passes on only when the leader leaves it.
LeadPassesOnLeave ==
  [][\A g \in GameIds :
       rooms[g].in_use /\ rooms'[g].in_use /\ rooms'[g].leader # rooms[g].leader
         => rooms'[g].slot[rooms[g].leader] = None]_vars

\* Once every member has loaded the quest, every member has been sent 0xAC.
EveryoneReadyIsTold ==
  \A g \in GameIds :
    (\A m \in Members(g) : cl[m].hasquest) => \A m \in Members(g) : cl[m].sent = "go"
=============================================================================

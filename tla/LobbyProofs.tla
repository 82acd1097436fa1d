---------------------------- MODULE LobbyProofs ----------------------------
(***************************************************************************)
(* Proofs about Lobby, for any number of clients, lobbies, games and       *)
(* seats.  The types need exact counts (a client is seated in the first    *)
(* free slot, and the count says there is one), so both are proved         *)
(* together; the agreement of clients and rooms, then the order of a       *)
(* game's members and how far each client has got with its game's quest,   *)
(* are each inductive on top of that.  Last, the rooms implement the       *)
(* queues of Party: a step of the block is a client sitting down in one    *)
(* game, a client leaving one, or, to the queues, nothing; the three cases *)
(* rest on what the places of a game's player numbers do when a number     *)
(* comes or goes (RankingProofs).                                          *)
(***************************************************************************)
EXTENDS LobbyParty, RankingProofs

----------------------------------------------------------------------------
(* Sets of slots                                                           *)

\* Every nonempty set of naturals has a least element.
LEMMA LeastNat ==
  ASSUME NEW S \in SUBSET Nat, S # {}
  PROVE  \E m \in S : \A k \in S : m <= k
<1>1. PICK x \in S : \A y \in S : <<y, x>> \notin OpToRel(<, Nat)
  BY NatLessThanWellFounded, WFMin
<1>2. ASSUME NEW y \in S PROVE x <= y
  <2>1. ~(y < x)
    <3>1. SUFFICES ASSUME y < x PROVE FALSE OBVIOUS
    <3>2. <<y, x>> \in Nat \X Nat /\ <<y, x>>[1] = y /\ <<y, x>>[2] = x OBVIOUS
    <3>3. <<y, x>> \in OpToRel(<, Nat) BY <3>1, <3>2, Zenon DEF OpToRel
    <3> QED BY <1>1, <1>2, <3>3
  <2> QED BY <2>1
<1> QED BY <1>2

\* FirstFree finds a free slot when there is one.
LEMMA FirstFreeIsFree ==
  ASSUME NEW n \in Nat, NEW slot, NEW i \in 0 .. n - 1, slot[i] = None
  PROVE  FirstFree(slot, n) \in 0 .. n - 1 /\ slot[FirstFree(slot, n)] = None
<1> DEFINE F == {j \in 0 .. n - 1 : slot[j] = None}
<1>1. PICK m \in F : \A k \in F : m <= k
  <2>1. F \in SUBSET Nat /\ F # {} OBVIOUS
  <2> QED BY <2>1, LeastNat
<1>2. m \in 0 .. n - 1 /\ slot[m] = None /\ \A j \in 0 .. m - 1 : slot[j] # None
  <2>1. \A j \in 0 .. m - 1 : j \in 0 .. n - 1 /\ ~(m <= j) OBVIOUS
  <2> QED BY <1>1, <2>1
<1> QED BY <1>2 DEF FirstFree

\* Oldest finds a member of S whose player number is the least in S.
LEMMA OldestIsLeast ==
  ASSUME NEW S \in SUBSET Nat, S # {}, NEW ids, \A i \in S : ids[i] \in Nat
  PROVE  Oldest(ids, S) \in S /\ \A j \in S : ids[Oldest(ids, S)] <= ids[j]
<1>1. PICK v \in {ids[i] : i \in S} : \A w \in {ids[i] : i \in S} : v <= w
  <2>1. {ids[i] : i \in S} \in SUBSET Nat /\ {ids[i] : i \in S} # {} OBVIOUS
  <2> QED BY <2>1, LeastNat
<1> DEFINE T == {i \in S : ids[i] = v}
<1>2. PICK m \in T : \A k \in T : m <= k
  <2>1. T \in SUBSET Nat /\ T # {} OBVIOUS
  <2> QED BY <2>1, LeastNat
<1>3. m \in S /\ \A j \in S : ids[m] < ids[j] \/ (ids[m] = ids[j] /\ m <= j)
  <2>1. ASSUME NEW j \in S PROVE ids[m] < ids[j] \/ (ids[m] = ids[j] /\ m <= j)
    <3>1. v <= ids[j] BY <1>1
    <3>2. CASE ids[j] = v BY <3>2, <1>2
    <3>3. CASE ids[j] # v
      <4>1. v \in Nat /\ ids[j] \in Nat /\ ids[m] = v OBVIOUS
      <4>2. \A a, b \in Nat : a <= b /\ a # b => a < b OBVIOUS
      <4>3. v < ids[j] BY <3>1, <3>3, <4>1, <4>2
      <4> QED BY <4>1, <4>3
    <3> QED BY <3>2, <3>3
  <2> QED BY <2>1
<1>4. Oldest(ids, S) \in S /\ \A j \in S : \/ ids[Oldest(ids, S)] < ids[j]
                                           \/ ids[Oldest(ids, S)] = ids[j] /\ Oldest(ids, S) <= j
  BY <1>3 DEF Oldest
<1>5. \A a, b \in Nat : a < b \/ a = b => a <= b OBVIOUS
<1> QED BY <1>4, <1>5

\* A room's members can be counted, and a room that is not full has a free slot.
LEMMA OccupiedIsFinite ==
  ASSUME NEW n \in Nat, NEW slot
  PROVE  /\ IsFiniteSet(Occupied(slot, n))
         /\ Cardinality(Occupied(slot, n)) \in 0 .. n
         /\ Cardinality(Occupied(slot, n)) = 0 <=> Occupied(slot, n) = {}
         /\ Cardinality(Occupied(slot, n)) # n => \E i \in 0 .. n - 1 : slot[i] = None
<1>1. IsFiniteSet(0 .. n - 1) /\ Cardinality(0 .. n - 1) = n
  BY FS_Interval
<1>2. Occupied(slot, n) \in SUBSET (0 .. n - 1)
  BY DEF Occupied
<1>3. /\ IsFiniteSet(Occupied(slot, n))
      /\ Cardinality(Occupied(slot, n)) <= n
      /\ Cardinality(Occupied(slot, n)) = n => Occupied(slot, n) = 0 .. n - 1
  BY <1>1, <1>2, FS_Subset
<1>4. Cardinality(Occupied(slot, n)) \in Nat
  BY <1>3, FS_CardinalityType
<1>5. Cardinality(Occupied(slot, n)) = 0 <=> Occupied(slot, n) = {}
  BY <1>3, FS_EmptySet
<1>6. Cardinality(Occupied(slot, n)) # n => \E i \in 0 .. n - 1 : slot[i] = None
  <2>1. SUFFICES ASSUME \A i \in 0 .. n - 1 : slot[i] # None
                 PROVE  Cardinality(Occupied(slot, n)) = n
    OBVIOUS
  <2>2. Occupied(slot, n) = 0 .. n - 1 BY <2>1 DEF Occupied
  <2> QED BY <2>2, <1>1
<1> QED BY <1>3, <1>4, <1>5, <1>6

----------------------------------------------------------------------------
(* One room: what leaving it and sitting down in it do to its record        *)

\* The count of a room of n seats is exact, and the room is in use exactly
\* when it is a game with members.
CountOK(room, n, isGame) ==
  /\ room.lobbyCount = Cardinality(Occupied(room.slot, n))
  /\ room.in_use <=> (isGame /\ Occupied(room.slot, n) # {})

LEMMA SlotFacts ==
  /\ 0 .. GameSize - 1 \subseteq Slots
  /\ 0 .. LobbySize - 1 \subseteq Slots
  /\ 0 \in Slots
  /\ Slots \subseteq Nat
BY RoomAssumption DEF Slots

LEMMA SizeFacts ==
  ASSUME NEW r \in RoomIds
  PROVE  /\ Size(r) \in Nat \ {0}
         /\ 0 .. Size(r) - 1 \subseteq Slots
         /\ r \in GameIds => Size(r) = GameSize
         /\ r \in LobbyIds => Size(r) = LobbySize /\ r \notin GameIds
BY RoomAssumption, SlotFacts DEF Size, RoomIds, LobbyIds, GameIds

LEMMA EmptyRoomOK ==
  /\ EmptyRoom \in RoomType
  /\ \A n \in Nat : Occupied(EmptyRoom.slot, n) = {} \/ ~(0 .. n - 1 \subseteq Slots)
  /\ \A n \in Nat : 0 .. n - 1 \subseteq Slots => CountOK(EmptyRoom, n, FALSE)
  /\ \A n \in Nat : 0 .. n - 1 \subseteq Slots => CountOK(EmptyRoom, n, TRUE)
<1>1. EmptyRoom \in RoomType
  BY SlotFacts DEF EmptyRoom, RoomType, Kinds, Quests
<1>2. ASSUME NEW n \in Nat, 0 .. n - 1 \subseteq Slots
      PROVE  Occupied(EmptyRoom.slot, n) = {}
  BY <1>2 DEF EmptyRoom, Occupied
<1>3. ASSUME NEW n \in Nat, 0 .. n - 1 \subseteq Slots
      PROVE  CountOK(EmptyRoom, n, FALSE) /\ CountOK(EmptyRoom, n, TRUE)
  <2>1. Cardinality({}) = 0 BY FS_EmptySet
  <2>2. EmptyRoom.lobbyCount = 0 /\ EmptyRoom.in_use = FALSE BY DEF EmptyRoom
  <2> QED BY <1>2, <1>3, <2>1, <2>2 DEF CountOK
<1> QED BY <1>1, <1>2, <1>3

\* Leaving keeps a room well formed and its count exact.
LEMMA VacateOK ==
  ASSUME NEW room \in RoomType, NEW i \in Slots, NEW n \in Nat, 0 .. n - 1 \subseteq Slots,
         NEW isGame \in BOOLEAN, CountOK(room, n, isGame)
  PROVE  /\ Vacate(room, i, n, isGame) \in RoomType
         /\ CountOK(Vacate(room, i, n, isGame), n, isGame)
<1> DEFINE slot == [room.slot EXCEPT ![i] = None]
           left == Occupied(slot, n)
<1>1. CASE left = {}
  <2>1. Vacate(room, i, n, isGame) = EmptyRoom BY <1>1 DEF Vacate
  <2> QED BY <2>1, EmptyRoomOK
<1>2. CASE left # {}
  <2> DEFINE lead == IF isGame /\ i = room.leader
                     THEN Oldest(room.gamePlayerID, left) ELSE room.leader
             new == [room EXCEPT !.slot = slot, !.lobbyCount = Cardinality(left),
                                 !.leader = lead]
  <2>1. Vacate(room, i, n, isGame) = new BY <1>2 DEF Vacate
  <2>2. left \subseteq Slots /\ left \in SUBSET Nat BY SlotFacts DEF Occupied
  <2>3. lead \in Slots
    <3>1. \A j \in left : room.gamePlayerID[j] \in Nat BY <2>2 DEF RoomType
    <3>2. Oldest(room.gamePlayerID, left) \in left BY <1>2, <2>2, <3>1, OldestIsLeast
    <3> QED BY <2>2, <3>2 DEF RoomType
  <2>4. Cardinality(left) \in Nat BY OccupiedIsFinite
  <2>5. slot \in [Slots -> Clients \cup {None}] BY DEF RoomType
  <2> HIDE DEF slot, left, lead
  <2>6. new \in RoomType BY <2>3, <2>4, <2>5 DEF RoomType
  <2>7. new.slot = slot /\ new.lobbyCount = Cardinality(left) /\ new.in_use = room.in_use
    BY DEF RoomType
  <2>8. room.in_use <=> isGame
    <3>1. Occupied(room.slot, n) # {}
      BY <1>2, SlotFacts DEF left, slot, Occupied, RoomType
    <3> QED BY <3>1 DEF CountOK
  <2>9. CountOK(new, n, isGame) BY <1>2, <2>7, <2>8 DEF CountOK, left
  <2> QED BY <2>1, <2>6, <2>9
<1> QED BY <1>1, <1>2

\* Sitting down in a lobby that is not full.
LEMMA SeatInLobbyOK ==
  ASSUME NEW room \in RoomType, NEW c \in Clients,
         CountOK(room, LobbySize, FALSE), room.lobbyCount # LobbySize
  PROVE  /\ FirstFree(room.slot, LobbySize) \in 0 .. LobbySize - 1
         /\ room.slot[FirstFree(room.slot, LobbySize)] = None
         /\ SeatInLobby(room, c) \in RoomType
         /\ CountOK(SeatInLobby(room, c), LobbySize, FALSE)
<1> DEFINE i == FirstFree(room.slot, LobbySize)
           slot == [room.slot EXCEPT ![i] = c]
           occ == Occupied(slot, LobbySize)
           new == [room EXCEPT !.slot = slot, !.lobbyCount = Cardinality(occ)]
<1>1. i \in 0 .. LobbySize - 1 /\ room.slot[i] = None
  <2>1. LobbySize \in Nat BY RoomAssumption
  <2>2. PICK j \in 0 .. LobbySize - 1 : room.slot[j] = None
    BY <2>1, OccupiedIsFinite DEF CountOK
  <2> QED BY <2>1, <2>2, FirstFreeIsFree
<1>2. SeatInLobby(room, c) = new BY DEF SeatInLobby
<1>3. slot \in [Slots -> Clients \cup {None}] BY DEF RoomType
<1>4. Cardinality(occ) \in Nat BY RoomAssumption, OccupiedIsFinite
<1> HIDE DEF slot, occ
<1>5. new \in RoomType BY <1>3, <1>4 DEF RoomType
<1>6. new.slot = slot /\ new.lobbyCount = Cardinality(occ) /\ new.in_use = room.in_use
  BY DEF RoomType
<1>7. CountOK(new, LobbySize, FALSE) BY <1>6 DEF CountOK, occ
<1> QED BY <1>1, <1>2, <1>5, <1>7

\* Sitting down in a game in use that is not full.
LEMMA SeatInGameOK ==
  ASSUME NEW room \in RoomType, NEW c \in Clients, room.in_use,
         room.lobbyCount = Cardinality(Occupied(room.slot, GameSize)),
         room.lobbyCount # GameSize
  PROVE  /\ FirstFree(room.slot, GameSize) \in 0 .. GameSize - 1
         /\ room.slot[FirstFree(room.slot, GameSize)] = None
         /\ SeatInGame(room, c) \in RoomType
         /\ CountOK(SeatInGame(room, c), GameSize, TRUE)
<1> DEFINE i == FirstFree(room.slot, GameSize)
           slot == [room.slot EXCEPT ![i] = c]
           occ == Occupied(slot, GameSize)
           ids == [room.gamePlayerID EXCEPT ![i] = room.gamePlayerCount + 1]
           new == [room EXCEPT !.slot = slot, !.lobbyCount = Cardinality(occ),
                               !.gamePlayerCount = room.gamePlayerCount + 1,
                               !.gamePlayerID = ids]
<1>0. GameSize \in Nat BY RoomAssumption
<1>1. i \in 0 .. GameSize - 1 /\ room.slot[i] = None
  <2>1. PICK j \in 0 .. GameSize - 1 : room.slot[j] = None
    BY <1>0, OccupiedIsFinite
  <2> QED BY <1>0, <2>1, FirstFreeIsFree
<1>2. SeatInGame(room, c) = new BY DEF SeatInGame
<1>3. slot \in [Slots -> Clients \cup {None}] /\ ids \in [Slots -> Nat]
  <2>1. room.slot \in [Slots -> Clients \cup {None}] BY DEF RoomType
  <2>2. room.gamePlayerID \in [Slots -> Nat] /\ room.gamePlayerCount + 1 \in Nat BY DEF RoomType
  <2> QED BY <2>1, <2>2
<1>4. Cardinality(occ) \in Nat /\ occ # {}
  <2>1. i \in occ BY <1>1, SlotFacts, NoneAssumption DEF Occupied, RoomType
  <2> QED BY <1>0, <2>1, OccupiedIsFinite
<1> HIDE DEF slot, occ, ids
<1>5. room.gamePlayerCount + 1 \in Nat BY DEF RoomType
<1>6. new \in RoomType BY <1>3, <1>4, <1>5 DEF RoomType
<1>7. new.slot = slot /\ new.lobbyCount = Cardinality(occ) /\ new.in_use = room.in_use
  BY DEF RoomType
<1>8. CountOK(new, GameSize, TRUE) BY <1>4, <1>7 DEF CountOK, occ
<1> QED BY <1>1, <1>2, <1>6, <1>8

----------------------------------------------------------------------------
(* Types and counts of the whole block                                     *)

AllCountOK(rs) == \A r \in RoomIds : CountOK(rs[r], Size(r), r \in GameIds)

LEMMA CountsExactIsAllCountOK == CountsExact <=> AllCountOK(rooms)
BY DEF CountsExact, AllCountOK, CountOK

TypeInv == TypeOK /\ CountsExact

LEMMA RecordFacts ==
  ASSUME TypeOK, NEW c \in Clients
  PROVE  /\ cl[c] \in ClientType
         /\ Offline \in ClientType
         /\ Removed(c) \in ClientType
         /\ \A k \in ClientType : AskLobby(k) \in ClientType
<1>1. cl[c] \in ClientType BY DEF TypeOK
<1>2. Offline \in ClientType
  BY SlotFacts, RoomAssumption DEF Offline, ClientType, LobbyIds
<1>3. Removed(c) \in ClientType BY <1>1 DEF Removed, ClientType
<1>4. ASSUME NEW k \in ClientType PROVE AskLobby(k) \in ClientType
  BY DEF AskLobby, ClientType
<1> QED BY <1>1, <1>2, <1>3, <1>4

LEMMA WithoutOK ==
  ASSUME TypeInv, NEW c \in Clients
  PROVE  Without(c) \in [RoomIds -> RoomType] /\ AllCountOK(Without(c))
<1>1. AllCountOK(rooms) /\ rooms \in [RoomIds -> RoomType]
  BY CountsExactIsAllCountOK DEF TypeInv, TypeOK
<1>2. CASE cl[c].lobby = None
  BY <1>1, <1>2 DEF Without
<1>3. CASE cl[c].lobby # None
  <2> DEFINE r == cl[c].lobby
             v == Vacate(rooms[r], cl[c].clientID, Size(r), r \in GameIds)
  <2>1. r \in RoomIds /\ cl[c].clientID \in Slots
    BY <1>3 DEF TypeInv, TypeOK, ClientType
  <2>2. v \in RoomType /\ CountOK(v, Size(r), r \in GameIds)
    <3>1. CountOK(rooms[r], Size(r), r \in GameIds) BY <1>1, <2>1 DEF AllCountOK
    <3>2. rooms[r] \in RoomType /\ Size(r) \in Nat /\ 0 .. Size(r) - 1 \subseteq Slots
      BY <1>1, <2>1, SizeFacts
    <3>3. (r \in GameIds) \in BOOLEAN OBVIOUS
    <3> HIDE DEF r
    <3> DEFINE g == r \in GameIds
    <3>4. g \in BOOLEAN /\ CountOK(rooms[r], Size(r), g) BY <3>1
    <3> HIDE DEF g
    <3>5. \A i \in Slots : /\ Vacate(rooms[r], i, Size(r), g) \in RoomType
                           /\ CountOK(Vacate(rooms[r], i, Size(r), g), Size(r), g)
      BY <3>2, <3>4, VacateOK
    <3> USE DEF g
    <3> QED BY <2>1, <3>5
  <2>3. Without(c) = [rooms EXCEPT ![r] = v] BY <1>3 DEF Without
  <2> HIDE DEF v, r
  <2>4. Without(c) \in [RoomIds -> RoomType] BY <1>1, <2>1, <2>2, <2>3
  <2>5. AllCountOK(Without(c))
    <3>1. SUFFICES ASSUME NEW q \in RoomIds
                   PROVE  CountOK(Without(c)[q], Size(q), q \in GameIds)
      BY DEF AllCountOK
    <3>2. CASE q = r BY <1>1, <2>1, <2>2, <2>3, <3>2
    <3>3. CASE q # r BY <1>1, <2>3, <3>3 DEF AllCountOK
    <3> QED BY <3>2, <3>3
  <2> QED BY <2>4, <2>5
<1> QED BY <1>2, <1>3

\* Replacing one room of a well-formed block by a well-formed one.
LEMMA OneRoomOK ==
  ASSUME NEW rs \in [RoomIds -> RoomType], AllCountOK(rs), NEW r \in RoomIds,
         NEW room \in RoomType, CountOK(room, Size(r), r \in GameIds)
  PROVE  [rs EXCEPT ![r] = room] \in [RoomIds -> RoomType]
         /\ AllCountOK([rs EXCEPT ![r] = room])
BY DEF AllCountOK

\* A game given the first client: the room CreateGame makes.
LEMMA NewGameOK ==
  ASSUME NEW c \in Clients, NEW kind \in Kinds
  PROVE  LET new == [EmptyRoom EXCEPT !.in_use = TRUE, !.kind = kind] IN
         /\ new \in RoomType /\ new.in_use
         /\ new.slot = EmptyRoom.slot /\ new.quest = "none"
         /\ new.gamePlayerID = EmptyRoom.gamePlayerID /\ new.gamePlayerCount = 0
         /\ new.leader = 0 /\ new.kind = kind
         /\ new.lobbyCount = Cardinality(Occupied(new.slot, GameSize))
         /\ new.lobbyCount # GameSize
<1> DEFINE new == [EmptyRoom EXCEPT !.in_use = TRUE, !.kind = kind]
<1>1. EmptyRoom \in RoomType BY EmptyRoomOK
<1>2. new \in RoomType BY <1>1 DEF RoomType
<1>3. /\ new.in_use /\ new.slot = EmptyRoom.slot /\ new.quest = "none" /\ new.leader = 0
      /\ new.gamePlayerID = EmptyRoom.gamePlayerID /\ new.gamePlayerCount = 0
      /\ new.lobbyCount = 0 /\ new.kind = kind
  BY DEF EmptyRoom
<1>4. GameSize \in Nat \ {0} /\ 0 .. GameSize - 1 \subseteq Slots BY RoomAssumption, SlotFacts
<1>5. Occupied(EmptyRoom.slot, GameSize) = {} BY <1>4, EmptyRoomOK
<1>6. Cardinality({}) = 0 BY FS_EmptySet
<1> QED BY <1>2, <1>3, <1>4, <1>5, <1>6

\* A client record whose only new values are well typed is well typed.
LEMMA SeatedClient ==
  ASSUME TypeOK, NEW c \in Clients, NEW r \in RoomIds, NEW i \in Slots
  PROVE  /\ [cl[c] EXCEPT !.lobbyOK = FALSE, !.lobby = r, !.bursting = TRUE, !.clientID = i]
              \in ClientType
         /\ [Removed(c) EXCEPT !.lobby = r, !.clientID = i, !.bursting = TRUE] \in ClientType
BY RecordFacts, ZenonT(60) DEF ClientType

\* What a step must establish: well-typed rooms with exact counts, and
\* well-typed clients.
LEMMA TypeInvIsThree ==
  TypeInv <=> /\ rooms \in [RoomIds -> RoomType]
              /\ AllCountOK(rooms)
              /\ cl \in [Clients -> ClientType]
BY CountsExactIsAllCountOK DEF TypeInv, TypeOK

LEMMA TypeInvIsThreeNext ==
  TypeInv' <=> /\ rooms' \in [RoomIds -> RoomType]
               /\ AllCountOK(rooms')
               /\ cl' \in [Clients -> ClientType]
BY DEF TypeInv, TypeOK, CountsExact, AllCountOK, CountOK

LEMMA TypeInvInit == Init => TypeInv
<1> SUFFICES ASSUME Init PROVE TypeInv OBVIOUS
<1>1. rooms \in [RoomIds -> RoomType] BY EmptyRoomOK DEF Init
<1>2. cl \in [Clients -> ClientType]
  <2>1. Offline \in ClientType BY SlotFacts, RoomAssumption DEF Offline, ClientType, LobbyIds
  <2> QED BY <2>1 DEF Init
<1>3. AllCountOK(rooms)
  <2>1. SUFFICES ASSUME NEW r \in RoomIds PROVE CountOK(rooms[r], Size(r), r \in GameIds)
    BY DEF AllCountOK
  <2>2. rooms[r] = EmptyRoom BY DEF Init
  <2>3. Size(r) \in Nat /\ 0 .. Size(r) - 1 \subseteq Slots BY SizeFacts
  <2>4. CASE r \in GameIds
    <3>1. (r \in GameIds) = TRUE BY <2>4
    <3> QED BY <2>2, <2>3, <3>1, EmptyRoomOK
  <2>5. CASE r \notin GameIds
    <3>1. (r \in GameIds) = FALSE BY <2>5
    <3> QED BY <2>2, <2>3, <3>1, EmptyRoomOK
  <2> QED BY <2>4, <2>5
<1> QED BY <1>1, <1>2, <1>3, TypeInvIsThree

LEMMA TypeInvJoinLobby ==
  ASSUME TypeInv, NEW c \in Clients, JoinLobby(c)
  PROVE  TypeInv'
<1>1. PICK l \in LobbyChoices(c) :
        /\ rooms' = [rooms EXCEPT ![l] = SeatInLobby(rooms[l], c)]
        /\ cl' = [cl EXCEPT ![c] = [cl[c] EXCEPT !.lobbyOK = FALSE, !.lobby = l,
                       !.bursting = TRUE, !.clientID = FirstFree(rooms[l].slot, LobbySize)]]
  BY ZenonT(60) DEF JoinLobby
<1>2. l \in LobbyIds /\ l \in RoomIds /\ rooms[l].lobbyCount < LobbySize
  <2>1. cl[c].preferred_lobby \in Nat BY RoomAssumption DEF TypeInv, TypeOK, ClientType, LobbyIds, AnyLobby
  <2> QED BY <1>1, <2>1, RoomAssumption DEF LobbyChoices, LobbyIds, RoomIds
<1>3. rooms[l] \in RoomType /\ CountOK(rooms[l], LobbySize, FALSE) /\ rooms[l].lobbyCount # LobbySize
  <2>1. rooms[l] \in RoomType /\ CountOK(rooms[l], Size(l), l \in GameIds)
    BY <1>2, TypeInvIsThree DEF AllCountOK
  <2>2. Size(l) = LobbySize /\ (l \in GameIds) = FALSE BY <1>2, SizeFacts
  <2>3. rooms[l].lobbyCount # LobbySize BY <1>2, <2>1, RoomAssumption DEF RoomType
  <2> QED BY <2>1, <2>2, <2>3
<1>4. /\ FirstFree(rooms[l].slot, LobbySize) \in Slots
      /\ SeatInLobby(rooms[l], c) \in RoomType
      /\ CountOK(SeatInLobby(rooms[l], c), Size(l), l \in GameIds)
  <2>1. Size(l) = LobbySize /\ (l \in GameIds) = FALSE BY <1>2, SizeFacts
  <2> QED BY <1>3, <2>1, SeatInLobbyOK, SlotFacts
<1>5. rooms' \in [RoomIds -> RoomType] /\ AllCountOK(rooms')
  BY <1>1, <1>2, <1>4, OneRoomOK, TypeInvIsThree
<1>6. cl' \in [Clients -> ClientType]
  <2>1. TypeOK BY DEF TypeInv
  <2>2. [cl[c] EXCEPT !.lobbyOK = FALSE, !.lobby = l, !.bursting = TRUE,
                      !.clientID = FirstFree(rooms[l].slot, LobbySize)] \in ClientType
    BY <1>2, <1>4, <2>1, SeatedClient
  <2> QED BY <1>1, <2>2, TypeInvIsThree
<1> QED BY <1>5, <1>6, TypeInvIsThreeNext

LEMMA TypeInvCreateGame ==
  ASSUME TypeInv, NEW c \in Clients, NEW kind \in Kinds, CreateGame(c, kind)
  PROVE  TypeInv'
<1> DEFINE new == [EmptyRoom EXCEPT !.in_use = TRUE, !.kind = kind]
<1>1. PICK g \in FreeGames :
        /\ rooms' = [Without(c) EXCEPT ![g] = SeatInGame(new, c)]
        /\ cl' = [cl EXCEPT ![c] = InGameOf(c, g, new)]
  BY DEF CreateGame
<1>2. g \in GameIds /\ g \in RoomIds BY DEF FreeGames, RoomIds
<1>3. /\ FirstFree(new.slot, GameSize) \in 0 .. GameSize - 1
      /\ SeatInGame(new, c) \in RoomType
      /\ CountOK(SeatInGame(new, c), GameSize, TRUE)
  <2>1. new \in RoomType /\ new.in_use /\ new.lobbyCount # GameSize
        /\ new.lobbyCount = Cardinality(Occupied(new.slot, GameSize))
    BY NewGameOK
  <2> HIDE DEF new
  <2> QED BY <2>1, SeatInGameOK
<1> HIDE DEF new
<1>4. CountOK(SeatInGame(new, c), Size(g), g \in GameIds)
  <2>1. Size(g) = GameSize /\ (g \in GameIds) = TRUE BY <1>2, SizeFacts
  <2> QED BY <1>3, <2>1
<1>5. rooms' \in [RoomIds -> RoomType] /\ AllCountOK(rooms')
  BY <1>1, <1>2, <1>3, <1>4, OneRoomOK, WithoutOK
<1>6. cl' \in [Clients -> ClientType]
  <2>1. TypeOK BY DEF TypeInv
  <2>2. InGameOf(c, g, new) \in ClientType
    BY <1>2, <1>3, <2>1, SeatedClient, SlotFacts DEF InGameOf
  <2> QED BY <1>1, <2>2, TypeInvIsThree
<1> QED BY <1>5, <1>6, TypeInvIsThreeNext

\* A game JoinGame may admit to has a free slot.
LEMMA JoinableHasRoom ==
  ASSUME TypeInv, NEW g \in GameIds, Joinable(g), NEW c \in Clients
  PROVE  /\ g \in RoomIds /\ rooms[g] \in RoomType
         /\ FirstFree(rooms[g].slot, GameSize) \in 0 .. GameSize - 1
         /\ rooms[g].slot[FirstFree(rooms[g].slot, GameSize)] = None
         /\ SeatInGame(rooms[g], c) \in RoomType
         /\ CountOK(SeatInGame(rooms[g], c), Size(g), g \in GameIds)
<1>1. g \in RoomIds BY DEF RoomIds
<1>2. Size(g) = GameSize /\ (g \in GameIds) = TRUE BY <1>1, SizeFacts
<1>3. rooms[g] \in RoomType /\ CountOK(rooms[g], GameSize, TRUE)
  BY <1>1, <1>2, TypeInvIsThree DEF AllCountOK
<1>4. rooms[g].in_use /\ rooms[g].lobbyCount # GameSize BY DEF Joinable
<1>5. rooms[g].lobbyCount = Cardinality(Occupied(rooms[g].slot, GameSize)) BY <1>3 DEF CountOK
<1> QED BY <1>1, <1>2, <1>3, <1>4, <1>5, SeatInGameOK

LEMMA TypeInvJoinGame ==
  ASSUME TypeInv, NEW c \in Clients, NEW g \in GameIds, JoinGame(c, g)
  PROVE  TypeInv'
<1>1. /\ Joinable(g)
      /\ rooms' = [Without(c) EXCEPT ![g] = SeatInGame(rooms[g], c)]
      /\ cl' = [cl EXCEPT ![c] = InGameOf(c, g, rooms[g])]
  BY DEF JoinGame
<1>2. /\ g \in RoomIds
      /\ FirstFree(rooms[g].slot, GameSize) \in Slots
      /\ SeatInGame(rooms[g], c) \in RoomType
      /\ CountOK(SeatInGame(rooms[g], c), Size(g), g \in GameIds)
  BY <1>1, JoinableHasRoom, SlotFacts
<1>3. rooms' \in [RoomIds -> RoomType] /\ AllCountOK(rooms')
  BY <1>1, <1>2, OneRoomOK, WithoutOK
<1>4. cl' \in [Clients -> ClientType]
  <2>1. TypeOK BY DEF TypeInv
  <2>2. InGameOf(c, g, rooms[g]) \in ClientType BY <1>2, <2>1, SeatedClient DEF InGameOf
  <2> QED BY <1>1, <2>2, TypeInvIsThree
<1> QED BY <1>3, <1>4, TypeInvIsThreeNext

LEMMA TypeInvStartQuest ==
  ASSUME TypeInv, NEW c \in Clients, NEW quest \in Quests, StartQuest(c, quest)
  PROVE  TypeInv'
<1> DEFINE g == cl[c].lobby
<1>1. /\ g \in GameIds /\ g \in RoomIds
      /\ rooms' = [rooms EXCEPT ![g] = [rooms[g] EXCEPT !.quest = quest]]
  BY DEF StartQuest, InGame, RoomIds
<1>2. rooms[g] \in RoomType /\ CountOK(rooms[g], Size(g), g \in GameIds)
  BY <1>1, TypeInvIsThree DEF AllCountOK
<1> DEFINE room == [rooms[g] EXCEPT !.quest = quest]
<1>3. room \in RoomType /\ CountOK(room, Size(g), g \in GameIds)
  BY <1>2 DEF RoomType, CountOK
<1>4. rooms' = [rooms EXCEPT ![g] = room] BY <1>1
<1> HIDE DEF room, g
<1>5. rooms' \in [RoomIds -> RoomType] /\ AllCountOK(rooms')
  <2>1. rooms \in [RoomIds -> RoomType] /\ AllCountOK(rooms) BY TypeInvIsThree
  <2>2. g \in RoomIds BY <1>1
  <2>3. /\ [rooms EXCEPT ![g] = room] \in [RoomIds -> RoomType]
        /\ AllCountOK([rooms EXCEPT ![g] = room])
    BY <1>3, <2>1, <2>2, OneRoomOK
  <2> QED BY <1>4, <2>3
<1>6. cl' \in [Clients -> ClientType]
  <2>1. \A d \in Clients : cl[d] \in ClientType BY TypeInvIsThree
  <2>2. \A d \in Clients : [cl[d] EXCEPT !.bursting = TRUE, !.sent = "file",
                              !.mode = cl[d].mode \/ rooms[g].kind = "battle"] \in ClientType
    BY <2>1 DEF ClientType
  <2>3. cl' = [d \in Clients |->
                 IF d \in Members(g)
                 THEN [cl[d] EXCEPT !.bursting = TRUE, !.sent = "file",
                                    !.mode = cl[d].mode \/ rooms[g].kind = "battle"]
                 ELSE cl[d]]
    BY DEF StartQuest, g
  <2> QED BY <2>1, <2>2, <2>3
<1> QED BY <1>5, <1>6, TypeInvIsThreeNext

\* A step that touches no room needs only well-typed clients.
LEMMA TypeInvRoomsSame ==
  ASSUME TypeInv, rooms' = rooms, cl' \in [Clients -> ClientType]
  PROVE  TypeInv'
BY TypeInvIsThree, TypeInvIsThreeNext

\* A step in which one client changes and may leave its room.
LEMMA TypeInvOneClient ==
  ASSUME TypeInv, NEW c \in Clients, NEW k \in ClientType,
         rooms' = rooms \/ rooms' = Without(c), cl' = [cl EXCEPT ![c] = k]
  PROVE  TypeInv'
<1>1. rooms' \in [RoomIds -> RoomType] /\ AllCountOK(rooms') BY TypeInvIsThree, WithoutOK
<1>2. cl' \in [Clients -> ClientType] BY TypeInvIsThree
<1> QED BY <1>1, <1>2, TypeInvIsThreeNext

LEMMA TypeInvStep ==
  ASSUME TypeInv, NEW c \in Clients, Step(c)
  PROVE  TypeInv'
<1>0. TypeOK /\ cl[c] \in ClientType BY RecordFacts DEF TypeInv
<1>1. CASE EnterBlock(c)
  <2>1. PICK p \in LobbyIds \cup {AnyLobby} :
          cl' = [cl EXCEPT ![c] = AskLobby([cl[c] EXCEPT !.online = TRUE,
                                                         !.preferred_lobby = p])]
    BY <1>1 DEF EnterBlock
  <2>2. [cl[c] EXCEPT !.online = TRUE, !.preferred_lobby = p] \in ClientType
    BY <1>0 DEF ClientType
  <2>3. AskLobby([cl[c] EXCEPT !.online = TRUE, !.preferred_lobby = p]) \in ClientType
    BY <1>0, <2>2, RecordFacts
  <2>4. rooms' = rooms BY <1>1 DEF EnterBlock
  <2> QED BY <2>1, <2>3, <2>4, TypeInvOneClient
<1>2. CASE JoinLobby(c) BY <1>2, TypeInvJoinLobby
<1>3. CASE NoLobbyLeft(c)
  <2>1. [cl[c] EXCEPT !.lobbyOK = FALSE, !.bursting = TRUE] \in ClientType
    BY <1>0 DEF ClientType
  <2>2. cl' = [cl EXCEPT ![c] = [cl[c] EXCEPT !.lobbyOK = FALSE, !.bursting = TRUE]]
        /\ rooms' = rooms
    BY <1>3 DEF NoLobbyLeft
  <2> QED BY <2>1, <2>2, TypeInvOneClient
<1>4. ASSUME NEW l \in LobbyIds, ChangeLobby(c, l) PROVE TypeInv'
  <2>1. [Removed(c) EXCEPT !.preferred_lobby = l] \in ClientType
    BY <1>0, RecordFacts DEF ClientType
  <2>2. AskLobby([Removed(c) EXCEPT !.preferred_lobby = l]) \in ClientType
    BY <1>0, <2>1, RecordFacts
  <2>3. cl' = [cl EXCEPT ![c] = AskLobby([Removed(c) EXCEPT !.preferred_lobby = l])]
        /\ rooms' = Without(c)
    BY <1>4 DEF ChangeLobby
  <2> QED BY <2>2, <2>3, TypeInvOneClient
<1>5. ASSUME NEW kind \in Kinds, CreateGame(c, kind) PROVE TypeInv'
  BY <1>5, TypeInvCreateGame
<1>6. ASSUME NEW g \in GameIds, JoinGame(c, g) PROVE TypeInv'
  BY <1>6, TypeInvJoinGame
<1>7. CASE BurstEndLobby(c)
  <2>1. [cl[c] EXCEPT !.bursting = FALSE] \in ClientType BY <1>0 DEF ClientType
  <2>2. cl' = [cl EXCEPT ![c] = [cl[c] EXCEPT !.bursting = FALSE]] /\ rooms' = rooms
    BY <1>7 DEF BurstEndLobby
  <2> QED BY <2>1, <2>2, TypeInvOneClient
<1>8. CASE BurstEndGame(c)
  <2>1. /\ [cl[c] EXCEPT !.bursting = FALSE] \in ClientType
        /\ [cl[c] EXCEPT !.sent = "file"] \in ClientType
    BY <1>0 DEF ClientType
  <2>2. rooms' = rooms /\ \/ cl' = [cl EXCEPT ![c] = [cl[c] EXCEPT !.sent = "file"]]
                          \/ cl' = [cl EXCEPT ![c] = [cl[c] EXCEPT !.bursting = FALSE]]
    BY <1>8 DEF BurstEndGame
  <2> QED BY <2>1, <2>2, TypeInvOneClient
<1>9. ASSUME NEW quest \in Quests \ {"none"}, StartQuest(c, quest) PROVE TypeInv'
  BY <1>9, TypeInvStartQuest
<1>10. CASE QuestLoaded(c)
  <2>1. \A d \in Clients : cl[d] \in ClientType BY <1>0 DEF TypeOK
  <2>2. ASSUME NEW d \in Clients, NEW s \in {"none", "file", "go"}
        PROVE  [cl[d] EXCEPT !.hasquest = cl[d].hasquest \/ d = c, !.sent = s] \in ClientType
    BY <2>1 DEF ClientType
  <2> DEFINE told(d) == IF (\A e \in Members(cl[c].lobby) \ {c} : cl[e].hasquest)
                           /\ d \in Members(cl[c].lobby) THEN "go" ELSE cl[d].sent
  <2>3. \A d \in Clients : told(d) \in {"none", "file", "go"} BY <2>1 DEF ClientType
  <2>4. cl' = [d \in Clients |->
                 [cl[d] EXCEPT !.hasquest = cl[d].hasquest \/ d = c, !.sent = told(d)]]
        /\ rooms' = rooms
    BY <1>10 DEF QuestLoaded
  <2> HIDE DEF told
  <2>5. cl' \in [Clients -> ClientType] BY <2>2, <2>3, <2>4
  <2> QED BY <2>4, <2>5, TypeInvRoomsSame
<1>11. CASE Disconnect(c)
  <2>1. Offline \in ClientType BY <1>0, RecordFacts
  <2>2. cl' = [cl EXCEPT ![c] = Offline] /\ rooms' = Without(c) BY <1>11 DEF Disconnect
  <2> QED BY <2>1, <2>2, TypeInvOneClient
<1> QED
  BY <1>1, <1>2, <1>3, <1>4, <1>5, <1>6, <1>7, <1>8, <1>9, <1>10, <1>11 DEF Step

LEMMA TypeInvNext == TypeInv /\ [Next]_vars => TypeInv'
<1>1. ASSUME TypeInv, Next PROVE TypeInv' BY <1>1, TypeInvStep DEF Next
<1>2. ASSUME TypeInv, UNCHANGED vars PROVE TypeInv'
  <2>1. rooms' = rooms /\ cl' = cl BY <1>2 DEF vars
  <2> QED BY <1>2, <2>1, TypeInvIsThree, TypeInvRoomsSame
<1> QED BY <1>1, <1>2

\* In every reachable state the rooms' records are well typed and their
\* counts exact.
THEOREM TypeInvAlways == Spec => []TypeInv
BY TypeInvInit, TypeInvNext, PTL DEF Spec

\* The block's state has its type in every reachable state.
THEOREM TypeCorrect == Spec => []TypeOK
<1>1. TypeInv => TypeOK BY DEF TypeInv
<1> QED BY <1>1, TypeInvAlways, PTL

\* lobbyCount is exact and a game is in use exactly while it has members, in
\* every reachable state: the "full" guards and free_game never go wrong.
THEOREM CountsAlwaysExact == Spec => []CountsExact
<1>1. TypeInv => CountsExact BY DEF TypeInv
<1> QED BY <1>1, TypeInvAlways, PTL

----------------------------------------------------------------------------
(* The agreement of clients and rooms                                      *)

Seated(rs, k, c) ==
  k[c].lobby # None => /\ k[c].clientID < Size(k[c].lobby)
                       /\ rs[k[c].lobby].slot[k[c].clientID] = c

Named(rs, k, r, i) ==
  rs[r].slot[i] # None => /\ i < Size(r)
                          /\ k[rs[r].slot[i]].lobby = r
                          /\ k[rs[r].slot[i]].clientID = i

Agree(rs, k) ==
  /\ \A c \in Clients : Seated(rs, k, c)
  /\ \A r \in RoomIds, i \in Slots : Named(rs, k, r, i)

\* A client is asked to pick a lobby only while it stands in no room, and one
\* that is not in the block stands nowhere: so nobody is seated twice.
PromptedOutside ==
  \A c \in Clients : /\ cl[c].lobbyOK => cl[c].online /\ cl[c].lobby = None
                     /\ ~cl[c].online => cl[c].lobby = None

AgreeInv == TypeInv /\ Agree(rooms, cl) /\ PromptedOutside

LEMMA AgreeIsMembersAgree == MembersAgree <=> Agree(rooms, cl)
BY DEF MembersAgree, Agree, Seated, Named

\* Leaving empties the leaver's slot and touches no other of the room's seats.
LEMMA VacateSlots ==
  ASSUME NEW room \in RoomType, NEW i \in Slots, NEW n \in Nat, 0 .. n - 1 \subseteq Slots,
         NEW isGame \in BOOLEAN
  PROVE  LET v == Vacate(room, i, n, isGame) IN
         /\ v.slot[i] = None
         /\ \A j \in Slots : v.slot[j] # None => v.slot[j] = room.slot[j]
         /\ \A j \in 0 .. n - 1 : j # i => v.slot[j] = room.slot[j]
<1> DEFINE v == Vacate(room, i, n, isGame)
           slot == [room.slot EXCEPT ![i] = None]
<1>1. room.slot \in [Slots -> Clients \cup {None}] BY DEF RoomType
<1>2. CASE Occupied(slot, n) = {}
  <2>1. v = EmptyRoom BY <1>2 DEF Vacate
  <2>2. \A j \in Slots : v.slot[j] = None BY <2>1 DEF EmptyRoom
  <2>3. \A j \in 0 .. n - 1 : j # i => room.slot[j] = None BY <1>1, <1>2 DEF Occupied
  <2> QED BY <2>2, <2>3
<1>3. CASE Occupied(slot, n) # {}
  <2>1. v.slot = slot BY <1>3 DEF Vacate, RoomType
  <2> QED BY <1>1, <2>1
<1> QED BY <1>2, <1>3

\* Once c has left, everybody else is where they were, and c is in no slot.
LEMMA LeaveAgrees ==
  ASSUME TypeInv, Agree(rooms, cl), NEW c \in Clients,
         NEW k \in ClientType, k.lobby = None
  PROVE  Agree(Without(c), [cl EXCEPT ![c] = k])
<1> DEFINE rs == Without(c)
           cs == [cl EXCEPT ![c] = k]
<1>1. rooms \in [RoomIds -> RoomType] /\ cl \in [Clients -> ClientType] BY TypeInvIsThree
<1>2. cs[c] = k /\ \A d \in Clients \ {c} : cs[d] = cl[d] BY <1>1
<1>3. CASE cl[c].lobby = None
  <2>1. rs = rooms BY <1>3 DEF Without
  <2>2. \A d \in Clients : Seated(rs, cs, d) BY <1>2, <2>1 DEF Agree, Seated
  <2>3. \A r \in RoomIds, j \in Slots : Named(rs, cs, r, j)
    <3>1. SUFFICES ASSUME NEW r \in RoomIds, NEW j \in Slots PROVE Named(rs, cs, r, j) OBVIOUS
    <3>2. rooms[r].slot[j] \in Clients \cup {None} BY <1>1 DEF RoomType
    <3>3. Named(rooms, cl, r, j) BY DEF Agree
    <3>4. rooms[r].slot[j] # c BY <1>3, <3>3, NoneAssumption DEF Named
    <3> QED BY <1>2, <2>1, <3>2, <3>3, <3>4 DEF Named
  <2> QED BY <2>2, <2>3 DEF Agree
<1>4. CASE cl[c].lobby # None
  <2> DEFINE q == cl[c].lobby
             i == cl[c].clientID
             v == rs[q]
  <2>1. /\ q \in RoomIds /\ i \in Slots /\ i \in 0 .. Size(q) - 1
        /\ rooms[q].slot[i] = c
    <3>1. q \in RoomIds /\ i \in Slots BY <1>1, <1>4 DEF ClientType
    <3>2. Seated(rooms, cl, c) BY DEF Agree
    <3>3. i < Size(q) /\ rooms[q].slot[i] = c BY <1>4, <3>2 DEF Seated
    <3>4. Size(q) \in Nat /\ i \in Nat BY <3>1, SizeFacts, SlotFacts
    <3> QED BY <3>1, <3>3, <3>4
  <2>2. rs \in [RoomIds -> RoomType] /\ (\A r \in RoomIds \ {q} : rs[r] = rooms[r])
    BY <1>1, <1>4, WithoutOK DEF Without
  <2>3. /\ v.slot[i] = None
        /\ \A j \in Slots : v.slot[j] # None => v.slot[j] = rooms[q].slot[j]
        /\ \A j \in 0 .. Size(q) - 1 : j # i => v.slot[j] = rooms[q].slot[j]
    <3>1. Size(q) \in Nat /\ 0 .. Size(q) - 1 \subseteq Slots BY <2>1, SizeFacts
    <3>2. rooms[q] \in RoomType BY <1>1, <2>1
    <3>3. v = Vacate(rooms[q], i, Size(q), q \in GameIds) BY <1>1, <1>4, <2>1 DEF Without
    <3> HIDE DEF q, i, v
    <3> DEFINE g == q \in GameIds
    <3>4. g \in BOOLEAN /\ v = Vacate(rooms[q], i, Size(q), g) BY <3>3
    <3> HIDE DEF g
    <3> QED BY <2>1, <3>1, <3>2, <3>4, VacateSlots
  <2> HIDE DEF rs, cs, v
  <2>4. ASSUME NEW d \in Clients PROVE Seated(rs, cs, d)
    <3>1. CASE d = c BY <1>2, <3>1 DEF Seated
    <3>2. CASE d # c
      <4>1. Seated(rooms, cl, d) BY DEF Agree
      <4>2. cs[d] = cl[d] /\ cl[d] \in ClientType BY <1>1, <1>2, <3>2
      <4>3. CASE cl[d].lobby = None BY <4>2, <4>3 DEF Seated
      <4>4. CASE cl[d].lobby # None /\ cl[d].lobby # q
        BY <2>2, <4>1, <4>2, <4>4 DEF Seated, ClientType
      <4>5. CASE cl[d].lobby # None /\ cl[d].lobby = q
        <5>1. /\ cl[d].clientID < Size(q) /\ rooms[q].slot[cl[d].clientID] = d
              /\ cl[d].clientID \in Slots
          BY <4>1, <4>2, <4>5 DEF Seated, ClientType
        <5>2. Size(q) \in Nat /\ cl[d].clientID \in Nat BY <2>1, <5>1, SizeFacts, SlotFacts
        <5>3. cl[d].clientID # i BY <2>1, <3>2, <5>1
        <5>4. v.slot[cl[d].clientID] = d BY <2>3, <5>1, <5>2, <5>3
        <5> QED BY <4>2, <4>5, <5>1, <5>4 DEF Seated, v
      <4> QED BY <4>3, <4>4, <4>5
    <3> QED BY <3>1, <3>2
  <2>5. ASSUME NEW r \in RoomIds, NEW j \in Slots PROVE Named(rs, cs, r, j)
    <3>1. Named(rooms, cl, r, j) BY DEF Agree
    <3>2. SUFFICES ASSUME rs[r].slot[j] # None PROVE Named(rs, cs, r, j) BY DEF Named
    <3>3. rs[r].slot[j] = rooms[r].slot[j] BY <2>2, <2>3, <3>2 DEF v
    <3>4. rs[r].slot[j] \in Clients BY <2>2, <3>2 DEF RoomType
    <3>5. rs[r].slot[j] # c
      <4>1. SUFFICES ASSUME rs[r].slot[j] = c PROVE FALSE OBVIOUS
      <4>2. r = q /\ j = i BY <3>1, <3>2, <3>3, <4>1 DEF Named
      <4> QED BY <2>3, <3>2, <4>2 DEF v
    <3> QED BY <1>2, <3>1, <3>3, <3>4, <3>5 DEF Named
  <2> QED BY <2>4, <2>5 DEF Agree, rs, cs
<1> QED BY <1>3, <1>4

\* Seating a client that is nowhere in a free slot.
LEMMA SeatAgrees ==
  ASSUME NEW rs \in [RoomIds -> RoomType], NEW cs \in [Clients -> ClientType], Agree(rs, cs),
         NEW c \in Clients, cs[c].lobby = None,
         NEW r \in RoomIds, NEW i \in 0 .. Size(r) - 1, rs[r].slot[i] = None,
         NEW room \in RoomType, room.slot = [rs[r].slot EXCEPT ![i] = c],
         NEW k \in ClientType, k.lobby = r, k.clientID = i
  PROVE  Agree([rs EXCEPT ![r] = room], [cs EXCEPT ![c] = k])
<1> DEFINE rt == [rs EXCEPT ![r] = room]
           ct == [cs EXCEPT ![c] = k]
<1>1. /\ i \in Slots /\ Size(r) \in Nat /\ i < Size(r)
      /\ rs[r].slot \in [Slots -> Clients \cup {None}]
  BY SizeFacts DEF RoomType
<1>2. /\ rt[r].slot[i] = c
      /\ \A j \in Slots : j # i => rt[r].slot[j] = rs[r].slot[j]
      /\ \A q \in RoomIds : q # r => rt[q] = rs[q]
  BY <1>1
<1>3. ct[c] = k /\ \A d \in Clients : d # c => ct[d] = cs[d] OBVIOUS
<1> HIDE DEF rt, ct
<1>4. ASSUME NEW d \in Clients PROVE Seated(rt, ct, d)
  <2>1. CASE d = c BY <1>1, <1>2, <1>3, <2>1 DEF Seated
  <2>2. CASE d # c
    <3>1. Seated(rs, cs, d) /\ ct[d] = cs[d] /\ cs[d] \in ClientType BY <1>3, <2>2 DEF Agree
    <3>2. SUFFICES ASSUME cs[d].lobby # None PROVE Seated(rt, ct, d) BY <3>1 DEF Seated
    <3>3. /\ cs[d].lobby \in RoomIds /\ cs[d].clientID \in Slots
          /\ cs[d].clientID < Size(cs[d].lobby)
          /\ rs[cs[d].lobby].slot[cs[d].clientID] = d
      BY <3>1, <3>2 DEF Seated, ClientType
    <3>4. rt[cs[d].lobby].slot[cs[d].clientID] = d
      BY <1>2, <2>2, <3>3, NoneAssumption
    <3> QED BY <3>1, <3>3, <3>4 DEF Seated
  <2> QED BY <2>1, <2>2
<1>5. ASSUME NEW q \in RoomIds, NEW j \in Slots PROVE Named(rt, ct, q, j)
  <2>1. CASE q = r /\ j = i BY <1>1, <1>2, <1>3, <2>1 DEF Named
  <2>2. CASE ~(q = r /\ j = i)
    <3>1. rt[q].slot[j] = rs[q].slot[j] BY <1>2, <2>2
    <3>2. SUFFICES ASSUME rs[q].slot[j] # None PROVE Named(rt, ct, q, j) BY <3>1 DEF Named
    <3>3. Named(rs, cs, q, j) BY DEF Agree
    <3>4. rs[q].slot[j] \in Clients BY <3>2 DEF RoomType
    <3>5. rs[q].slot[j] # c BY <3>2, <3>3, NoneAssumption DEF Named
    <3> QED BY <1>3, <3>1, <3>3, <3>4, <3>5 DEF Named
  <2> QED BY <2>1, <2>2
<1> QED BY <1>4, <1>5 DEF Agree, rt, ct

\* A step that moves nobody keeps the agreement.
LEMMA SameAgrees ==
  ASSUME NEW rs \in [RoomIds -> RoomType], NEW cs \in [Clients -> ClientType],
         NEW rt, NEW ct, Agree(rs, cs),
         \A r \in RoomIds : rt[r].slot = rs[r].slot,
         \A c \in Clients : ct[c].lobby = cs[c].lobby /\ ct[c].clientID = cs[c].clientID
  PROVE  Agree(rt, ct)
<1>1. ASSUME NEW d \in Clients PROVE Seated(rt, ct, d)
  <2>1. Seated(rs, cs, d) BY DEF Agree
  <2>2. CASE cs[d].lobby = None BY <2>2 DEF Seated
  <2>3. CASE cs[d].lobby \in RoomIds BY <2>1, <2>3 DEF Seated
  <2> QED BY <2>2, <2>3 DEF ClientType
<1>2. ASSUME NEW r \in RoomIds, NEW i \in Slots PROVE Named(rt, ct, r, i)
  <2>1. Named(rs, cs, r, i) BY DEF Agree
  <2>2. rs[r].slot[i] \in Clients \cup {None} BY DEF RoomType
  <2> QED BY <2>1, <2>2 DEF Named
<1> QED BY <1>1, <1>2 DEF Agree

LEMMA AgreeInvInit == Init => AgreeInv
<1> SUFFICES ASSUME Init PROVE AgreeInv OBVIOUS
<1>1. TypeInv BY TypeInvInit
<1>2. PromptedOutside BY DEF Init, Offline, PromptedOutside
<1>3. ASSUME NEW c \in Clients PROVE Seated(rooms, cl, c) BY DEF Init, Offline, Seated
<1>4. ASSUME NEW r \in RoomIds, NEW i \in Slots PROVE Named(rooms, cl, r, i)
  BY DEF Init, EmptyRoom, Named
<1> QED BY <1>1, <1>2, <1>3, <1>4 DEF AgreeInv, Agree

\* Leaving one room for a free slot of a game: what CreateGame and JoinGame do.
LEMMA MoveAgrees ==
  ASSUME AgreeInv, NEW c \in Clients, ~InGame(c), NEW g \in GameIds,
         NEW i \in 0 .. GameSize - 1, rooms[g].slot[i] = None,
         NEW room \in RoomType, room.slot = [rooms[g].slot EXCEPT ![i] = c],
         NEW k \in ClientType, k.lobby = g, k.clientID = i
  PROVE  Agree([Without(c) EXCEPT ![g] = room], [cl EXCEPT ![c] = k])
<1> DEFINE cs == [cl EXCEPT ![c] = Removed(c)]
<1>1. /\ TypeOK /\ TypeInv /\ g \in RoomIds /\ cl \in [Clients -> ClientType]
      /\ rooms \in [RoomIds -> RoomType]
  BY TypeInvIsThree DEF AgreeInv, TypeInv, RoomIds
<1>2. Removed(c) \in ClientType /\ Removed(c).lobby = None
  BY <1>1, RecordFacts, ZenonT(60) DEF Removed, ClientType
<1>3. cs \in [Clients -> ClientType] /\ cs[c].lobby = None BY <1>1, <1>2
<1>4. Agree(Without(c), cs) BY <1>1, <1>2, LeaveAgrees DEF AgreeInv
<1>5. Without(c) \in [RoomIds -> RoomType] /\ Without(c)[g] = rooms[g]
  BY <1>1, WithoutOK DEF Without, InGame
<1>6. i \in 0 .. Size(g) - 1 /\ Without(c)[g].slot[i] = None
      /\ room.slot = [Without(c)[g].slot EXCEPT ![i] = c]
  BY <1>1, <1>5, SizeFacts
<1>7. [cl EXCEPT ![c] = k] = [cs EXCEPT ![c] = k] BY <1>1
<1> HIDE DEF cs
<1>8. Agree([Without(c) EXCEPT ![g] = room], [cs EXCEPT ![c] = k])
  BY <1>1, <1>3, <1>4, <1>5, <1>6, SeatAgrees
<1> QED BY <1>7, <1>8

LEMMA AgreeJoinLobby ==
  ASSUME AgreeInv, NEW c \in Clients, JoinLobby(c)
  PROVE  Agree(rooms', cl')
<1>1. PICK l \in LobbyChoices(c) :
        /\ rooms' = [rooms EXCEPT ![l] = SeatInLobby(rooms[l], c)]
        /\ cl' = [cl EXCEPT ![c] = [cl[c] EXCEPT !.lobbyOK = FALSE, !.lobby = l,
                       !.bursting = TRUE, !.clientID = FirstFree(rooms[l].slot, LobbySize)]]
  BY ZenonT(60) DEF JoinLobby
<1>2. l \in LobbyIds /\ l \in RoomIds /\ rooms[l].lobbyCount < LobbySize
  <2>1. cl[c].preferred_lobby \in Nat
    BY RoomAssumption DEF AgreeInv, TypeInv, TypeOK, ClientType, LobbyIds, AnyLobby
  <2> QED BY <1>1, <2>1, RoomAssumption DEF LobbyChoices, LobbyIds, RoomIds
<1>3. TypeInv /\ TypeOK /\ rooms \in [RoomIds -> RoomType] /\ cl \in [Clients -> ClientType]
  BY TypeInvIsThree DEF AgreeInv, TypeInv
<1>4. rooms[l] \in RoomType /\ CountOK(rooms[l], LobbySize, FALSE) /\ rooms[l].lobbyCount # LobbySize
  <2>1. rooms[l] \in RoomType /\ CountOK(rooms[l], Size(l), l \in GameIds)
    BY <1>2, <1>3, TypeInvIsThree DEF AllCountOK
  <2>2. Size(l) = LobbySize /\ (l \in GameIds) = FALSE BY <1>2, SizeFacts
  <2>3. rooms[l].lobbyCount # LobbySize BY <1>2, <2>1, RoomAssumption DEF RoomType
  <2> QED BY <2>1, <2>2, <2>3
<1> DEFINE i == FirstFree(rooms[l].slot, LobbySize)
           room == SeatInLobby(rooms[l], c)
           k == [cl[c] EXCEPT !.lobbyOK = FALSE, !.lobby = l, !.bursting = TRUE, !.clientID = i]
<1>5. i \in 0 .. Size(l) - 1 /\ rooms[l].slot[i] = None /\ room \in RoomType /\ i \in Slots
  BY <1>2, <1>4, SeatInLobbyOK, SizeFacts, SlotFacts
<1>6. room.slot = [rooms[l].slot EXCEPT ![i] = c] BY <1>4 DEF SeatInLobby, RoomType
<1>7. k \in ClientType BY <1>2, <1>3, <1>5, SeatedClient
<1>8. k.lobby = l /\ k.clientID = i BY <1>3 DEF ClientType
<1>9. cl[c].lobby = None BY DEF AgreeInv, PromptedOutside, JoinLobby
<1>10. rooms' = [rooms EXCEPT ![l] = room] /\ cl' = [cl EXCEPT ![c] = k] BY <1>1
<1> HIDE DEF i, room, k
<1>11. Agree([rooms EXCEPT ![l] = room], [cl EXCEPT ![c] = k])
  BY <1>2, <1>3, <1>5, <1>6, <1>7, <1>8, <1>9, SeatAgrees DEF AgreeInv
<1> QED BY <1>10, <1>11

LEMMA AgreeCreateGame ==
  ASSUME AgreeInv, NEW c \in Clients, NEW kind \in Kinds, CreateGame(c, kind)
  PROVE  Agree(rooms', cl')
<1> DEFINE new == [EmptyRoom EXCEPT !.in_use = TRUE, !.kind = kind]
           i == FirstFree(new.slot, GameSize)
           room == SeatInGame(new, c)
<1>1. PICK g \in FreeGames :
        /\ rooms' = [Without(c) EXCEPT ![g] = room]
        /\ cl' = [cl EXCEPT ![c] = InGameOf(c, g, new)]
  BY DEF CreateGame
<1>2. g \in GameIds /\ g \in RoomIds /\ ~rooms[g].in_use BY DEF FreeGames, RoomIds
<1>3. new \in RoomType /\ new.in_use /\ new.lobbyCount # GameSize
      /\ new.lobbyCount = Cardinality(Occupied(new.slot, GameSize))
      /\ new.slot = EmptyRoom.slot
  BY NewGameOK
<1>4. room.slot = [new.slot EXCEPT ![i] = c]
  <2> HIDE DEF new
  <2> QED BY <1>3 DEF SeatInGame, RoomType
<1>5. i \in 0 .. GameSize - 1 /\ room \in RoomType
  <2> HIDE DEF new
  <2> QED BY <1>3, SeatInGameOK
<1>6. TypeInv /\ TypeOK /\ rooms[g] \in RoomType
  BY <1>2, TypeInvIsThree DEF AgreeInv, TypeInv
<1>7. rooms[g].slot = new.slot
  <2>1. Size(g) = GameSize BY <1>2, SizeFacts
  <2>2. Occupied(rooms[g].slot, GameSize) = {}
    <3>1. CountOK(rooms[g], Size(g), g \in GameIds) BY <1>2, <1>6, TypeInvIsThree DEF AllCountOK
    <3> QED BY <1>2, <2>1, <3>1 DEF CountOK
  <2>3. ASSUME NEW j \in Slots PROVE rooms[g].slot[j] = None
    <3>1. Named(rooms, cl, g, j) BY <1>2 DEF AgreeInv, Agree
    <3>2. j < GameSize => j \in 0 .. GameSize - 1 BY SlotFacts, RoomAssumption
    <3> QED BY <2>1, <2>2, <3>1, <3>2 DEF Named, Occupied
  <2>4. rooms[g].slot \in [Slots -> Clients \cup {None}] BY <1>6 DEF RoomType
  <2>5. EmptyRoom.slot = [j \in Slots |-> None] BY DEF EmptyRoom
  <2>6. rooms[g].slot = [j \in Slots |-> None] BY <2>3, <2>4
  <2> QED BY <1>3, <2>5, <2>6
<1>8. rooms[g].slot[i] = None
  BY <1>3, <1>5, <1>7, SlotFacts DEF EmptyRoom
<1> DEFINE k == InGameOf(c, g, new)
<1>9. k \in ClientType /\ k.lobby = g /\ k.clientID = i
  <2>1. k = [Removed(c) EXCEPT !.lobby = g, !.clientID = i, !.bursting = TRUE]
    BY DEF InGameOf
  <2>2. Removed(c) \in ClientType BY <1>6, RecordFacts
  <2> HIDE DEF new, i, k
  <2>3. k \in ClientType BY <1>2, <1>5, <1>6, <2>1, SeatedClient, SlotFacts
  <2> QED BY <2>1, <2>2, <2>3 DEF ClientType
<1>10. ~InGame(c) BY DEF CreateGame
<1>11. cl' = [cl EXCEPT ![c] = k] BY <1>1
<1>12. room.slot = [rooms[g].slot EXCEPT ![i] = c] BY <1>4, <1>7
<1> HIDE DEF new, i, room, k
<1>13. Agree([Without(c) EXCEPT ![g] = room], [cl EXCEPT ![c] = k])
  BY <1>2, <1>5, <1>8, <1>9, <1>10, <1>12, MoveAgrees
<1> QED BY <1>1, <1>11, <1>13

LEMMA AgreeJoinGame ==
  ASSUME AgreeInv, NEW c \in Clients, NEW g \in GameIds, JoinGame(c, g)
  PROVE  Agree(rooms', cl')
<1> DEFINE i == FirstFree(rooms[g].slot, GameSize)
           room == SeatInGame(rooms[g], c)
           k == InGameOf(c, g, rooms[g])
<1>1. /\ rooms' = [Without(c) EXCEPT ![g] = room]
      /\ cl' = [cl EXCEPT ![c] = k]
      /\ ~InGame(c) /\ Joinable(g)
  BY DEF JoinGame
<1>2. /\ g \in RoomIds /\ rooms[g] \in RoomType /\ i \in 0 .. GameSize - 1
      /\ rooms[g].slot[i] = None /\ room \in RoomType
  BY <1>1, JoinableHasRoom DEF AgreeInv
<1>3. room.slot = [rooms[g].slot EXCEPT ![i] = c] BY <1>2 DEF SeatInGame, RoomType
<1>4. k \in ClientType /\ k.lobby = g /\ k.clientID = i
  <2>1. k = [Removed(c) EXCEPT !.lobby = g, !.clientID = i, !.bursting = TRUE]
    BY DEF InGameOf
  <2>2. TypeOK /\ Removed(c) \in ClientType BY RecordFacts DEF AgreeInv, TypeInv
  <2> HIDE DEF i, k
  <2>3. k \in ClientType BY <1>2, <2>1, <2>2, SeatedClient, SlotFacts
  <2> QED BY <2>1, <2>2, <2>3 DEF ClientType
<1> HIDE DEF i, room, k
<1>5. Agree([Without(c) EXCEPT ![g] = room], [cl EXCEPT ![c] = k])
  BY <1>1, <1>2, <1>3, <1>4, MoveAgrees
<1> QED BY <1>1, <1>5

\* A step that changes one client without moving it.
LEMMA AgreeOneClient ==
  ASSUME AgreeInv, NEW c \in Clients, NEW k, rooms' = rooms, cl' = [cl EXCEPT ![c] = k],
         k.lobby = cl[c].lobby, k.clientID = cl[c].clientID
  PROVE  Agree(rooms', cl')
<1>1. rooms \in [RoomIds -> RoomType] /\ cl \in [Clients -> ClientType] /\ Agree(rooms, cl)
  BY TypeInvIsThree DEF AgreeInv
<1>2. \A r \in RoomIds : rooms'[r].slot = rooms[r].slot OBVIOUS
<1>3. \A d \in Clients : cl'[d].lobby = cl[d].lobby /\ cl'[d].clientID = cl[d].clientID
  BY <1>1
<1> QED BY <1>1, <1>2, <1>3, SameAgrees

LEMMA AgreeStep ==
  ASSUME AgreeInv, NEW c \in Clients, Step(c)
  PROVE  Agree(rooms', cl')
<1>0. /\ TypeInv /\ TypeOK /\ Agree(rooms, cl) /\ cl[c] \in ClientType
      /\ rooms \in [RoomIds -> RoomType] /\ cl \in [Clients -> ClientType]
  BY RecordFacts, TypeInvIsThree DEF AgreeInv, TypeInv
<1>1. CASE EnterBlock(c)
  <2>1. PICK p \in LobbyIds \cup {AnyLobby} :
          cl' = [cl EXCEPT ![c] = AskLobby([cl[c] EXCEPT !.online = TRUE,
                                                         !.preferred_lobby = p])]
    BY <1>1 DEF EnterBlock
  <2> DEFINE k == AskLobby([cl[c] EXCEPT !.online = TRUE, !.preferred_lobby = p])
  <2>2. k.lobby = cl[c].lobby /\ k.clientID = cl[c].clientID
    BY <1>0 DEF AskLobby, ClientType
  <2>3. rooms' = rooms BY <1>1 DEF EnterBlock
  <2> HIDE DEF k
  <2> QED BY <2>1, <2>2, <2>3, AgreeOneClient DEF k
<1>2. CASE JoinLobby(c) BY <1>2, AgreeJoinLobby
<1>3. CASE NoLobbyLeft(c)
  <2> DEFINE k == [cl[c] EXCEPT !.lobbyOK = FALSE, !.bursting = TRUE]
  <2>1. k.lobby = cl[c].lobby /\ k.clientID = cl[c].clientID BY <1>0 DEF ClientType
  <2>2. cl' = [cl EXCEPT ![c] = k] /\ rooms' = rooms BY <1>3 DEF NoLobbyLeft
  <2> HIDE DEF k
  <2> QED BY <2>1, <2>2, AgreeOneClient
<1>4. ASSUME NEW l \in LobbyIds, ChangeLobby(c, l) PROVE Agree(rooms', cl')
  <2> DEFINE k == AskLobby([Removed(c) EXCEPT !.preferred_lobby = l])
  <2>1. Removed(c) \in ClientType BY <1>0, RecordFacts
  <2>2. k \in ClientType /\ k.lobby = None
    BY <1>0, <1>4, <2>1 DEF AskLobby, ClientType, Removed
  <2>3. cl' = [cl EXCEPT ![c] = k] /\ rooms' = Without(c) BY <1>4 DEF ChangeLobby
  <2> HIDE DEF k
  <2> QED BY <1>0, <2>2, <2>3, LeaveAgrees
<1>5. ASSUME NEW kind \in Kinds, CreateGame(c, kind) PROVE Agree(rooms', cl')
  BY <1>5, AgreeCreateGame
<1>6. ASSUME NEW g \in GameIds, JoinGame(c, g) PROVE Agree(rooms', cl')
  BY <1>6, AgreeJoinGame
<1>7. CASE BurstEndLobby(c)
  <2> DEFINE k == [cl[c] EXCEPT !.bursting = FALSE]
  <2>1. k.lobby = cl[c].lobby /\ k.clientID = cl[c].clientID BY <1>0 DEF ClientType
  <2>2. cl' = [cl EXCEPT ![c] = k] /\ rooms' = rooms BY <1>7 DEF BurstEndLobby
  <2> HIDE DEF k
  <2> QED BY <2>1, <2>2, AgreeOneClient
<1>8. CASE BurstEndGame(c)
  <2> DEFINE k == [cl[c] EXCEPT !.bursting = FALSE]
             s == [cl[c] EXCEPT !.sent = "file"]
  <2>1. /\ k.lobby = cl[c].lobby /\ k.clientID = cl[c].clientID
        /\ s.lobby = cl[c].lobby /\ s.clientID = cl[c].clientID
    BY <1>0 DEF ClientType
  <2>2. rooms' = rooms /\ (cl' = [cl EXCEPT ![c] = k] \/ cl' = [cl EXCEPT ![c] = s])
    BY <1>8 DEF BurstEndGame
  <2> HIDE DEF k, s
  <2> QED BY <2>1, <2>2, AgreeOneClient
<1>9. ASSUME NEW quest \in Quests \ {"none"}, StartQuest(c, quest) PROVE Agree(rooms', cl')
  <2> DEFINE g == cl[c].lobby
  <2>1. rooms' = [rooms EXCEPT ![g] = [rooms[g] EXCEPT !.quest = quest]] BY <1>9 DEF StartQuest
  <2>2. \A r \in RoomIds : rooms'[r].slot = rooms[r].slot BY <1>0, <2>1 DEF RoomType
  <2>3. cl' = [d \in Clients |->
                 IF d \in Members(g)
                 THEN [cl[d] EXCEPT !.bursting = TRUE, !.sent = "file",
                                    !.mode = cl[d].mode \/ rooms[g].kind = "battle"]
                 ELSE cl[d]]
    BY <1>9 DEF StartQuest
  <2>4. ASSUME NEW d \in Clients
        PROVE  cl'[d].lobby = cl[d].lobby /\ cl'[d].clientID = cl[d].clientID
    <3>1. cl[d] \in ClientType BY <1>0
    <3> QED BY <2>3, <3>1 DEF ClientType
  <2> QED BY <1>0, <2>2, <2>4, SameAgrees
<1>10. CASE QuestLoaded(c)
  <2>1. rooms' = rooms BY <1>10 DEF QuestLoaded
  <2>2. ASSUME NEW d \in Clients
        PROVE  cl'[d].lobby = cl[d].lobby /\ cl'[d].clientID = cl[d].clientID
    <3>1. cl[d] \in ClientType BY <1>0
    <3>2. PICK s : cl'[d] = [cl[d] EXCEPT !.hasquest = cl[d].hasquest \/ d = c, !.sent = s]
      BY <1>10 DEF QuestLoaded
    <3> QED BY <3>1, <3>2 DEF ClientType
  <2> QED BY <1>0, <2>1, <2>2, SameAgrees
<1>11. CASE Disconnect(c)
  <2>1. Offline \in ClientType /\ Offline.lobby = None BY <1>0, RecordFacts DEF Offline
  <2>2. cl' = [cl EXCEPT ![c] = Offline] /\ rooms' = Without(c) BY <1>11 DEF Disconnect
  <2> QED BY <1>0, <2>1, <2>2, LeaveAgrees
<1> QED
  BY <1>1, <1>2, <1>3, <1>4, <1>5, <1>6, <1>7, <1>8, <1>9, <1>10, <1>11 DEF Step

\* A step that changes only client c keeps everybody else's prompt.
LEMMA PromptOneClient ==
  ASSUME AgreeInv, NEW c \in Clients, NEW k, cl' = [cl EXCEPT ![c] = k],
         k.lobbyOK => k.online /\ k.lobby = None,
         ~k.online => k.lobby = None
  PROVE  PromptedOutside'
BY TypeInvIsThree DEF AgreeInv, PromptedOutside

LEMMA PromptStep ==
  ASSUME AgreeInv, NEW c \in Clients, Step(c)
  PROVE  PromptedOutside'
<1>0. /\ TypeOK /\ cl[c] \in ClientType /\ Removed(c) \in ClientType
      /\ cl \in [Clients -> ClientType]
  BY RecordFacts, TypeInvIsThree DEF AgreeInv, TypeInv
<1>1. /\ cl[c].lobbyOK => cl[c].online /\ cl[c].lobby = None
      /\ ~cl[c].online => cl[c].lobby = None
  BY DEF AgreeInv, PromptedOutside
<1>2. CASE EnterBlock(c)
  <2>1. PICK p \in LobbyIds \cup {AnyLobby} :
          cl' = [cl EXCEPT ![c] = AskLobby([cl[c] EXCEPT !.online = TRUE,
                                                         !.preferred_lobby = p])]
    BY <1>2 DEF EnterBlock
  <2> DEFINE k == AskLobby([cl[c] EXCEPT !.online = TRUE, !.preferred_lobby = p])
  <2>2. k.online /\ k.lobby = None
    BY <1>0, <1>1, <1>2 DEF AskLobby, ClientType, EnterBlock
  <2>3. cl' = [cl EXCEPT ![c] = k] BY <2>1
  <2> HIDE DEF k
  <2> QED BY <2>2, <2>3, PromptOneClient
<1>3. CASE JoinLobby(c)
  <2>1. PICK l \in LobbyChoices(c) :
          cl' = [cl EXCEPT ![c] = [cl[c] EXCEPT !.lobbyOK = FALSE, !.lobby = l,
                       !.bursting = TRUE, !.clientID = FirstFree(rooms[l].slot, LobbySize)]]
    BY <1>3, ZenonT(60) DEF JoinLobby
  <2> DEFINE k == [cl[c] EXCEPT !.lobbyOK = FALSE, !.lobby = l, !.bursting = TRUE,
                                !.clientID = FirstFree(rooms[l].slot, LobbySize)]
  <2>2. ~k.lobbyOK /\ k.online BY <1>0, <1>1, <1>3 DEF ClientType, JoinLobby
  <2>3. cl' = [cl EXCEPT ![c] = k] BY <2>1
  <2> HIDE DEF k
  <2> QED BY <2>2, <2>3, PromptOneClient
<1>4. CASE NoLobbyLeft(c)
  <2> DEFINE k == [cl[c] EXCEPT !.lobbyOK = FALSE, !.bursting = TRUE]
  <2>1. ~k.lobbyOK /\ (~k.online => k.lobby = None) BY <1>0, <1>1 DEF ClientType
  <2>2. cl' = [cl EXCEPT ![c] = k] BY <1>4 DEF NoLobbyLeft
  <2> HIDE DEF k
  <2> QED BY <2>1, <2>2, PromptOneClient
<1>5. ASSUME NEW l \in LobbyIds, ChangeLobby(c, l) PROVE PromptedOutside'
  <2> DEFINE k == AskLobby([Removed(c) EXCEPT !.preferred_lobby = l])
  <2>1. k.online /\ k.lobby = None
    BY <1>0, <1>5 DEF AskLobby, ClientType, Removed, ChangeLobby
  <2>2. cl' = [cl EXCEPT ![c] = k] BY <1>5 DEF ChangeLobby
  <2> HIDE DEF k
  <2> QED BY <2>1, <2>2, PromptOneClient
<1>6. ASSUME NEW g, NEW room, cl' = [cl EXCEPT ![c] = InGameOf(c, g, room)], MenuOpen(c)
      PROVE  PromptedOutside'
  <2> DEFINE k == InGameOf(c, g, room)
  <2>1. ~k.lobbyOK /\ k.online
    BY <1>0, <1>6 DEF InGameOf, Removed, MenuOpen, ClientType
  <2>2. cl' = [cl EXCEPT ![c] = k] BY <1>6
  <2> HIDE DEF k
  <2> QED BY <2>1, <2>2, PromptOneClient
<1>7. ASSUME NEW kind \in Kinds, CreateGame(c, kind) PROVE PromptedOutside'
  BY <1>6, <1>7 DEF CreateGame
<1>8. ASSUME NEW g \in GameIds, JoinGame(c, g) PROVE PromptedOutside'
  BY <1>6, <1>8 DEF JoinGame
<1>9. ASSUME NEW k \in ClientType, cl' = [cl EXCEPT ![c] = k],
             k.lobbyOK = cl[c].lobbyOK, k.online = cl[c].online, k.lobby = cl[c].lobby
      PROVE  PromptedOutside'
  BY <1>1, <1>9, PromptOneClient
<1>10. CASE BurstEndLobby(c)
  <2> DEFINE k == [cl[c] EXCEPT !.bursting = FALSE]
  <2>1. k \in ClientType /\ k.lobbyOK = cl[c].lobbyOK /\ k.online = cl[c].online
        /\ k.lobby = cl[c].lobby
    BY <1>0 DEF ClientType
  <2>2. cl' = [cl EXCEPT ![c] = k] BY <1>10 DEF BurstEndLobby
  <2> HIDE DEF k
  <2> QED BY <1>9, <2>1, <2>2
<1>11. CASE BurstEndGame(c)
  <2> DEFINE k == [cl[c] EXCEPT !.bursting = FALSE]
             s == [cl[c] EXCEPT !.sent = "file"]
  <2>1. /\ k \in ClientType /\ k.lobbyOK = cl[c].lobbyOK /\ k.online = cl[c].online
        /\ k.lobby = cl[c].lobby
        /\ s \in ClientType /\ s.lobbyOK = cl[c].lobbyOK /\ s.online = cl[c].online
        /\ s.lobby = cl[c].lobby
    BY <1>0 DEF ClientType
  <2>2. cl' = [cl EXCEPT ![c] = k] \/ cl' = [cl EXCEPT ![c] = s] BY <1>11 DEF BurstEndGame
  <2> HIDE DEF k, s
  <2> QED BY <1>9, <2>1, <2>2
<1>12. ASSUME \A d \in Clients : /\ cl'[d].lobbyOK = cl[d].lobbyOK /\ cl'[d].online = cl[d].online
                                 /\ cl'[d].lobby = cl[d].lobby
       PROVE  PromptedOutside'
  BY <1>12 DEF AgreeInv, PromptedOutside
<1>13. ASSUME NEW quest \in Quests \ {"none"}, StartQuest(c, quest) PROVE PromptedOutside'
  <2> DEFINE g == cl[c].lobby
  <2>1. cl' = [d \in Clients |->
                 IF d \in Members(g)
                 THEN [cl[d] EXCEPT !.bursting = TRUE, !.sent = "file",
                                    !.mode = cl[d].mode \/ rooms[g].kind = "battle"]
                 ELSE cl[d]]
    BY <1>13 DEF StartQuest
  <2>2. ASSUME NEW d \in Clients
        PROVE  /\ cl'[d].lobbyOK = cl[d].lobbyOK /\ cl'[d].online = cl[d].online
               /\ cl'[d].lobby = cl[d].lobby
    <3>1. cl[d] \in ClientType BY <1>0
    <3> QED BY <2>1, <3>1 DEF ClientType
  <2> QED BY <1>12, <2>2
<1>14. CASE QuestLoaded(c)
  <2>1. ASSUME NEW d \in Clients
        PROVE  /\ cl'[d].lobbyOK = cl[d].lobbyOK /\ cl'[d].online = cl[d].online
               /\ cl'[d].lobby = cl[d].lobby
    <3>1. cl[d] \in ClientType BY <1>0
    <3>2. PICK s : cl'[d] = [cl[d] EXCEPT !.hasquest = cl[d].hasquest \/ d = c, !.sent = s]
      BY <1>14 DEF QuestLoaded
    <3> QED BY <3>1, <3>2 DEF ClientType
  <2> QED BY <1>12, <2>1
<1>15. CASE Disconnect(c)
  <2>1. ~Offline.lobbyOK /\ Offline.lobby = None BY DEF Offline
  <2>2. cl' = [cl EXCEPT ![c] = Offline] BY <1>15 DEF Disconnect
  <2> QED BY <2>1, <2>2, PromptOneClient
<1> QED
  BY <1>2, <1>3, <1>4, <1>5, <1>7, <1>8, <1>10, <1>11, <1>13, <1>14, <1>15 DEF Step

LEMMA AgreeInvNext == AgreeInv /\ [Next]_vars => AgreeInv'
<1>0. AgreeInv' <=> TypeInv' /\ Agree(rooms', cl') /\ PromptedOutside'
  BY DEF AgreeInv, Agree, Seated, Named
<1>1. ASSUME AgreeInv, Next PROVE AgreeInv'
  <2>1. PICK c \in Clients : Step(c) BY <1>1 DEF Next
  <2>2. TypeInv' BY <1>1, <2>1, TypeInvStep DEF AgreeInv
  <2> QED BY <1>0, <1>1, <2>1, <2>2, AgreeStep, PromptStep
<1>2. ASSUME AgreeInv, UNCHANGED vars PROVE AgreeInv'
  <2>1. rooms' = rooms /\ cl' = cl BY <1>2 DEF vars
  <2>2. TypeInv' BY <1>2, TypeInvNext DEF AgreeInv
  <2>3. PromptedOutside' BY <1>2, <2>1 DEF AgreeInv, PromptedOutside
  <2> QED BY <1>0, <1>2, <2>1, <2>2, <2>3 DEF AgreeInv
<1> QED BY <1>1, <1>2

\* The invariant holds in every reachable state.
THEOREM AgreeInvAlways == Spec => []AgreeInv
BY AgreeInvInit, AgreeInvNext, PTL DEF Spec

\* Clients and rooms agree on who sits where in every reachable state, for any
\* number of clients, rooms and seats: leaving by clientID alone always clears
\* the leaver's own slot.
THEOREM MembersAlwaysAgree == Spec => []MembersAgree
<1>1. AgreeInv => MembersAgree BY AgreeIsMembersAgree DEF AgreeInv
<1> QED BY <1>1, AgreeInvAlways, PTL

----------------------------------------------------------------------------
(* The lead of a game                                                      *)

\* What a step may do to a game: nothing, a member leaves, it is created with
\* its first member, it is joined, or its quest begins.
GameChange(g, room) ==
  \/ room = rooms[g]
  \/ \E i \in Slots : room = Vacate(rooms[g], i, GameSize, TRUE)
  \/ /\ ~rooms[g].in_use
     /\ \E kind \in Kinds, c \in Clients :
          room = SeatInGame([EmptyRoom EXCEPT !.in_use = TRUE, !.kind = kind], c)
  \/ Joinable(g) /\ \E c \in Clients : room = SeatInGame(rooms[g], c)
  \/ \E quest \in Quests : room = [rooms[g] EXCEPT !.quest = quest]

LEMMA WithoutGame ==
  ASSUME TypeInv, NEW c \in Clients, NEW g \in GameIds
  PROVE  GameChange(g, Without(c)[g])
<1>1. TypeOK /\ g \in RoomIds /\ rooms \in [RoomIds -> RoomType] /\ cl[c] \in ClientType
  BY RecordFacts, TypeInvIsThree DEF TypeInv, RoomIds
<1>2. CASE cl[c].lobby # g BY <1>1, <1>2 DEF GameChange, Without
<1>3. CASE cl[c].lobby = g
  <2>1. cl[c].lobby # None BY <1>1, <1>3, NoneAssumption
  <2>2. Size(g) = GameSize /\ (g \in GameIds) = TRUE BY <1>1, SizeFacts
  <2>3. Without(c)[g] = Vacate(rooms[g], cl[c].clientID, GameSize, TRUE)
    BY <1>1, <1>3, <2>1, <2>2 DEF Without
  <2>4. cl[c].clientID \in Slots BY <1>1 DEF ClientType
  <2> QED BY <2>3, <2>4 DEF GameChange
<1> QED BY <1>2, <1>3

LEMMA GameStep ==
  ASSUME TypeInv, NEW c \in Clients, Step(c), NEW g \in GameIds
  PROVE  GameChange(g, rooms'[g])
<1>0. /\ g \in RoomIds /\ rooms \in [RoomIds -> RoomType]
      /\ Without(c) \in [RoomIds -> RoomType]
  BY TypeInvIsThree, WithoutOK DEF RoomIds
<1>1. CASE rooms' = rooms BY <1>1 DEF GameChange
<1>2. CASE rooms' = Without(c) BY <1>2, WithoutGame
<1>3. CASE JoinLobby(c)
  <2>1. PICK l \in LobbyChoices(c) : rooms' = [rooms EXCEPT ![l] = SeatInLobby(rooms[l], c)]
    BY <1>3 DEF JoinLobby
  <2>2. l # g
    <3>1. cl[c].preferred_lobby \in Nat
      BY RoomAssumption DEF TypeInv, TypeOK, ClientType, LobbyIds, AnyLobby
    <3> QED BY <2>1, <3>1, RoomAssumption DEF LobbyChoices, LobbyIds, GameIds
  <2> QED BY <1>0, <2>1, <2>2 DEF GameChange
<1>4. ASSUME NEW kind \in Kinds, CreateGame(c, kind) PROVE GameChange(g, rooms'[g])
  <2> DEFINE new == [EmptyRoom EXCEPT !.in_use = TRUE, !.kind = kind]
  <2>1. PICK h \in FreeGames : rooms' = [Without(c) EXCEPT ![h] = SeatInGame(new, c)]
    BY <1>4 DEF CreateGame
  <2>2. CASE h = g
    <3>1. ~rooms[g].in_use /\ rooms'[g] = SeatInGame(new, c)
      BY <1>0, <2>1, <2>2 DEF FreeGames
    <3> QED BY <3>1 DEF GameChange
  <2>3. CASE h # g
    <3>1. rooms'[g] = Without(c)[g] BY <1>0, <2>1, <2>3
    <3> QED BY <3>1, WithoutGame
  <2> QED BY <2>2, <2>3
<1>5. ASSUME NEW h \in GameIds, JoinGame(c, h) PROVE GameChange(g, rooms'[g])
  <2>1. Joinable(h) /\ rooms' = [Without(c) EXCEPT ![h] = SeatInGame(rooms[h], c)]
    BY <1>5 DEF JoinGame
  <2>2. CASE h = g BY <1>0, <2>1, <2>2 DEF GameChange
  <2>3. CASE h # g
    <3>1. rooms'[g] = Without(c)[g] BY <1>0, <2>1, <2>3
    <3> QED BY <3>1, WithoutGame
  <2> QED BY <2>2, <2>3
<1>6. ASSUME NEW quest \in Quests, StartQuest(c, quest) PROVE GameChange(g, rooms'[g])
  <2> DEFINE h == cl[c].lobby
  <2>1. rooms' = [rooms EXCEPT ![h] = [rooms[h] EXCEPT !.quest = quest]]
    BY <1>6 DEF StartQuest
  <2>2. rooms'[g] = rooms[g] \/ rooms'[g] = [rooms[g] EXCEPT !.quest = quest] BY <1>0, <2>1
  <2> QED BY <2>2 DEF GameChange
<1>7. EnterBlock(c) \/ NoLobbyLeft(c) \/ BurstEndLobby(c) \/ BurstEndGame(c) \/ QuestLoaded(c)
        => rooms' = rooms
  BY DEF EnterBlock, NoLobbyLeft, BurstEndLobby, BurstEndGame, QuestLoaded
<1>8. (\E l \in LobbyIds : ChangeLobby(c, l)) \/ Disconnect(c) => rooms' = Without(c)
  BY DEF ChangeLobby, Disconnect
<1> QED BY <1>1, <1>2, <1>3, <1>4, <1>5, <1>6, <1>7, <1>8 DEF Step

\* The players of a game are numbered in the order they came, and the leader
\* has the least number.
GameOrder(room) ==
  LET occ == Occupied(room.slot, GameSize)
      id == room.gamePlayerID
  IN  /\ \A i \in occ : id[i] <= room.gamePlayerCount
      /\ \A i, j \in occ : id[i] = id[j] => i = j
      /\ occ # {} => room.leader \in occ /\ \A i \in occ \ {room.leader} : id[room.leader] < id[i]

LEMMA VacateOrder ==
  ASSUME NEW room \in RoomType, NEW i \in Slots, GameOrder(room)
  PROVE  GameOrder(Vacate(room, i, GameSize, TRUE))
<1> DEFINE slot == [room.slot EXCEPT ![i] = None]
           left == Occupied(slot, GameSize)
           occ == Occupied(room.slot, GameSize)
           id == room.gamePlayerID
<1>1. 0 .. GameSize - 1 \subseteq Slots /\ GameSize \in Nat /\ Slots \subseteq Nat
  BY SlotFacts, RoomAssumption
<1>2. CASE left = {}
  <2>1. Vacate(room, i, GameSize, TRUE) = EmptyRoom BY <1>2 DEF Vacate
  <2>2. Occupied(EmptyRoom.slot, GameSize) = {} BY <1>1, EmptyRoomOK
  <2> QED BY <2>1, <2>2 DEF GameOrder
<1>3. CASE left # {}
  <2> DEFINE lead == IF i = room.leader THEN Oldest(id, left) ELSE room.leader
             new == [room EXCEPT !.slot = slot, !.lobbyCount = Cardinality(left),
                                 !.leader = lead]
  <2>1. Vacate(room, i, GameSize, TRUE) = new BY <1>3 DEF Vacate
  <2>2. new.slot = slot /\ new.gamePlayerID = id /\ new.leader = lead
        /\ new.gamePlayerCount = room.gamePlayerCount
    BY DEF RoomType
  <2>3. left = occ \ {i} /\ occ \subseteq 0 .. GameSize - 1
    BY <1>1 DEF Occupied, RoomType
  <2>4. id \in [Slots -> Nat] BY DEF RoomType
  <2>5. /\ \A j \in occ : id[j] <= room.gamePlayerCount
        /\ \A j, k \in occ : id[j] = id[k] => j = k
        /\ room.leader \in occ
        /\ \A j \in occ \ {room.leader} : id[room.leader] < id[j]
    BY <1>3, <2>3 DEF GameOrder
  <2>6. lead \in left /\ \A j \in left \ {lead} : id[lead] < id[j]
    <3>1. CASE i = room.leader
      <4>1. left \in SUBSET Nat /\ \A j \in left : id[j] \in Nat BY <1>1, <2>3, <2>4
      <4> HIDE DEF left, id
      <4>2. Oldest(id, left) \in left /\ \A j \in left : id[Oldest(id, left)] <= id[j]
        BY <1>3, <4>1, OldestIsLeast
      <4>3. lead = Oldest(id, left) BY <3>1
      <4> HIDE DEF lead
      <4>4. ASSUME NEW j \in left \ {lead} PROVE id[lead] < id[j]
        <5>1. id[lead] <= id[j] /\ lead \in left BY <4>2, <4>3
        <5>2. id[lead] # id[j] BY <2>3, <2>5, <5>1
        <5> QED BY <4>1, <5>1, <5>2
      <4> QED BY <4>2, <4>3, <4>4
    <3>2. CASE i # room.leader BY <2>3, <2>5, <3>2
    <3> QED BY <3>1, <3>2
  <2> HIDE DEF slot, left, occ, id, lead
  <2>7. GameOrder(new)
    <3>1. Occupied(new.slot, GameSize) = left BY <2>2 DEF left
    <3> QED BY <2>2, <2>3, <2>5, <2>6, <3>1 DEF GameOrder
  <2> QED BY <2>1, <2>7
<1> QED BY <1>2, <1>3

LEMMA SeatOrder ==
  ASSUME NEW room \in RoomType, NEW c \in Clients, GameOrder(room),
         NEW f \in 0 .. GameSize - 1, f = FirstFree(room.slot, GameSize),
         room.slot[f] = None,
         Occupied(room.slot, GameSize) = {} => room.leader = f
  PROVE  GameOrder(SeatInGame(room, c))
<1> DEFINE slot == [room.slot EXCEPT ![f] = c]
           occ == Occupied(room.slot, GameSize)
           now == Occupied(slot, GameSize)
           ids == [room.gamePlayerID EXCEPT ![f] = room.gamePlayerCount + 1]
           new == [room EXCEPT !.slot = slot, !.lobbyCount = Cardinality(now),
                               !.gamePlayerCount = room.gamePlayerCount + 1,
                               !.gamePlayerID = ids]
<1>1. 0 .. GameSize - 1 \subseteq Slots /\ GameSize \in Nat /\ Slots \subseteq Nat
  BY SlotFacts, RoomAssumption
<1>2. SeatInGame(room, c) = new BY DEF SeatInGame
<1>3. new.slot = slot /\ new.gamePlayerID = ids /\ new.leader = room.leader
      /\ new.gamePlayerCount = room.gamePlayerCount + 1
  BY DEF RoomType
<1>4. now = occ \cup {f} /\ f \notin occ /\ occ \subseteq Slots
  BY <1>1, NoneAssumption DEF Occupied, RoomType
<1>5. room.gamePlayerID \in [Slots -> Nat] /\ room.gamePlayerCount \in Nat /\ f \in Slots
  BY <1>1 DEF RoomType
<1>6. ids[f] = room.gamePlayerCount + 1 /\ \A j \in occ : ids[j] = room.gamePlayerID[j]
  BY <1>4, <1>5
<1>7. /\ \A j \in occ : ids[j] <= room.gamePlayerCount /\ ids[j] \in Nat
      /\ \A j, k \in occ : ids[j] = ids[k] => j = k
      /\ occ # {} => room.leader \in occ /\ \A j \in occ \ {room.leader} : ids[room.leader] < ids[j]
      /\ occ = {} => room.leader = f
  BY <1>4, <1>5, <1>6 DEF GameOrder
<1> HIDE DEF slot, occ, now, ids
<1>8. \A j \in now : ids[j] <= room.gamePlayerCount + 1 BY <1>4, <1>5, <1>6, <1>7
<1>9. \A j, k \in now : ids[j] = ids[k] => j = k
  <2>1. \A j \in occ : ids[j] # ids[f] BY <1>5, <1>6, <1>7
  <2> QED BY <1>4, <1>7, <2>1
<1>10. room.leader \in now /\ \A j \in now \ {room.leader} : ids[room.leader] < ids[j]
  BY <1>4, <1>5, <1>6, <1>7
<1>11. Occupied(new.slot, GameSize) = now BY <1>3 DEF now
<1>12. GameOrder(new) BY <1>3, <1>8, <1>9, <1>10, <1>11 DEF GameOrder
<1> QED BY <1>2, <1>12

OrderInv == TypeInv /\ \A g \in GameIds : GameOrder(rooms[g])

\* The first member of a new game takes slot 0, which is the leader's.
LEMMA NewGameOrder ==
  ASSUME NEW c \in Clients, NEW kind \in Kinds
  PROVE  GameOrder(SeatInGame([EmptyRoom EXCEPT !.in_use = TRUE, !.kind = kind], c))
<1> DEFINE new == [EmptyRoom EXCEPT !.in_use = TRUE, !.kind = kind]
<1>1. /\ new \in RoomType /\ new.slot = EmptyRoom.slot /\ new.leader = 0
      /\ GameSize \in Nat \ {0} /\ 0 .. GameSize - 1 \subseteq Slots
  BY NewGameOK, RoomAssumption, SlotFacts
<1>2. Occupied(new.slot, GameSize) = {} BY <1>1, EmptyRoomOK
<1>3. \A j \in 0 .. GameSize - 1 : new.slot[j] = None BY <1>1 DEF EmptyRoom
<1> HIDE DEF new
<1>4. FirstFree(new.slot, GameSize) = 0
  <2>1. 0 \in 0 .. GameSize - 1 /\ 0 .. 0 - 1 = {} BY <1>1
  <2>2. \A i \in 0 .. GameSize - 1 :
          (new.slot[i] = None /\ \A j \in 0 .. i - 1 : new.slot[j] # None) <=> i = 0
    <3>1. ASSUME NEW i \in 0 .. GameSize - 1, i # 0
          PROVE  ~\A j \in 0 .. i - 1 : new.slot[j] # None
      <4>1. 0 \in 0 .. i - 1 BY <1>1, <3>1
      <4> QED BY <1>3, <2>1, <4>1
    <3> QED BY <1>3, <2>1, <3>1
  <2> QED BY <2>1, <2>2 DEF FirstFree
<1>5. GameOrder(new) BY <1>2 DEF GameOrder
<1>6. 0 \in 0 .. GameSize - 1 BY <1>1
<1>7. GameOrder(SeatInGame(new, c)) BY <1>1, <1>3, <1>4, <1>5, <1>6, SeatOrder
<1> QED BY <1>7 DEF new

LEMMA OrderChange ==
  ASSUME OrderInv, NEW g \in GameIds, NEW room, GameChange(g, room)
  PROVE  GameOrder(room)
<1>1. TypeInv /\ g \in RoomIds /\ rooms[g] \in RoomType /\ GameOrder(rooms[g])
  BY TypeInvIsThree DEF OrderInv, RoomIds
<1>2. CASE room = rooms[g] BY <1>1, <1>2
<1>3. CASE \E i \in Slots : room = Vacate(rooms[g], i, GameSize, TRUE)
  BY <1>1, <1>3, VacateOrder
<1>4. CASE \E kind \in Kinds, c \in Clients :
             room = SeatInGame([EmptyRoom EXCEPT !.in_use = TRUE, !.kind = kind], c)
  BY <1>4, NewGameOrder
<1>5. CASE Joinable(g) /\ \E c \in Clients : room = SeatInGame(rooms[g], c)
  <2>1. PICK c \in Clients : room = SeatInGame(rooms[g], c) BY <1>5
  <2>2. /\ FirstFree(rooms[g].slot, GameSize) \in 0 .. GameSize - 1
        /\ rooms[g].slot[FirstFree(rooms[g].slot, GameSize)] = None
    BY <1>1, <1>5, JoinableHasRoom
  <2>3. Occupied(rooms[g].slot, GameSize) # {}
    <3>1. Size(g) = GameSize /\ rooms[g].in_use BY <1>1, <1>5, SizeFacts DEF Joinable
    <3>2. CountOK(rooms[g], Size(g), g \in GameIds) BY <1>1, TypeInvIsThree DEF AllCountOK
    <3> QED BY <3>1, <3>2 DEF CountOK
  <2> QED BY <1>1, <2>1, <2>2, <2>3, SeatOrder
<1>6. CASE \E quest \in Quests : room = [rooms[g] EXCEPT !.quest = quest]
  BY <1>1, <1>6 DEF GameOrder, RoomType
<1> QED BY <1>2, <1>3, <1>4, <1>5, <1>6 DEF GameChange

LEMMA OrderInvInit == Init => OrderInv
<1> SUFFICES ASSUME Init PROVE OrderInv OBVIOUS
<1>1. ASSUME NEW g \in GameIds PROVE GameOrder(rooms[g])
  <2>1. rooms[g] = EmptyRoom BY DEF Init, RoomIds
  <2>2. Occupied(EmptyRoom.slot, GameSize) = {} BY RoomAssumption, SlotFacts, EmptyRoomOK
  <2> QED BY <2>1, <2>2 DEF GameOrder
<1> QED BY <1>1, TypeInvInit DEF OrderInv

LEMMA OrderInvNext == OrderInv /\ [Next]_vars => OrderInv'
<1>1. ASSUME OrderInv, [Next]_vars PROVE OrderInv'
  <2>1. TypeInv /\ TypeInv' BY <1>1, TypeInvNext DEF OrderInv
  <2>2. ASSUME NEW g \in GameIds PROVE GameOrder(rooms'[g])
    <3>1. CASE Next
      <4>1. PICK c \in Clients : Step(c) BY <3>1 DEF Next
      <4>2. GameChange(g, rooms'[g]) BY <2>1, <4>1, GameStep
      <4> QED BY <1>1, <4>2, OrderChange
    <3>2. CASE UNCHANGED vars
      <4>1. rooms' = rooms BY <3>2 DEF vars
      <4> QED BY <1>1, <4>1 DEF OrderInv
    <3> QED BY <1>1, <3>1, <3>2
  <2> QED BY <2>1, <2>2 DEF OrderInv, GameOrder, Occupied
<1> QED BY <1>1

\* A game with members is led by the one who has been in it longest, in every
\* reachable state: client[leader] is never a null pointer.
THEOREM LeaderAlwaysOldest == Spec => []LeaderIsOldest
<1>1. OrderInv => LeaderIsOldest
  BY DEF OrderInv, GameOrder, LeaderIsOldest
<1> QED BY <1>1, OrderInvInit, OrderInvNext, PTL DEF Spec

\* The lead of a game that goes on changes only when its leader's slot empties.
LEMMA LeadChange ==
  ASSUME TypeInv, NEW g \in GameIds, NEW room, GameChange(g, room),
         rooms[g].in_use, room.in_use, room.leader # rooms[g].leader
  PROVE  room.slot[rooms[g].leader] = None
<1>1. g \in RoomIds /\ rooms[g] \in RoomType BY TypeInvIsThree DEF RoomIds
<1>2. ASSUME NEW i \in Slots, room = Vacate(rooms[g], i, GameSize, TRUE)
      PROVE  room.slot[rooms[g].leader] = None
  <2>1. room.slot[i] = None
    BY <1>1, <1>2, SlotFacts, RoomAssumption, VacateSlots
  <2>2. i = rooms[g].leader
    BY <1>1, <1>2 DEF Vacate, EmptyRoom, RoomType
  <2> QED BY <2>1, <2>2
<1>3. ASSUME NEW c \in Clients, room = SeatInGame(rooms[g], c) PROVE FALSE
  BY <1>1, <1>3 DEF SeatInGame, RoomType
<1>4. ASSUME NEW quest \in Quests, room = [rooms[g] EXCEPT !.quest = quest] PROVE FALSE
  BY <1>1, <1>4 DEF RoomType
<1> QED BY <1>2, <1>3, <1>4 DEF GameChange

\* In every run the lead of a game passes on only when the leader leaves.
THEOREM LeadAlwaysPassesOnLeave == Spec => LeadPassesOnLeave
<1> DEFINE Passes == \A g \in GameIds :
             rooms[g].in_use /\ rooms'[g].in_use /\ rooms'[g].leader # rooms[g].leader
               => rooms'[g].slot[rooms[g].leader] = None
<1>1. ASSUME TypeInv, Next PROVE Passes
  <2>1. PICK c \in Clients : Step(c) BY <1>1 DEF Next
  <2>2. \A g \in GameIds : GameChange(g, rooms'[g]) BY <1>1, <2>1, GameStep
  <2> QED BY <1>1, <2>2, LeadChange
<1>2. TypeInv /\ [Next]_vars => [Passes]_vars BY <1>1
<1> QED BY <1>2, TypeInvAlways, PTL DEF Spec, LeadPassesOnLeave

----------------------------------------------------------------------------
(* The quests of Lobby: who has been sent the quest of its game, and who   *)
(* plays with a temporary character.  Both are a matter between one client *)
(* and the room it names, so the invariant is stated client by client, on  *)
(* top of the agreement established above.                                 *)
----------------------------------------------------------------------------
(* Rooms and the clients in them                                           *)

\* The members of a room are the clients that name it.
LEMMA MembersNameTheirRoom ==
  ASSUME AgreeInv, NEW r \in RoomIds
  PROVE  Members(r) = {c \in Clients : cl[c].lobby = r}
<1>0. /\ rooms[r] \in RoomType /\ Agree(rooms, cl) /\ cl \in [Clients -> ClientType]
      /\ Size(r) \in Nat /\ 0 .. Size(r) - 1 \subseteq Slots /\ Slots \subseteq Nat
  BY TypeInvIsThree, SizeFacts, SlotFacts DEF AgreeInv
<1>1. ASSUME NEW m \in Members(r) PROVE m \in Clients /\ cl[m].lobby = r
  <2>1. PICK i \in 0 .. Size(r) - 1 : rooms[r].slot[i] = m /\ m # None
    BY DEF Members, Occupied
  <2>2. i \in Slots /\ Named(rooms, cl, r, i) BY <1>0, <2>1 DEF Agree
  <2>3. m \in Clients BY <1>0, <2>1, <2>2 DEF RoomType
  <2> QED BY <2>1, <2>2, <2>3 DEF Named
<1>2. ASSUME NEW c \in Clients, cl[c].lobby = r PROVE c \in Members(r)
  <2>1. Seated(rooms, cl, c) /\ cl[c].clientID \in Slots /\ r # None /\ c # None
    BY <1>0, NoneAssumption DEF Agree, ClientType
  <2>2. cl[c].clientID < Size(r) /\ rooms[r].slot[cl[c].clientID] = c
    BY <1>2, <2>1 DEF Seated
  <2>3. cl[c].clientID \in Nat /\ Size(r) \in Nat BY <1>0, <2>1
  <2>4. cl[c].clientID \in 0 .. Size(r) - 1 BY <2>2, <2>3
  <2> QED BY <2>1, <2>2, <2>4 DEF Members, Occupied
<1> QED BY <1>1, <1>2

\* A game that somebody names is in use.
LEMMA NamedGameInUse ==
  ASSUME AgreeInv, NEW c \in Clients, cl[c].lobby \in GameIds
  PROVE  rooms[cl[c].lobby].in_use
<1> DEFINE g == cl[c].lobby
<1>1. g \in RoomIds BY DEF RoomIds
<1>2. c \in Members(g) BY <1>1, MembersNameTheirRoom
<1>3. Occupied(rooms[g].slot, Size(g)) # {} BY <1>2 DEF Members
<1>4. CountOK(rooms[g], Size(g), g \in GameIds) BY <1>1, TypeInvIsThree DEF AgreeInv, AllCountOK
<1> QED BY <1>3, <1>4 DEF CountOK

\* When a client leaves, the rooms of the others go on as what they were.
LEMMA OthersKeepTheirRoom ==
  ASSUME AgreeInv, NEW c \in Clients, NEW d \in Clients, d # c, cl[d].lobby # None
  PROVE  /\ Without(c)[cl[d].lobby].quest = rooms[cl[d].lobby].quest
         /\ Without(c)[cl[d].lobby].kind = rooms[cl[d].lobby].kind
<1> DEFINE r == cl[d].lobby
           i == cl[c].clientID
           slot == [rooms[r].slot EXCEPT ![i] = None]
<1>0. /\ rooms \in [RoomIds -> RoomType] /\ cl \in [Clients -> ClientType] /\ Agree(rooms, cl)
  BY TypeInvIsThree DEF AgreeInv
<1>1. r \in RoomIds /\ rooms[r] \in RoomType BY <1>0 DEF ClientType
<1>2. CASE cl[c].lobby = r
  <2>1. /\ cl[d].clientID \in Slots /\ cl[d].clientID \in 0 .. Size(r) - 1
        /\ rooms[r].slot[cl[d].clientID] = d /\ d # None
    <3>1. Seated(rooms, cl, d) /\ cl[d].clientID \in Slots BY <1>0 DEF Agree, ClientType
    <3>2. Size(r) \in Nat /\ cl[d].clientID \in Nat BY <1>1, <3>1, SizeFacts, SlotFacts
    <3>3. cl[d].clientID < Size(r) /\ rooms[r].slot[cl[d].clientID] = d BY <3>1 DEF Seated
    <3>4. cl[d].clientID \in 0 .. Size(r) - 1 BY <3>2, <3>3
    <3> QED BY <3>1, <3>3, <3>4, NoneAssumption
  <2>2. rooms[r].slot[i] = c
    <3>1. Seated(rooms, cl, c) BY <1>0 DEF Agree
    <3> QED BY <1>2, <3>1 DEF Seated
  <2>3. cl[d].clientID # i BY <2>1, <2>2
  <2>4. slot[cl[d].clientID] = d BY <1>1, <2>1, <2>3 DEF RoomType
  <2>5. Occupied(slot, Size(r)) # {} BY <2>1, <2>4 DEF Occupied
  <2>6. Without(c)[r] = Vacate(rooms[r], i, Size(r), r \in GameIds)
    BY <1>0, <1>1, <1>2 DEF Without
  <2> QED BY <1>1, <2>5, <2>6 DEF Vacate, RoomType
<1>3. CASE cl[c].lobby # r BY <1>0, <1>1, <1>3 DEF Without
<1> QED BY <1>2, <1>3

----------------------------------------------------------------------------
(* The invariant                                                           *)

\* What client k has of a quest in the state "quest".
Reached(quest, k) ==
  IF quest = "none" THEN k.sent = "none" /\ ~k.hasquest
  ELSE k.sent # "none" \/ (quest = "government" /\ k.bursting)

\* Client k in a room with this quest, of this kind.
Fits(k, quest, kind) ==
  /\ k.hasquest => k.sent # "none"
  /\ k.lobby \in GameIds => Reached(quest, k)
  /\ k.mode => k.lobby \in GameIds /\ kind = "battle" /\ quest # "none"

\* A client that is nowhere has no temporary character.
Outside(k) == ~k.mode /\ (k.hasquest => k.sent # "none")

FitsRoom(rs, k) ==
  IF k.lobby = None THEN Outside(k) ELSE Fits(k, rs[k.lobby].quest, rs[k.lobby].kind)

QuestsFit(rs, cs) == \A c \in Clients : FitsRoom(rs, cs[c])

QuestInv == AgreeInv /\ QuestsFit(rooms, cl)

LEMMA QuestInvGives == QuestInv => QuestReachesMembers /\ BattleConfined
<1> SUFFICES ASSUME QuestInv PROVE QuestReachesMembers /\ BattleConfined OBVIOUS
<1>0. AgreeInv /\ (\A c \in Clients : FitsRoom(rooms, cl[c])) /\ cl \in [Clients -> ClientType]
  BY TypeInvIsThree DEF QuestInv, QuestsFit, AgreeInv
<1>1. ASSUME NEW g \in GameIds, NEW m \in Members(g)
      PROVE  IF rooms[g].quest = "none" THEN cl[m].sent = "none" /\ ~cl[m].hasquest
             ELSE \/ cl[m].sent # "none"
                  \/ rooms[g].quest = "government" /\ cl[m].bursting
  <2>1. g \in RoomIds /\ g # None BY NoneAssumption DEF RoomIds
  <2>2. m \in Clients /\ cl[m].lobby = g BY <1>0, <2>1, MembersNameTheirRoom
  <2>3. Reached(rooms[g].quest, cl[m]) BY <1>0, <2>1, <2>2 DEF FitsRoom, Fits
  <2> QED BY <2>3 DEF Reached
<1>2. ASSUME NEW c \in Clients, cl[c].mode
      PROVE  /\ InGame(c) /\ rooms[cl[c].lobby].kind = "battle"
             /\ rooms[cl[c].lobby].quest # "none"
  BY <1>0, <1>2 DEF FitsRoom, Fits, Outside, InGame
<1> QED BY <1>1, <1>2 DEF QuestReachesMembers, BattleConfined

LEMMA QuestInvInit == Init => QuestInv
<1> SUFFICES ASSUME Init PROVE QuestInv OBVIOUS
<1>1. \A c \in Clients : FitsRoom(rooms, cl[c]) BY DEF Init, Offline, FitsRoom, Outside
<1> QED BY <1>1, AgreeInvInit DEF QuestInv, QuestsFit

\* A step of c that leaves the others and the quests of their rooms alone.
LEMMA OnlyOne ==
  ASSUME QuestInv, NEW c \in Clients, NEW k, cl' = [cl EXCEPT ![c] = k], FitsRoom(rooms', k),
         \A d \in Clients \ {c} : cl[d].lobby # None =>
           /\ rooms'[cl[d].lobby].quest = rooms[cl[d].lobby].quest
           /\ rooms'[cl[d].lobby].kind = rooms[cl[d].lobby].kind
  PROVE  QuestsFit(rooms', cl')
<1>0. cl \in [Clients -> ClientType] BY TypeInvIsThree DEF QuestInv, AgreeInv
<1>1. ASSUME NEW d \in Clients PROVE FitsRoom(rooms', cl'[d])
  <2>1. CASE d = c BY <1>0, <2>1
  <2>2. CASE d # c
    <3>1. cl'[d] = cl[d] /\ FitsRoom(rooms, cl[d]) BY <1>0, <2>2 DEF QuestInv, QuestsFit
    <3> QED BY <2>2, <3>1 DEF FitsRoom
  <2> QED BY <2>1, <2>2
<1> QED BY <1>1 DEF QuestsFit

\* The same when c has left its room for none.
LEMMA OnlyOneLeft ==
  ASSUME QuestInv, NEW c \in Clients, NEW k, cl' = [cl EXCEPT ![c] = k],
         k.lobby = None, Outside(k), rooms' = Without(c) \/ rooms' = rooms
  PROVE  QuestsFit(rooms', cl')
<1>1. FitsRoom(rooms', k) BY DEF FitsRoom
<1>2. \A d \in Clients \ {c} : cl[d].lobby # None =>
           /\ rooms'[cl[d].lobby].quest = rooms[cl[d].lobby].quest
           /\ rooms'[cl[d].lobby].kind = rooms[cl[d].lobby].kind
  BY OthersKeepTheirRoom DEF QuestInv
<1> QED BY <1>1, <1>2, OnlyOne

\* What the actions need of the client that acts.
LEMMA ActorFacts ==
  ASSUME QuestInv, NEW c \in Clients
  PROVE  /\ AgreeInv /\ TypeInv /\ TypeOK /\ cl[c] \in ClientType /\ Removed(c) \in ClientType
         /\ rooms \in [RoomIds -> RoomType] /\ cl \in [Clients -> ClientType]
         /\ FitsRoom(rooms, cl[c])
         /\ cl[c].hasquest => cl[c].sent # "none"
         /\ cl[c].lobby \notin GameIds => ~cl[c].mode
         /\ cl[c].lobbyOK \/ ~cl[c].online => cl[c].lobby = None
<1>1. AgreeInv /\ TypeInv /\ TypeOK BY DEF QuestInv, AgreeInv, TypeInv
<1>2. FitsRoom(rooms, cl[c]) BY DEF QuestInv, QuestsFit
<1>3. /\ cl[c].hasquest => cl[c].sent # "none"
      /\ cl[c].lobby \notin GameIds => ~cl[c].mode
  BY <1>2 DEF FitsRoom, Fits, Outside
<1> QED BY <1>1, <1>2, <1>3, RecordFacts, TypeInvIsThree DEF AgreeInv, PromptedOutside

LEMMA QuestCreateGame ==
  ASSUME QuestInv, NEW c \in Clients, NEW kind \in Kinds, CreateGame(c, kind)
  PROVE  QuestsFit(rooms', cl')
<1> DEFINE new == [EmptyRoom EXCEPT !.in_use = TRUE, !.kind = kind]
<1>1. PICK g \in FreeGames :
        /\ rooms' = [Without(c) EXCEPT ![g] = SeatInGame(new, c)]
        /\ cl' = [cl EXCEPT ![c] = InGameOf(c, g, new)]
  BY DEF CreateGame
<1>2. g \in GameIds /\ g \in RoomIds /\ ~rooms[g].in_use /\ g # None
  BY NoneAssumption DEF FreeGames, RoomIds
<1> DEFINE k == InGameOf(c, g, new)
<1>3. /\ k.lobby = g /\ k.sent = "none" /\ ~k.hasquest /\ k.mode = cl[c].mode
  BY ActorFacts DEF InGameOf, Removed, ClientType
<1>4. ~cl[c].mode BY ActorFacts DEF CreateGame, InGame
<1>5. Without(c) \in [RoomIds -> RoomType] BY ActorFacts, WithoutOK
<1>6. rooms'[g].quest = "none"
  <2>1. new \in RoomType /\ new.quest = "none" BY NewGameOK
  <2>2. rooms'[g] = SeatInGame(new, c) BY <1>1, <1>2, <1>5
  <2> HIDE DEF new
  <2> QED BY <2>1, <2>2 DEF SeatInGame, RoomType
<1>7. cl' = [cl EXCEPT ![c] = k] BY <1>1
<1>8. FitsRoom(rooms', k)
  <2> HIDE DEF k, new
  <2> QED BY <1>2, <1>3, <1>4, <1>6 DEF FitsRoom, Fits, Reached
<1>9. ASSUME NEW d \in Clients \ {c}, cl[d].lobby # None
      PROVE  /\ rooms'[cl[d].lobby].quest = rooms[cl[d].lobby].quest
             /\ rooms'[cl[d].lobby].kind = rooms[cl[d].lobby].kind
  <2>1. AgreeInv /\ cl[d].lobby \in RoomIds BY <1>9, ActorFacts DEF ClientType
  <2>2. cl[d].lobby # g BY <1>2, <2>1, NamedGameInUse
  <2>3. rooms'[cl[d].lobby] = Without(c)[cl[d].lobby] BY <1>1, <1>5, <2>1, <2>2
  <2> QED BY <1>9, <2>1, <2>3, OthersKeepTheirRoom
<1> HIDE DEF k, new
<1> QED BY <1>7, <1>8, <1>9, OnlyOne

LEMMA QuestJoinGame ==
  ASSUME QuestInv, NEW c \in Clients, NEW g \in GameIds, JoinGame(c, g)
  PROVE  QuestsFit(rooms', cl')
<1> DEFINE k == InGameOf(c, g, rooms[g])
           room == SeatInGame(rooms[g], c)
<1>1. /\ rooms' = [Without(c) EXCEPT ![g] = room] /\ cl' = [cl EXCEPT ![c] = k]
      /\ ~InGame(c) /\ rooms[g].quest # "running"
  BY DEF JoinGame, Joinable
<1>2. g \in RoomIds /\ g # None /\ rooms[g] \in RoomType
  BY ActorFacts, NoneAssumption DEF RoomIds
<1>3. room.quest = rooms[g].quest /\ room.kind = rooms[g].kind
  BY <1>2 DEF SeatInGame, RoomType
<1>4. /\ k.lobby = g /\ k.sent = "none" /\ ~k.hasquest /\ k.mode = cl[c].mode /\ k.bursting
  BY ActorFacts DEF InGameOf, Removed, ClientType
<1>5. ~cl[c].mode BY <1>1, ActorFacts DEF InGame
<1>6. Without(c) \in [RoomIds -> RoomType] BY ActorFacts, WithoutOK
<1> HIDE DEF k, room
<1>7. rooms'[g] = room BY <1>1, <1>2, <1>6
<1>8. FitsRoom(rooms', k)
  <2>1. rooms[g].quest \in {"none", "government"} BY <1>1, <1>2 DEF RoomType, Quests
  <2> QED BY <1>2, <1>3, <1>4, <1>5, <1>7, <2>1 DEF FitsRoom, Fits, Reached
<1>9. ASSUME NEW d \in Clients \ {c}, cl[d].lobby # None
      PROVE  /\ rooms'[cl[d].lobby].quest = rooms[cl[d].lobby].quest
             /\ rooms'[cl[d].lobby].kind = rooms[cl[d].lobby].kind
  <2>1. AgreeInv /\ cl[d].lobby \in RoomIds BY <1>9, ActorFacts DEF ClientType
  <2>2. CASE cl[d].lobby = g BY <1>3, <1>7, <2>2
  <2>3. CASE cl[d].lobby # g
    <3>1. rooms'[cl[d].lobby] = Without(c)[cl[d].lobby] BY <1>1, <1>6, <2>1, <2>3
    <3> QED BY <1>9, <2>1, <3>1, OthersKeepTheirRoom
  <2> QED BY <2>2, <2>3
<1> QED BY <1>1, <1>8, <1>9, OnlyOne

LEMMA QuestStartQuest ==
  ASSUME QuestInv, NEW c \in Clients, NEW quest \in Quests \ {"none"}, StartQuest(c, quest)
  PROVE  QuestsFit(rooms', cl')
<1> DEFINE g == cl[c].lobby
<1>1. /\ g \in GameIds /\ g \in RoomIds /\ g # None
      /\ rooms' = [rooms EXCEPT ![g] = [rooms[g] EXCEPT !.quest = quest]]
      /\ cl' = [d \in Clients |->
                 IF d \in Members(g)
                 THEN [cl[d] EXCEPT !.bursting = TRUE, !.sent = "file",
                                    !.mode = cl[d].mode \/ rooms[g].kind = "battle"]
                 ELSE cl[d]]
  BY NoneAssumption DEF StartQuest, InGame, RoomIds
<1>2. Members(g) = {d \in Clients : cl[d].lobby = g}
  BY <1>1, ActorFacts, MembersNameTheirRoom
<1>3. rooms \in [RoomIds -> RoomType] /\ cl \in [Clients -> ClientType] BY ActorFacts
<1> HIDE DEF g
<1>4. rooms'[g].quest = quest /\ rooms'[g].kind = rooms[g].kind
  BY <1>1, <1>3 DEF RoomType
<1>5. ASSUME NEW d \in Clients PROVE FitsRoom(rooms', cl'[d])
  <2>1. cl[d] \in ClientType /\ FitsRoom(rooms, cl[d])
    BY <1>3 DEF QuestInv, QuestsFit
  <2>2. CASE cl[d].lobby = g
    <3>1. cl'[d] = [cl[d] EXCEPT !.bursting = TRUE, !.sent = "file",
                                 !.mode = cl[d].mode \/ rooms[g].kind = "battle"]
      BY <1>1, <1>2, <2>2
    <3>2. /\ cl'[d].lobby = g /\ cl'[d].sent = "file"
          /\ cl'[d].mode => cl[d].mode \/ rooms[g].kind = "battle"
      BY <2>1, <2>2, <3>1 DEF ClientType
    <3>3. cl[d].mode => rooms[g].kind = "battle" BY <1>1, <2>1, <2>2 DEF FitsRoom, Fits
    <3> QED BY <1>1, <1>4, <3>2, <3>3 DEF FitsRoom, Fits, Reached
  <2>3. CASE cl[d].lobby # g
    <3>1. cl'[d] = cl[d] BY <1>1, <1>2, <2>3
    <3>2. cl[d].lobby # None => rooms'[cl[d].lobby] = rooms[cl[d].lobby]
      BY <1>1, <1>3, <2>1, <2>3 DEF ClientType
    <3> QED BY <2>1, <3>1, <3>2 DEF FitsRoom
  <2> QED BY <2>2, <2>3
<1> QED BY <1>5 DEF QuestsFit

LEMMA QuestQuestLoaded ==
  ASSUME QuestInv, NEW c \in Clients, QuestLoaded(c)
  PROVE  QuestsFit(rooms', cl')
<1> DEFINE g == cl[c].lobby
           all == \A d \in Members(g) \ {c} : cl[d].hasquest
<1>1. /\ g \in GameIds /\ g \in RoomIds /\ g # None /\ cl[c].sent = "file" /\ rooms' = rooms
      /\ cl' = [d \in Clients |->
                  [cl[d] EXCEPT !.hasquest = cl[d].hasquest \/ d = c,
                                !.sent = IF all /\ d \in Members(g) THEN "go" ELSE cl[d].sent]]
  BY NoneAssumption DEF QuestLoaded, InGame, RoomIds
<1>2. Members(g) = {d \in Clients : cl[d].lobby = g}
  BY <1>1, ActorFacts, MembersNameTheirRoom
<1>3. rooms[g].quest # "none"
  BY <1>1, ActorFacts DEF FitsRoom, Fits, Reached
<1> HIDE DEF g, all
<1>4. ASSUME NEW d \in Clients PROVE FitsRoom(rooms, cl'[d])
  <2>1. cl[d] \in ClientType /\ FitsRoom(rooms, cl[d])
    BY ActorFacts DEF QuestInv, QuestsFit
  <2>2. cl'[d] = [cl[d] EXCEPT !.hasquest = cl[d].hasquest \/ d = c,
                               !.sent = IF all /\ d \in Members(g) THEN "go" ELSE cl[d].sent]
    BY <1>1
  <2>3. /\ cl'[d].lobby = cl[d].lobby /\ cl'[d].mode = cl[d].mode
        /\ cl'[d].bursting = cl[d].bursting
        /\ cl'[d].hasquest <=> cl[d].hasquest \/ d = c
        /\ cl'[d].sent = (IF all /\ d \in Members(g) THEN "go" ELSE cl[d].sent)
    BY <2>1, <2>2 DEF ClientType
  <2>4. cl[d].hasquest => cl[d].sent # "none" BY ActorFacts
  <2>5. CASE d \in Members(g)
    <3>1. cl[d].lobby = g BY <1>2, <2>5
    <3>2. cl'[d].sent # "none" \/ (cl'[d].sent = cl[d].sent /\ d # c)
      <4>1. cl'[d].sent = "go" \/ cl'[d].sent = cl[d].sent BY <2>3, Zenon
      <4>2. d = c => cl[d].sent = "file" BY <1>1
      <4> QED BY <4>1, <4>2
    <3>3. Reached(rooms[g].quest, cl'[d])
      <4>1. Reached(rooms[g].quest, cl[d]) BY <1>1, <2>1, <3>1 DEF FitsRoom, Fits
      <4> QED BY <1>3, <2>3, <3>2, <4>1 DEF Reached
    <3>4. cl'[d].hasquest => cl'[d].sent # "none" BY <2>3, <2>4, <3>2
    <3> QED BY <1>1, <2>1, <2>3, <3>1, <3>3, <3>4 DEF FitsRoom, Fits
  <2>6. CASE d \notin Members(g)
    <3>1. d # c /\ cl'[d].hasquest = cl[d].hasquest /\ cl'[d].sent = cl[d].sent
      <4>1. d # c BY <1>2, <2>6 DEF g
      <4> QED BY <2>1, <2>2, <2>6, <4>1 DEF ClientType
    <3> QED BY <2>1, <2>3, <3>1 DEF FitsRoom, Fits, Outside, Reached
  <2> QED BY <2>5, <2>6
<1> QED BY <1>1, <1>4 DEF QuestsFit

LEMMA QuestJoinLobby ==
  ASSUME QuestInv, NEW c \in Clients, JoinLobby(c)
  PROVE  QuestsFit(rooms', cl')
<1>1. PICK l \in LobbyChoices(c) :
        /\ rooms' = [rooms EXCEPT ![l] = SeatInLobby(rooms[l], c)]
        /\ cl' = [cl EXCEPT ![c] = [cl[c] EXCEPT !.lobbyOK = FALSE, !.lobby = l,
                       !.bursting = TRUE, !.clientID = FirstFree(rooms[l].slot, LobbySize)]]
  BY ZenonT(60) DEF JoinLobby
<1>2. l \in LobbyIds /\ l \in RoomIds /\ l \notin GameIds /\ l # None
  <2>1. cl[c].preferred_lobby \in Nat
    BY ActorFacts, RoomAssumption DEF ClientType, LobbyIds, AnyLobby
  <2>2. l \in LobbyIds BY <1>1, <2>1, RoomAssumption DEF LobbyChoices, LobbyIds
  <2> QED BY <2>2, NoneAssumption, RoomAssumption DEF LobbyIds, RoomIds, GameIds
<1>3. rooms \in [RoomIds -> RoomType] BY ActorFacts
<1>4. \A r \in RoomIds : rooms'[r].quest = rooms[r].quest /\ rooms'[r].kind = rooms[r].kind
  <2>1. SeatInLobby(rooms[l], c).quest = rooms[l].quest
        /\ SeatInLobby(rooms[l], c).kind = rooms[l].kind
    BY <1>2, <1>3 DEF SeatInLobby, RoomType
  <2> QED BY <1>1, <1>2, <1>3, <2>1
<1> DEFINE k == [cl[c] EXCEPT !.lobbyOK = FALSE, !.lobby = l, !.bursting = TRUE,
                              !.clientID = FirstFree(rooms[l].slot, LobbySize)]
<1>5. k.lobby = l /\ k.mode = cl[c].mode /\ k.hasquest = cl[c].hasquest /\ k.sent = cl[c].sent
  BY ActorFacts DEF ClientType
<1>6. ~cl[c].mode
  BY ActorFacts, NoneAssumption DEF JoinLobby, RoomIds
<1>7. cl' = [cl EXCEPT ![c] = k] BY <1>1
<1> HIDE DEF k
<1>8. FitsRoom(rooms', k)
  <2>1. cl[c].hasquest => cl[c].sent # "none" BY ActorFacts
  <2> QED BY <1>2, <1>5, <1>6, <2>1 DEF FitsRoom, Fits
<1>9. \A d \in Clients \ {c} : cl[d].lobby # None => cl[d].lobby \in RoomIds
  BY ActorFacts DEF ClientType
<1> QED BY <1>4, <1>7, <1>8, <1>9, OnlyOne

\* A step that changes c alone, and its room not at all.
LEMMA QuestOneClient ==
  ASSUME QuestInv, NEW c \in Clients, NEW k, rooms' = rooms, cl' = [cl EXCEPT ![c] = k],
         FitsRoom(rooms, k)
  PROVE  QuestsFit(rooms', cl')
BY OnlyOne

LEMMA QuestStep ==
  ASSUME QuestInv, NEW c \in Clients, Step(c)
  PROVE  QuestsFit(rooms', cl')
<1>0. cl[c] \in ClientType /\ Removed(c) \in ClientType /\ FitsRoom(rooms, cl[c])
  BY ActorFacts
<1>1. CASE EnterBlock(c)
  <2>1. PICK p \in LobbyIds \cup {AnyLobby} :
          cl' = [cl EXCEPT ![c] = AskLobby([cl[c] EXCEPT !.online = TRUE,
                                                         !.preferred_lobby = p])]
    BY <1>1 DEF EnterBlock
  <2> DEFINE k == AskLobby([cl[c] EXCEPT !.online = TRUE, !.preferred_lobby = p])
  <2>2. k.lobby = None /\ Outside(k)
    BY <1>0, <1>1, ActorFacts DEF AskLobby, ClientType, EnterBlock, Outside
  <2>3. rooms' = rooms /\ cl' = [cl EXCEPT ![c] = k] BY <1>1, <2>1 DEF EnterBlock
  <2> HIDE DEF k
  <2> QED BY <2>2, <2>3, OnlyOneLeft
<1>2. CASE JoinLobby(c) BY <1>2, QuestJoinLobby
<1>3. CASE NoLobbyLeft(c)
  <2> DEFINE k == [cl[c] EXCEPT !.lobbyOK = FALSE, !.bursting = TRUE]
  <2>1. cl[c].lobby = None BY <1>3, ActorFacts DEF NoLobbyLeft
  <2>2. k.lobby = None /\ Outside(k)
    BY <1>0, <2>1 DEF ClientType, Outside, FitsRoom
  <2>3. rooms' = rooms /\ cl' = [cl EXCEPT ![c] = k] BY <1>3 DEF NoLobbyLeft
  <2> HIDE DEF k
  <2> QED BY <2>2, <2>3, OnlyOneLeft
<1>4. ASSUME NEW l \in LobbyIds, ChangeLobby(c, l) PROVE QuestsFit(rooms', cl')
  <2> DEFINE k == AskLobby([Removed(c) EXCEPT !.preferred_lobby = l])
  <2>1. k.lobby = None /\ Outside(k)
    BY <1>0 DEF AskLobby, Removed, ClientType, Outside
  <2>2. rooms' = Without(c) /\ cl' = [cl EXCEPT ![c] = k] BY <1>4 DEF ChangeLobby
  <2> HIDE DEF k
  <2> QED BY <2>1, <2>2, OnlyOneLeft
<1>5. ASSUME NEW kind \in Kinds, CreateGame(c, kind) PROVE QuestsFit(rooms', cl')
  BY <1>5, QuestCreateGame
<1>6. ASSUME NEW g \in GameIds, JoinGame(c, g) PROVE QuestsFit(rooms', cl')
  BY <1>6, QuestJoinGame
<1>7. CASE BurstEndLobby(c)
  <2> DEFINE k == [cl[c] EXCEPT !.bursting = FALSE]
  <2>1. cl[c].lobby \notin GameIds
    BY <1>7, RoomAssumption DEF BurstEndLobby, LobbyIds, GameIds
  <2>2. /\ k.lobby = cl[c].lobby /\ k.mode = cl[c].mode
        /\ k.hasquest = cl[c].hasquest /\ k.sent = cl[c].sent
    BY <1>0 DEF ClientType
  <2>3. rooms' = rooms /\ cl' = [cl EXCEPT ![c] = k] BY <1>7 DEF BurstEndLobby
  <2> HIDE DEF k
  <2>4. FitsRoom(rooms, k) BY <1>0, <2>1, <2>2 DEF FitsRoom, Fits, Outside
  <2> QED BY <2>3, <2>4, QuestOneClient
<1>8. CASE BurstEndGame(c)
  <2> DEFINE quest == rooms[cl[c].lobby].quest
             k == [cl[c] EXCEPT !.bursting = FALSE]
             s == [cl[c] EXCEPT !.sent = "file"]
  <2>1. cl[c].lobby \in GameIds /\ cl[c].lobby # None /\ rooms' = rooms
    BY <1>8, NoneAssumption DEF BurstEndGame, InGame, RoomIds
  <2>2. CASE quest = "government" /\ ~cl[c].hasquest
    <3>1. cl' = [cl EXCEPT ![c] = s] BY <1>8, <2>2 DEF BurstEndGame
    <3>2. s.lobby = cl[c].lobby /\ s.mode = cl[c].mode /\ s.sent = "file"
      BY <1>0 DEF ClientType
    <3> HIDE DEF s
    <3>3. FitsRoom(rooms, s) BY <1>0, <2>1, <2>2, <3>2 DEF FitsRoom, Fits, Reached
    <3> QED BY <2>1, <3>1, <3>3, QuestOneClient
  <2>3. CASE ~(quest = "government" /\ ~cl[c].hasquest)
    <3>1. cl' = [cl EXCEPT ![c] = k] BY <1>8, <2>3 DEF BurstEndGame
    <3>2. /\ k.lobby = cl[c].lobby /\ k.mode = cl[c].mode
          /\ k.hasquest = cl[c].hasquest /\ k.sent = cl[c].sent
      BY <1>0 DEF ClientType
    <3> HIDE DEF k
    <3>3. FitsRoom(rooms, k) BY <1>0, <2>1, <2>3, <3>2 DEF FitsRoom, Fits, Reached
    <3> QED BY <2>1, <3>1, <3>3, QuestOneClient
  <2> QED BY <2>2, <2>3
<1>9. ASSUME NEW quest \in Quests \ {"none"}, StartQuest(c, quest) PROVE QuestsFit(rooms', cl')
  BY <1>9, QuestStartQuest
<1>10. CASE QuestLoaded(c) BY <1>10, QuestQuestLoaded
<1>11. CASE Disconnect(c)
  <2>1. Offline.lobby = None /\ Outside(Offline) BY DEF Offline, Outside
  <2>2. rooms' = Without(c) /\ cl' = [cl EXCEPT ![c] = Offline] BY <1>11 DEF Disconnect
  <2> QED BY <2>1, <2>2, OnlyOneLeft
<1> QED
  BY <1>1, <1>2, <1>3, <1>4, <1>5, <1>6, <1>7, <1>8, <1>9, <1>10, <1>11 DEF Step

LEMMA QuestInvNext == QuestInv /\ [Next]_vars => QuestInv'
<1>0. QuestInv' <=> AgreeInv' /\ QuestsFit(rooms', cl')
  BY DEF QuestInv, QuestsFit, FitsRoom, Fits, Outside, Reached
<1>1. ASSUME QuestInv, [Next]_vars PROVE QuestInv'
  <2>1. AgreeInv' BY <1>1, AgreeInvNext DEF QuestInv
  <2>2. QuestsFit(rooms', cl')
    <3>1. CASE Next BY <1>1, <3>1, QuestStep DEF Next
    <3>2. CASE UNCHANGED vars
      <4>1. rooms' = rooms /\ cl' = cl BY <3>2 DEF vars
      <4> QED BY <1>1, <4>1 DEF QuestInv
    <3> QED BY <1>1, <3>1, <3>2
  <2> QED BY <1>0, <2>1, <2>2
<1> QED BY <1>1

\* The inductive invariant holds in every reachable state.
THEOREM QuestInvAlways == Spec => []QuestInv
BY QuestInvInit, QuestInvNext, PTL DEF Spec

\* In every reachable state every member of a game whose quest has begun has
\* the quest, is being sent it, or will be when it reports the end of its
\* burst; and no member of another game has one (handlers of 0x10/0F, 0x6F,
\* 0xAC, Command10 and removeClientFromLobby).
THEOREM QuestAlwaysReachesMembers == Spec => []QuestReachesMembers
<1>1. QuestInv => QuestReachesMembers BY QuestInvGives
<1> QED BY <1>1, QuestInvAlways, PTL

\* In every reachable state a temporary character exists only inside a battle
\* game whose quest has begun: every way out of the game restores the
\* permanent one.
THEOREM BattleAlwaysConfined == Spec => []BattleConfined
<1>1. QuestInv => BattleConfined BY QuestInvGives
<1> QED BY <1>1, QuestInvAlways, PTL

----------------------------------------------------------------------------
(* The queue of one game                                                   *)

\* The queue holds each member once, at the place of its player number.
LEMMA QueueIs ==
  ASSUME NEW room \in RoomType, GameOrder(room)
  PROVE  LET occ == Occupied(room.slot, GameSize)
             id == room.gamePlayerID
         IN  /\ Numbers(id, occ) /\ Cardinality(occ) \in Nat /\ Cardinality(occ) <= GameSize
             /\ occ \subseteq Slots
             /\ Queue(room) \in Seq(Clients) /\ Len(Queue(room)) = Cardinality(occ)
             /\ \A k \in 1 .. Cardinality(occ) :
                  /\ Nth(id, occ, k) \in occ /\ Rank(id, occ, Nth(id, occ, k)) = k
                  /\ Queue(room)[k] = room.slot[Nth(id, occ, k)]
             /\ \A i \in occ : /\ Rank(id, occ, i) \in 1 .. Cardinality(occ)
                               /\ Queue(room)[Rank(id, occ, i)] = room.slot[i]
<1> DEFINE occ == Occupied(room.slot, GameSize)
           id == room.gamePlayerID
           n == Cardinality(occ)
<1>0. GameSize \in Nat /\ 0 .. GameSize - 1 \subseteq Slots BY RoomAssumption, SlotFacts
<1>1. IsFiniteSet(occ) /\ n \in 0 .. GameSize BY <1>0, OccupiedIsFinite
<1>2. occ \subseteq Slots /\ id \in [Slots -> Nat] BY <1>0 DEF Occupied, RoomType
<1>3. Numbers(id, occ) BY <1>1, <1>2 DEF Numbers, GameOrder
<1>4. Queue(room) = [k \in 1 .. n |-> room.slot[Nth(id, occ, k)]] BY DEF Queue
<1>5. \A i \in occ : room.slot[i] \in Clients BY <1>2 DEF Occupied, RoomType
<1> HIDE DEF occ, id, n
<1>6. \A k \in 1 .. n : Nth(id, occ, k) \in occ /\ Rank(id, occ, Nth(id, occ, k)) = k
  BY <1>3, NthIs DEF n
<1>7. Queue(room) \in Seq(Clients) /\ Len(Queue(room)) = n
  <2>1. Queue(room) \in [1 .. n -> Clients] BY <1>4, <1>5, <1>6
  <2>2. n \in Nat BY <1>0, <1>1
  <2> QED BY <1>4, <2>1, <2>2
<1>8. \A i \in occ : Rank(id, occ, i) \in 1 .. n /\ Nth(id, occ, Rank(id, occ, i)) = i
  BY <1>3, RankRange, NthOfRank DEF n
<1>9. \A k \in 1 .. n : Queue(room)[k] = room.slot[Nth(id, occ, k)] BY <1>4
<1>10. \A i \in occ : Queue(room)[Rank(id, occ, i)] = room.slot[i] BY <1>8, <1>9
<1>11. n \in Nat /\ n <= GameSize BY <1>0, <1>1
<1> QED BY <1>2, <1>3, <1>6, <1>7, <1>8, <1>9, <1>10, <1>11 DEF occ, id, n

\* The leader of a game with members is the head of its queue; the slot an
\* empty game's leader names is empty.
LEMMA LeaderIsHead ==
  ASSUME NEW room \in RoomType, GameOrder(room), Occupied(room.slot, GameSize) # {}
  PROVE  Queue(room) # <<>> /\ Head(Queue(room)) = room.slot[room.leader]
<1> DEFINE occ == Occupied(room.slot, GameSize)
           id == room.gamePlayerID
<1>1. /\ Numbers(id, occ) /\ Queue(room) \in Seq(Clients) /\ Len(Queue(room)) = Cardinality(occ)
      /\ Rank(id, occ, room.leader) \in 1 .. Cardinality(occ) /\ Cardinality(occ) \in Nat
      /\ Queue(room)[Rank(id, occ, room.leader)] = room.slot[room.leader]
  <2>1. room.leader \in occ BY DEF GameOrder
  <2> QED BY <2>1, QueueIs
<1>2. Rank(id, occ, room.leader) = 1
  <2>1. /\ room.leader \in occ /\ \A j \in occ : id[j] \in Nat
        /\ \A j \in occ \ {room.leader} : id[room.leader] < id[j]
    BY <1>1 DEF GameOrder, Numbers
  <2>2. {j \in occ : id[j] <= id[room.leader]} = {room.leader} BY <2>1
  <2> QED BY <2>2, FS_Singleton DEF Rank
<1> HIDE DEF occ, id
<1>3. Queue(room) # <<>> BY <1>1, <1>2
<1> QED BY <1>1, <1>2, <1>3

\* When a member leaves, its place in the queue goes and the others close up.
LEMMA VacateQueue ==
  ASSUME NEW room \in RoomType, GameOrder(room), NEW i \in Occupied(room.slot, GameSize)
  PROVE  LET r == Rank(room.gamePlayerID, Occupied(room.slot, GameSize), i)
         IN  /\ r \in 1 .. Len(Queue(room)) /\ Queue(room)[r] = room.slot[i]
             /\ Queue(Vacate(room, i, GameSize, TRUE)) = RemoveAt(Queue(room), r)
<1> DEFINE occ == Occupied(room.slot, GameSize)
           id == room.gamePlayerID
           n == Cardinality(occ)
           r == Rank(id, occ, i)
           q == Queue(room)
           slot == [room.slot EXCEPT ![i] = None]
           left == Occupied(slot, GameSize)
           v == Vacate(room, i, GameSize, TRUE)
<1>0. GameSize \in Nat /\ 0 .. GameSize - 1 \subseteq Slots /\ occ \subseteq Slots
  BY RoomAssumption, SlotFacts DEF Occupied
<1>1. /\ Numbers(id, occ) /\ n \in Nat /\ q \in Seq(Clients) /\ Len(q) = n
      /\ \A k \in 1 .. n : Nth(id, occ, k) \in occ /\ Rank(id, occ, Nth(id, occ, k)) = k
                           /\ q[k] = room.slot[Nth(id, occ, k)]
      /\ r \in 1 .. n /\ q[r] = room.slot[i]
  BY QueueIs
<1>2. left = occ \ {i} /\ i \in occ BY <1>0 DEF Occupied, RoomType
<1>5. \A j \in left : slot[j] = room.slot[j] BY <1>0, <1>2 DEF RoomType
<1>6. left # {} => v.slot = slot /\ v.gamePlayerID = id BY DEF Vacate, RoomType
<1>7. left = {} => v = EmptyRoom BY DEF Vacate
<1>8. Rank(id, occ, i) = r OBVIOUS
<1>9. Queue(v) = [k \in 1 .. Cardinality(Occupied(v.slot, GameSize)) |->
                    v.slot[Nth(v.gamePlayerID, Occupied(v.slot, GameSize), k)]]
  BY DEF Queue
<1>10. Occupied(slot, GameSize) = left OBVIOUS
<1> HIDE DEF occ, id, n, r, q, slot, left, v
<1>3. /\ Cardinality(left) = n - 1
      /\ \A j \in left : /\ Rank(id, left, j) =
                              IF Rank(id, occ, j) < r THEN Rank(id, occ, j) ELSE Rank(id, occ, j) - 1
                         /\ Numbers(id, left)
  <2>1. Cardinality(left) = n - 1
    <3>1. IsFiniteSet(occ) BY <1>1 DEF Numbers
    <3> QED BY <1>2, <3>1, FS_RemoveElement DEF n
  <2>2. ASSUME NEW j \in left
        PROVE  /\ Rank(id, left, j) =
                    IF Rank(id, occ, j) < r THEN Rank(id, occ, j) ELSE Rank(id, occ, j) - 1
               /\ Numbers(id, left)
    <3>1. j \in occ \ {i} BY <1>2
    <3> QED BY <1>1, <1>2, <1>8, <3>1, RankWithout
  <2> QED BY <2>1, <2>2
<1>4. RemoveAt(q, r) \in Seq(Clients) /\ Len(RemoveAt(q, r)) = n - 1
      /\ \A k \in 1 .. n - 1 : RemoveAt(q, r)[k] = IF k < r THEN q[k] ELSE q[k + 1]
  <2>1. q \in Seq(Clients) /\ r \in 1 .. Len(q) BY <1>1
  <2>2. /\ RemoveAt(q, r) \in Seq(Clients) /\ Len(RemoveAt(q, r)) = Len(q) - 1
        /\ \A k \in 1 .. Len(q) - 1 : RemoveAt(q, r)[k] = IF k < r THEN q[k] ELSE q[k + 1]
    BY <2>1, RemoveAtIs
  <2> QED BY <1>1, <2>2
<1>11. RemoveAt(q, r) = [k \in 1 .. n - 1 |-> RemoveAt(q, r)[k]] BY <1>1, <1>4
<1>12. ASSUME left = {} PROVE Queue(v) = RemoveAt(q, r)
  <2>1. v = EmptyRoom BY <1>7, <1>12
  <2>2. Occupied(v.slot, GameSize) = {} BY <1>0, <2>1, EmptyRoomOK
  <2>3. n - 1 = 0 BY <1>3, <1>12, FS_EmptySet
  <2>4. Queue(v) = [k \in 1 .. 0 |-> v.slot[Nth(v.gamePlayerID, {}, k)]]
    BY <1>9, <2>2, FS_EmptySet
  <2>5. 1 .. 0 = {} OBVIOUS
  <2>6. Queue(v) = [k \in 1 .. 0 |-> RemoveAt(q, r)[k]] BY <2>4, <2>5
  <2> QED BY <1>11, <2>3, <2>6
<1>13. ASSUME left # {} PROVE Queue(v) = RemoveAt(q, r)
  <2>1. Queue(v) = [k \in 1 .. n - 1 |-> slot[Nth(id, left, k)]]
    BY <1>3, <1>6, <1>9, <1>10, <1>13
  <2>2. ASSUME NEW k \in 1 .. n - 1
        PROVE  slot[Nth(id, left, k)] = RemoveAt(q, r)[k]
    <3> DEFINE m == IF k < r THEN k ELSE k + 1
               j == Nth(id, occ, m)
    <3>1. m \in 1 .. n /\ m # r /\ RemoveAt(q, r)[k] = q[m] BY <1>1, <1>4
    <3>2. j \in occ /\ Rank(id, occ, j) = m /\ q[m] = room.slot[j] BY <1>1, <3>1
    <3>3. j # i BY <1>8, <3>1, <3>2
    <3>4. j \in left BY <1>2, <3>2, <3>3
    <3>5. Rank(id, left, j) = k BY <1>1, <1>3, <3>1, <3>2, <3>4
    <3>6. Numbers(id, left) BY <1>3, <3>4
    <3> HIDE DEF m, j
    <3>7. Nth(id, left, k) = j BY <3>4, <3>5, <3>6, NthOfRank
    <3> QED BY <1>5, <3>1, <3>2, <3>4, <3>7
  <2> QED BY <1>11, <2>1, <2>2
<1>14. QED
  <2>1. Queue(v) = RemoveAt(q, r) BY <1>12, <1>13
  <2>2. r \in 1 .. Len(q) /\ q[r] = room.slot[i] BY <1>1
  <2> QED BY <2>1, <2>2 DEF occ, id, r, q, v

\* Whoever sits down is the last of the queue.
LEMMA SeatQueue ==
  ASSUME NEW room \in RoomType, NEW c \in Clients, GameOrder(room),
         NEW f, f \in 0 .. GameSize - 1, f = FirstFree(room.slot, GameSize), room.slot[f] = None
  PROVE  Queue(SeatInGame(room, c)) = Append(Queue(room), c)
<1> DEFINE slot == [room.slot EXCEPT ![f] = c]
           occ == Occupied(room.slot, GameSize)
           now == Occupied(slot, GameSize)
           id == room.gamePlayerID
           ids == [room.gamePlayerID EXCEPT ![f] = room.gamePlayerCount + 1]
           n == Cardinality(occ)
           q == Queue(room)
           new == SeatInGame(room, c)
<1>1. 0 .. GameSize - 1 \subseteq Slots /\ GameSize \in Nat /\ Slots \subseteq Nat
  BY SlotFacts, RoomAssumption
<1>2. new.slot = slot /\ new.gamePlayerID = ids BY DEF SeatInGame, RoomType
<1>3. now = occ \cup {f} /\ f \notin occ /\ occ \subseteq Slots
  BY <1>1, NoneAssumption DEF Occupied, RoomType
<1>4. id \in [Slots -> Nat] /\ room.gamePlayerCount \in Nat /\ f \in Slots BY <1>1 DEF RoomType
<1>5. /\ ids[f] \in Nat /\ \A j \in occ : ids[j] = id[j] /\ id[j] < ids[f]
      /\ slot[f] = c /\ \A j \in occ : slot[j] = room.slot[j]
  <2>1. \A j \in occ : id[j] <= room.gamePlayerCount BY DEF GameOrder
  <2>2. room.slot \in [Slots -> Clients \cup {None}] BY DEF RoomType
  <2>3. ids[f] = room.gamePlayerCount + 1 BY <1>4
  <2>4. \A j \in occ : ids[j] = id[j] BY <1>3, <1>4
  <2>5. slot[f] = c /\ \A j \in occ : slot[j] = room.slot[j] BY <1>3, <1>4, <2>2
  <2> HIDE DEF slot, occ, now, id, ids
  <2>6. \A j \in occ : id[j] < ids[f] BY <1>3, <1>4, <2>1, <2>3
  <2> QED BY <1>4, <2>3, <2>4, <2>5, <2>6
<1>6. /\ Numbers(id, occ) /\ n \in Nat /\ q \in Seq(Clients) /\ Len(q) = n
      /\ \A k \in 1 .. n : Nth(id, occ, k) \in occ /\ Rank(id, occ, Nth(id, occ, k)) = k
                           /\ q[k] = room.slot[Nth(id, occ, k)]
  BY QueueIs
<1>7. Queue(new) = [k \in 1 .. Cardinality(Occupied(new.slot, GameSize)) |->
                      new.slot[Nth(new.gamePlayerID, Occupied(new.slot, GameSize), k)]]
  BY DEF Queue
<1>8. Occupied(slot, GameSize) = now /\ Cardinality(occ) = n OBVIOUS
<1> HIDE DEF slot, occ, now, id, ids, n, q, new
<1>9. /\ Numbers(ids, now) /\ Cardinality(now) = n + 1
      /\ \A j \in occ : Rank(ids, now, j) = Rank(id, occ, j)
      /\ Rank(ids, now, f) = n + 1
  <2>1. f \notin occ /\ ids[f] \in Nat /\ \A j \in occ : ids[j] = id[j] /\ id[j] < ids[f]
    BY <1>3, <1>5
  <2>2. /\ Numbers(ids, occ \cup {f}) /\ Cardinality(occ \cup {f}) = Cardinality(occ) + 1
        /\ \A j \in occ : Rank(ids, occ \cup {f}, j) = Rank(id, occ, j)
        /\ Rank(ids, occ \cup {f}, f) = Cardinality(occ) + 1
    <3>1. Numbers(id, occ) BY <1>6
    <3>2. f \notin occ BY <2>1
    <3>3. ids[f] \in Nat BY <2>1
    <3>4. \A j \in occ : ids[j] = id[j] /\ id[j] < ids[f] BY <2>1
    <3> QED BY ONLY <3>1, <3>2, <3>3, <3>4, RankWith
  <2> QED BY <1>3, <1>8, <2>2
<1>10. Queue(new) = [k \in 1 .. n + 1 |-> slot[Nth(ids, now, k)]] BY <1>2, <1>7, <1>8, <1>9
<1>11. ASSUME NEW k \in 1 .. n + 1 PROVE slot[Nth(ids, now, k)] = Append(q, c)[k]
  <2>1. CASE k = n + 1
    <3>1. Nth(ids, now, k) = f BY <1>3, <1>9, <2>1, NthOfRank
    <3>2. Append(q, c)[k] = c BY <1>6, <2>1
    <3> QED BY <1>5, <3>1, <3>2
  <2>2. CASE k # n + 1
    <3>1. k \in 1 .. n BY <1>6, <2>2
    <3>2. Nth(id, occ, k) \in occ /\ Rank(ids, now, Nth(id, occ, k)) = k BY <1>6, <1>9, <3>1
    <3>3. Nth(ids, now, k) = Nth(id, occ, k) BY <1>3, <1>9, <3>2, NthOfRank
    <3>4. Append(q, c)[k] = q[k] BY <1>6, <3>1
    <3> QED BY <1>5, <1>6, <3>1, <3>2, <3>3, <3>4
  <2> QED BY <2>1, <2>2
<1>12. Append(q, c) = [k \in 1 .. n + 1 |-> Append(q, c)[k]]
  <2> DEFINE a == Append(q, c)
  <2>1. a \in Seq(Clients) /\ Len(a) = n + 1 BY <1>6, AppendProperties
  <2> HIDE DEF a
  <2>2. a = [k \in 1 .. n + 1 |-> a[k]] BY <1>6, <2>1
  <2> QED BY <2>2 DEF a
<1>13. Queue(new) = Append(q, c) BY <1>10, <1>11, <1>12
<1> QED BY <1>13 DEF q, new

\* The queue and the leader are read off the slots, the player numbers and the
\* leader's slot alone.
LEMMA SameQueue ==
  ASSUME NEW room, NEW now, now.slot = room.slot, now.gamePlayerID = room.gamePlayerID
  PROVE  Queue(now) = Queue(room)
BY DEF Queue

----------------------------------------------------------------------------
(* The games in one step                                                   *)

SameGame(room, now) ==
  now.slot = room.slot /\ now.gamePlayerID = room.gamePlayerID /\ now.leader = room.leader

OthersSame(g) == \A h \in GameIds \ {g} : SameGame(rooms[h], rooms'[h])

\* Client c sits down in game g, a room whose queue is the game's: the game's
\* own record, or the record of a new game.
SitsDown(c, g) ==
  \E room \in RoomType :
    LET f == FirstFree(room.slot, GameSize) IN
    /\ rooms'[g] = SeatInGame(room, c)
    /\ GameOrder(room)
    /\ Queue(room) = Queue(rooms[g])
    /\ f \in 0 .. GameSize - 1 /\ room.slot[f] = None

LeavesGame(c, g) ==
  /\ cl[c].lobby = g
  /\ rooms'[g] = Vacate(rooms[g], cl[c].clientID, GameSize, TRUE)

LEMMA EmptyQueue ==
  ASSUME NEW room \in RoomType, Occupied(room.slot, GameSize) = {}
  PROVE  GameOrder(room) /\ Queue(room) = <<>>
<1>1. GameOrder(room) BY DEF GameOrder
<1>2. Queue(room) \in Seq(Clients) /\ Len(Queue(room)) = Cardinality({}) BY <1>1, QueueIs
<1>3. Len(Queue(room)) = 0 BY <1>2, FS_EmptySet
<1> QED BY <1>1, <1>2, <1>3, EmptySeq

\* The games once client c has left its room: one it was in has lost it.
LEMMA WithoutGames ==
  ASSUME AgreeInv, NEW c \in Clients
  PROVE  /\ \A g \in GameIds : cl[c].lobby # g => Without(c)[g] = rooms[g]
         /\ \A g \in GameIds : cl[c].lobby = g =>
              Without(c)[g] = Vacate(rooms[g], cl[c].clientID, GameSize, TRUE)
<1>1. rooms \in [RoomIds -> RoomType] /\ None \notin RoomIds /\ GameIds \subseteq RoomIds
  BY TypeInvIsThree, NoneAssumption DEF AgreeInv, RoomIds
<1>2. \A g \in GameIds : Size(g) = GameSize BY <1>1, SizeFacts
<1> QED BY <1>1, <1>2 DEF Without

\* What one step of client c is to the games: c leaves the game it is in, c,
\* which is in none, sits down in one, or no queue and no leader changes.
LEMMA GamesStep ==
  ASSUME AgreeInv, OrderInv, NEW c \in Clients, Step(c)
  PROVE  \/ \A g \in GameIds : SameGame(rooms[g], rooms'[g])
         \/ \E g \in GameIds : OthersSame(g) /\ LeavesGame(c, g)
         \/ ~InGame(c) /\ \E g \in GameIds : OthersSame(g) /\ SitsDown(c, g)
<1> DEFINE Goal == \/ \A g \in GameIds : SameGame(rooms[g], rooms'[g])
                   \/ \E g \in GameIds : OthersSame(g) /\ LeavesGame(c, g)
                   \/ ~InGame(c) /\ \E g \in GameIds : OthersSame(g) /\ SitsDown(c, g)
<1>0. /\ TypeInv /\ GameIds \subseteq RoomIds /\ rooms \in [RoomIds -> RoomType]
      /\ Without(c) \in [RoomIds -> RoomType] /\ \A g \in GameIds : GameOrder(rooms[g])
  BY TypeInvIsThree, WithoutOK DEF AgreeInv, OrderInv, RoomIds
<1>1. CASE rooms' = rooms BY <1>1 DEF SameGame
<1>2. CASE rooms' = Without(c)
  <2>1. CASE InGame(c)
    <3>1. cl[c].lobby \in GameIds /\ OthersSame(cl[c].lobby) /\ LeavesGame(c, cl[c].lobby)
      BY <1>2, <2>1, WithoutGames DEF InGame, OthersSame, SameGame, LeavesGame
    <3> QED BY <3>1
  <2>2. CASE ~InGame(c)
    <3>1. \A g \in GameIds : rooms'[g] = rooms[g] BY <1>2, <2>2, WithoutGames DEF InGame
    <3> QED BY <3>1 DEF SameGame
  <2> QED BY <2>1, <2>2
<1>3. CASE JoinLobby(c)
  <2>1. PICK l \in LobbyChoices(c) : rooms' = [rooms EXCEPT ![l] = SeatInLobby(rooms[l], c)]
    BY <1>3 DEF JoinLobby
  <2>2. l \notin GameIds
    <3>1. cl[c].preferred_lobby \in Nat
      BY <1>0, RoomAssumption DEF TypeInv, TypeOK, ClientType, LobbyIds, AnyLobby
    <3> QED BY <2>1, <3>1, RoomAssumption DEF LobbyChoices, LobbyIds, GameIds
  <2> QED BY <1>0, <2>1, <2>2 DEF SameGame
<1>4. ASSUME NEW g \in GameIds, ~InGame(c), NEW room,
             rooms' = [Without(c) EXCEPT ![g] = room]
      PROVE  OthersSame(g) /\ rooms'[g] = room
  BY <1>0, <1>4, WithoutGames DEF InGame, OthersSame, SameGame
<1>5. ASSUME NEW kind \in Kinds, CreateGame(c, kind) PROVE Goal
  <2> DEFINE new == [EmptyRoom EXCEPT !.in_use = TRUE, !.kind = kind]
  <2>1. PICK g \in FreeGames : rooms' = [Without(c) EXCEPT ![g] = SeatInGame(new, c)]
    BY <1>5 DEF CreateGame
  <2>2. ~InGame(c) BY <1>5 DEF CreateGame
  <2>3. g \in GameIds /\ g \in RoomIds /\ ~rooms[g].in_use BY <1>0, <2>1 DEF FreeGames
  <2>4. Occupied(rooms[g].slot, GameSize) = {}
    <3>1. Size(g) = GameSize BY <2>3, SizeFacts
    <3>2. CountOK(rooms[g], Size(g), g \in GameIds) BY <1>0, <2>3, TypeInvIsThree DEF AllCountOK
    <3> QED BY <2>3, <3>1, <3>2 DEF CountOK
  <2>5. /\ new \in RoomType /\ new.slot = EmptyRoom.slot /\ new.in_use
        /\ new.lobbyCount = Cardinality(Occupied(new.slot, GameSize))
        /\ new.lobbyCount # GameSize
    BY NewGameOK
  <2> HIDE DEF new
  <2>6. Occupied(new.slot, GameSize) = {} BY <2>5, SlotFacts, RoomAssumption, EmptyRoomOK
  <2>7. Queue(new) = Queue(rooms[g]) /\ GameOrder(new)
    BY <1>0, <2>3, <2>4, <2>5, <2>6, EmptyQueue
  <2>8. /\ FirstFree(new.slot, GameSize) \in 0 .. GameSize - 1
        /\ new.slot[FirstFree(new.slot, GameSize)] = None
    BY <2>5, SeatInGameOK
  <2>9. OthersSame(g) /\ rooms'[g] = SeatInGame(new, c) BY <1>4, <2>1, <2>2, <2>3
  <2>10. SitsDown(c, g) BY <2>5, <2>7, <2>8, <2>9 DEF SitsDown
  <2> QED BY <2>2, <2>3, <2>9, <2>10
<1>6. ASSUME NEW g \in GameIds, JoinGame(c, g) PROVE Goal
  <2>1. /\ ~InGame(c) /\ Joinable(g)
        /\ rooms' = [Without(c) EXCEPT ![g] = SeatInGame(rooms[g], c)]
    BY <1>6 DEF JoinGame
  <2>2. /\ rooms[g] \in RoomType /\ FirstFree(rooms[g].slot, GameSize) \in 0 .. GameSize - 1
        /\ rooms[g].slot[FirstFree(rooms[g].slot, GameSize)] = None
    BY <1>0, <2>1, JoinableHasRoom
  <2>3. OthersSame(g) /\ rooms'[g] = SeatInGame(rooms[g], c) BY <1>4, <2>1
  <2>4. SitsDown(c, g) BY <1>0, <2>2, <2>3 DEF SitsDown
  <2> QED BY <2>1, <2>3, <2>4
<1>7. ASSUME NEW quest \in Quests, StartQuest(c, quest) PROVE Goal
  <2> DEFINE h == cl[c].lobby
  <2>1. h \in RoomIds /\ rooms' = [rooms EXCEPT ![h] = [rooms[h] EXCEPT !.quest = quest]]
    BY <1>0, <1>7 DEF StartQuest, InGame
  <2>2. \A g \in RoomIds : rooms'[g] = rooms[g] \/ rooms'[g] = [rooms[g] EXCEPT !.quest = quest]
    BY <1>0, <2>1
  <2>3. \A g \in GameIds : SameGame(rooms[g], rooms'[g])
    <3> SUFFICES ASSUME NEW g \in GameIds PROVE SameGame(rooms[g], rooms'[g]) OBVIOUS
    <3>1. g \in RoomIds /\ rooms[g] \in RoomType BY <1>0 DEF RoomIds
    <3>2. CASE rooms'[g] = rooms[g] BY <3>2 DEF SameGame
    <3>3. CASE rooms'[g] = [rooms[g] EXCEPT !.quest = quest]
      <4> DEFINE room == rooms[g]
      <4>1. room \in RoomType /\ rooms'[g] = [room EXCEPT !.quest = quest] BY <3>1, <3>3
      <4> HIDE DEF room
      <4>2. SameGame(room, rooms'[g]) BY <4>1 DEF SameGame, RoomType
      <4> QED BY <4>2 DEF room
    <3> QED BY <2>2, <3>1, <3>2, <3>3
  <2> QED BY <2>3
<1>8. EnterBlock(c) \/ NoLobbyLeft(c) \/ BurstEndLobby(c) \/ BurstEndGame(c) \/ QuestLoaded(c)
        => rooms' = rooms
  BY DEF EnterBlock, NoLobbyLeft, BurstEndLobby, BurstEndGame, QuestLoaded
<1>9. (\E l \in LobbyIds : ChangeLobby(c, l)) \/ Disconnect(c) => rooms' = Without(c)
  BY DEF ChangeLobby, Disconnect
<1> HIDE DEF Goal
<1>10. Goal BY <1>1, <1>2, <1>3, <1>5, <1>6, <1>7, <1>8, <1>9 DEF Step, Goal
<1> QED BY <1>10 DEF Goal

----------------------------------------------------------------------------
(* The queues in one step                                                  *)

Queues(rs) == [g \in GameIds |-> Queue(rs[g])]
Leaders(rs) == [g \in GameIds |-> rs[g].slot[rs[g].leader]]

LEMMA QueuesNext ==
  /\ [g \in GameIds |-> Queue(rooms[g])]' = Queues(rooms')
  /\ [g \in GameIds |-> rooms[g].slot[rooms[g].leader]]' = Leaders(rooms')
BY DEF Queues, Leaders, Queue, Occupied, Nth, Rank

\* The leader's seat, in a game with members and in one without.
LEMMA LeaderOf ==
  ASSUME NEW room \in RoomType, GameOrder(room),
         Occupied(room.slot, GameSize) = {} => \A i \in Slots : room.slot[i] = None
  PROVE  room.slot[room.leader] = IF Queue(room) = <<>> THEN None ELSE Head(Queue(room))
<1>1. CASE Occupied(room.slot, GameSize) = {}
  <2>1. room.leader \in Slots BY DEF RoomType
  <2> QED BY <1>1, <2>1, EmptyQueue
<1>2. CASE Occupied(room.slot, GameSize) # {} BY <1>2, LeaderIsHead
<1> QED BY <1>1, <1>2

\* When one game's record changes, one queue and one leader are set.
LEMMA SetsOne ==
  ASSUME NEW g \in GameIds, OthersSame(g), rooms'[g] \in RoomType, GameOrder(rooms'[g]),
         Occupied(rooms'[g].slot, GameSize) = {} => \A i \in Slots : rooms'[g].slot[i] = None
  PROVE  LET q == Queue(rooms'[g]) IN
         /\ Queues(rooms') = [Queues(rooms) EXCEPT ![g] = q]
         /\ Leaders(rooms') = [Leaders(rooms) EXCEPT ![g] = IF q = <<>> THEN None ELSE Head(q)]
<1> DEFINE q == Queue(rooms'[g])
<1>1. rooms'[g].slot[rooms'[g].leader] = IF q = <<>> THEN None ELSE Head(q) BY LeaderOf
<1>2. \A h \in GameIds \ {g} : SameGame(rooms[h], rooms'[h]) BY DEF OthersSame
<1>3. \A h \in GameIds \ {g} : Queue(rooms'[h]) = Queue(rooms[h]) BY <1>2, SameQueue DEF SameGame
<1>4. \A h \in GameIds \ {g} :
        rooms'[h].slot[rooms'[h].leader] = rooms[h].slot[rooms[h].leader]
  BY <1>2 DEF SameGame
<1> HIDE DEF q
<1>5. Queues(rooms') = [Queues(rooms) EXCEPT ![g] = q] BY <1>3 DEF Queues, q
<1>6. Leaders(rooms') = [Leaders(rooms) EXCEPT ![g] = IF q = <<>> THEN None ELSE Head(q)]
  BY <1>1, <1>4 DEF Leaders
<1> QED BY <1>5, <1>6 DEF q

\* Whoever is in a game's queue stands in that game.
LEMMA QueueMembersStandThere ==
  ASSUME AgreeInv, OrderInv, NEW g \in GameIds, NEW k \in DOMAIN Queue(rooms[g])
  PROVE  cl[Queue(rooms[g])[k]].lobby = g
<1> DEFINE occ == Occupied(rooms[g].slot, GameSize)
           i == Nth(rooms[g].gamePlayerID, occ, k)
<1>1. g \in RoomIds /\ rooms[g] \in RoomType /\ GameOrder(rooms[g])
  BY TypeInvIsThree DEF OrderInv, RoomIds
<1>2. Queue(rooms[g]) \in Seq(Clients) /\ Len(Queue(rooms[g])) = Cardinality(occ)
      /\ occ \subseteq Slots
      /\ \A m \in 1 .. Cardinality(occ) :
           Nth(rooms[g].gamePlayerID, occ, m) \in occ
           /\ Queue(rooms[g])[m] = rooms[g].slot[Nth(rooms[g].gamePlayerID, occ, m)]
  BY <1>1, QueueIs
<1>3. k \in 1 .. Cardinality(occ) BY <1>2
<1>4. i \in occ /\ i \in Slots /\ Queue(rooms[g])[k] = rooms[g].slot[i] BY <1>2, <1>3
<1>5. rooms[g].slot[i] # None BY <1>4 DEF Occupied
<1>6. Named(rooms, cl, g, i) BY <1>1, <1>4 DEF AgreeInv, Agree
<1> QED BY <1>4, <1>5, <1>6 DEF Named

\* A game without members has no client in any slot.
LEMMA EmptyGameSlots ==
  ASSUME NEW rs, NEW k, Agree(rs, k), NEW g \in GameIds, Occupied(rs[g].slot, GameSize) = {}
  PROVE  \A i \in Slots : rs[g].slot[i] = None
<1>1. g \in RoomIds /\ Size(g) = GameSize BY SizeFacts DEF RoomIds
<1>2. ASSUME NEW i \in Slots, rs[g].slot[i] # None PROVE FALSE
  <2>1. i < GameSize /\ i \in Nat /\ GameSize \in Nat
    BY <1>1, <1>2, SlotFacts, RoomAssumption DEF Agree, Named
  <2>2. i \in 0 .. GameSize - 1 BY <2>1
  <2> QED BY <1>2, <2>2 DEF Occupied
<1> QED BY <1>2

LEMMA RefinesInit == Init => Abstract!Init
<1> SUFFICES ASSUME Init PROVE Abstract!Init OBVIOUS
<1>1. ASSUME NEW g \in GameIds
      PROVE  Queue(rooms[g]) = <<>> /\ rooms[g].slot[rooms[g].leader] = None
  <2>1. rooms[g] = EmptyRoom /\ EmptyRoom \in RoomType BY EmptyRoomOK DEF Init, RoomIds
  <2>2. Occupied(EmptyRoom.slot, GameSize) = {} BY SlotFacts, RoomAssumption, EmptyRoomOK
  <2>3. EmptyRoom.slot[EmptyRoom.leader] = None BY SlotFacts DEF EmptyRoom
  <2> QED BY <2>1, <2>2, <2>3, EmptyQueue
<1> QED BY <1>1 DEF Abstract!Init

\* One step of a client is a step of the queues, or leaves them as they are.
LEMMA RefinesStep ==
  ASSUME AgreeInv, OrderInv, OrderInv', NEW c \in Clients, Step(c)
  PROVE  [Abstract!Next]_(Abstract!vars)
<1> DEFINE P == Queues(rooms)
           Q == Queues(rooms')
           L == Leaders(rooms)
           M == Leaders(rooms')
           SetTo(g, q) ==
             /\ Q = [P EXCEPT ![g] = q]
             /\ M = [L EXCEPT ![g] = IF q = <<>> THEN None ELSE Head(q)]
           Enters(g) ==
             /\ \A h \in GameIds : ~\E k \in DOMAIN P[h] : P[h][k] = c
             /\ Len(P[g]) < GameSize /\ SetTo(g, Append(P[g], c))
           Leaves(g) == \E k \in DOMAIN P[g] : P[g][k] = c /\ SetTo(g, RemoveAt(P[g], k))
<1>1. /\ GameIds \subseteq RoomIds /\ TypeInv
      /\ \A g \in GameIds : /\ rooms[g] \in RoomType /\ GameOrder(rooms[g])
                            /\ P[g] = Queue(rooms[g]) /\ Q[g] = Queue(rooms'[g])
  BY TypeInvIsThree DEF OrderInv, RoomIds, Queues
<1>2. \A g \in GameIds : rooms'[g] \in RoomType /\ GameOrder(rooms'[g])
  BY <1>1, TypeInvIsThreeNext DEF OrderInv, GameOrder, Occupied
<1>3. Agree(rooms', cl') BY AgreeStep
<1>4. ASSUME NEW g \in GameIds, OthersSame(g) PROVE SetTo(g, Queue(rooms'[g]))
  <2>1. Occupied(rooms'[g].slot, GameSize) = {} => \A i \in Slots : rooms'[g].slot[i] = None
    BY <1>3, EmptyGameSlots
  <2> QED BY <1>2, <1>4, <2>1, SetsOne
<1>5. ASSUME \A g \in GameIds : SameGame(rooms[g], rooms'[g]) PROVE Q = P /\ M = L
  <2>1. \A g \in GameIds : Queue(rooms'[g]) = Queue(rooms[g]) BY <1>5, SameQueue DEF SameGame
  <2>2. Q = P BY <2>1 DEF Queues
  <2>3. M = L BY <1>5 DEF Leaders, SameGame
  <2> QED BY <2>2, <2>3
<1>6. ASSUME NEW g \in GameIds, OthersSame(g), LeavesGame(c, g) PROVE Q # P /\ Leaves(g)
  <2> DEFINE i == cl[c].clientID
             r == Rank(rooms[g].gamePlayerID, Occupied(rooms[g].slot, GameSize), i)
  <2>1. i \in Occupied(rooms[g].slot, GameSize) /\ rooms[g].slot[i] = c
    <3>1. Seated(rooms, cl, c) /\ cl[c].lobby = g /\ Size(g) = GameSize /\ g # None
      BY <1>1, <1>6, SizeFacts, NoneAssumption DEF AgreeInv, Agree, LeavesGame
    <3>2. i < GameSize /\ rooms[g].slot[i] = c BY <3>1 DEF Seated
    <3>3. i \in Slots /\ Slots \subseteq Nat /\ GameSize \in Nat
      BY <1>1, SlotFacts, RoomAssumption DEF TypeInv, TypeOK, ClientType
    <3>4. i \in Nat BY <3>3
    <3> HIDE DEF i
    <3>5. i \in 0 .. GameSize - 1 BY <3>2, <3>3, <3>4
    <3> QED BY <3>2, <3>5, NoneAssumption DEF Occupied
  <2>2. r \in 1 .. Len(P[g]) /\ P[g][r] = c /\ Q[g] = RemoveAt(P[g], r)
    BY <1>1, <1>6, <2>1, VacateQueue, ZenonT(60) DEF LeavesGame
  <2>3. P[g] \in Seq(Clients) BY <1>1, QueueIs
  <2> HIDE DEF r, P, Q
  <2>4. Len(RemoveAt(P[g], r)) = Len(P[g]) - 1 BY <2>2, <2>3, RemoveAtIs
  <2>5. Q[g] # P[g] BY <2>2, <2>3, <2>4
  <2>6. SetTo(g, Q[g]) BY <1>1, <1>4, <1>6
  <2>7. r \in DOMAIN P[g] BY <2>2, <2>3
  <2> QED BY <2>2, <2>5, <2>6, <2>7
<1>7. ASSUME NEW g \in GameIds, OthersSame(g), SitsDown(c, g), ~InGame(c)
      PROVE  Q # P /\ Enters(g)
  <2>1. PICK room \in RoomType :
          /\ rooms'[g] = SeatInGame(room, c) /\ GameOrder(room) /\ Queue(room) = P[g]
          /\ FirstFree(room.slot, GameSize) \in 0 .. GameSize - 1
          /\ room.slot[FirstFree(room.slot, GameSize)] = None
    BY <1>1, <1>7 DEF SitsDown
  <2>2. Q[g] = Append(P[g], c) BY <1>1, <2>1, SeatQueue
  <2>3. P[g] \in Seq(Clients) /\ Len(Q[g]) <= GameSize
    <3>1. P[g] \in Seq(Clients) BY <1>1, QueueIs
    <3>2. Len(Queue(rooms'[g])) = Cardinality(Occupied(rooms'[g].slot, GameSize))
          /\ Cardinality(Occupied(rooms'[g].slot, GameSize)) <= GameSize
      BY <1>2, QueueIs
    <3> QED BY <1>1, <3>1, <3>2
  <2>4. \A h \in GameIds : ~\E k \in DOMAIN P[h] : P[h][k] = c
    BY <1>1, <1>7, QueueMembersStandThere DEF InGame
  <2>5. SetTo(g, Q[g]) BY <1>1, <1>4, <1>7
  <2> HIDE DEF P, Q
  <2>6. Len(Q[g]) = Len(P[g]) + 1 /\ Len(P[g]) \in Nat BY <2>2, <2>3, AppendProperties
  <2>7. GameSize \in Nat BY RoomAssumption
  <2> QED BY <2>2, <2>3, <2>4, <2>5, <2>6, <2>7
<1>8. /\ [g \in GameIds |-> Queue(rooms[g])]' = Q /\ [g \in GameIds |-> Queue(rooms[g])] = P
      /\ [g \in GameIds |-> rooms[g].slot[rooms[g].leader]]' = M
      /\ [g \in GameIds |-> rooms[g].slot[rooms[g].leader]] = L
  BY QueuesNext DEF Queues, Leaders
<1> HIDE DEF P, Q, L, M
<1>9. (Q = P /\ M = L) \/ (Q # P /\ \E g \in GameIds : Enters(g) \/ Leaves(g))
  <2> HIDE DEF Enters, Leaves
  <2> QED BY <1>5, <1>6, <1>7, GamesStep
<1>10. CASE Q = P /\ M = L BY <1>8, <1>10 DEF Abstract!vars
<1>11. CASE Q # P /\ \E g \in GameIds : Enters(g) \/ Leaves(g)
  <2>1. PICK g \in GameIds : Enters(g) \/ Leaves(g) BY <1>11
  <2>2. CASE Enters(g)
    <3>1. Abstract!Enter(c, g)
      BY <1>8, <2>2, ZenonT(60) DEF Abstract!Enter, Abstract!Free, Abstract!InParty, Abstract!Set
    <3> QED BY <1>8, <1>11, <3>1 DEF Abstract!Next
  <2>3. CASE Leaves(g)
    <3>1. Abstract!Leave(c, g) BY <1>8, <2>3 DEF Abstract!Leave, Abstract!Set,
         RemoveAt, Abstract!RemoveAt
    <3> QED BY <1>8, <1>11, <3>1 DEF Abstract!Next
  <2> QED BY <2>1, <2>2, <2>3
<1> QED BY <1>9, <1>10, <1>11

LEMMA RefinesNext == AgreeInv /\ OrderInv /\ OrderInv' /\ [Next]_vars => [Abstract!Next]_(Abstract!vars)
<1> SUFFICES ASSUME AgreeInv, OrderInv, OrderInv', [Next]_vars
             PROVE  [Abstract!Next]_(Abstract!vars)
  OBVIOUS
<1>1. CASE Next BY <1>1, RefinesStep DEF Next
<1>2. CASE UNCHANGED vars
  <2>1. rooms' = rooms BY <1>2 DEF vars
  <2> QED BY <2>1, QueuesNext DEF Abstract!vars, Queues, Leaders
<1> QED BY <1>1, <1>2

\* The rooms of a block implement the queues of Party, for any number of
\* clients, lobbies, games and seats: a game is its players in the order they
\* came, the head of them leads, and a client enters one game at a time.
THEOREM LobbyImplementsParty == Spec => ImplementsParty
<1>1. Spec => []AgreeInv BY AgreeInvAlways
<1>2. Spec => []OrderInv BY OrderInvInit, OrderInvNext, PTL DEF Spec
<1> QED BY <1>1, <1>2, RefinesInit, RefinesNext, PTL DEF Spec, ImplementsParty, Abstract!Spec
=============================================================================

----------------------------- MODULE LobbyParty -----------------------------
(***************************************************************************)
(* The rooms of Lobby implement the queues of Party: slots are reused and  *)
(* the leader is found by comparing player numbers, but what the players   *)
(* see is a queue with its head in the lead.                               *)
(***************************************************************************)
EXTENDS Lobby, Ranking

\* The members of a game in the order of their player numbers.
Queue(room) ==
  LET taken == Occupied(room.slot, GameSize)
  IN  [k \in 1 .. Cardinality(taken) |-> room.slot[Nth(room.gamePlayerID, taken, k)]]

Abstract == INSTANCE Party WITH
  Games <- GameIds,
  Capacity <- GameSize,
  party <- [g \in GameIds |-> Queue(rooms[g])],
  leader <- [g \in GameIds |-> rooms[g].slot[rooms[g].leader]]

\* Every run of the rooms is, seen through the players' eyes, a run of the
\* queues: games fill in order, a leaver makes room for others, and the lead
\* always passes to the player who has been in the game longest.
ImplementsParty == Abstract!Spec
=============================================================================

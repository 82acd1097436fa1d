------------------------------- MODULE Party -------------------------------
(***************************************************************************)
(* What the game rooms of a block promise their players: a game is a queue *)
(* of the players in it, in the order they joined; its leader is the head  *)
(* of the queue; nobody is in two games; a full game admits nobody.        *)
(***************************************************************************)
EXTENDS Naturals, Sequences, SequencesExt

CONSTANTS Clients, Games, Capacity, None

VARIABLES party,   \* the players of each game, in the order they joined
          leader   \* the leader of each game, None of an empty one

vars == <<party, leader>>

InParty(c, g) == LET queue == party[g] IN \E i \in DOMAIN queue : queue[i] = c
Free(c) == \A g \in Games : ~InParty(c, g)

Init ==
  /\ party = [g \in Games |-> <<>>]
  /\ leader = [g \in Games |-> None]

Set(g, queue) ==
  /\ party' = [party EXCEPT ![g] = queue]
  /\ leader' = [leader EXCEPT ![g] = IF queue = <<>> THEN None ELSE Head(queue)]

Enter(c, g) ==
  /\ Free(c) /\ Len(party[g]) < Capacity
  /\ Set(g, Append(party[g], c))

Leave(c, g) ==
  \E i \in DOMAIN party[g] : party[g][i] = c /\ Set(g, RemoveAt(party[g], i))

\* A player enters a game or leaves one, and its queue is another.
Next ==
  /\ party' # party
  /\ \E c \in Clients, g \in Games : Enter(c, g) \/ Leave(c, g)

Spec == Init /\ [][Next]_vars
=============================================================================

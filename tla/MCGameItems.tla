---------------------------- MODULE MCGameItems ----------------------------
(* A game of two seats and two players.                                    *)
EXTENDS GameItems, TLC

CONSTANTS p1, p2

MCPlayers == {p1, p2}
Symmetry == Permutations(MCPlayers)

\* What the future depends on: Join gives a player's items their ids and clears
\* its offer, and the first one to join sets the counters.
View ==
  <<[p \in Players |-> IF Here(p) THEN <<inv[p], tekked[p]>>
                       ELSE [i \in 1 .. Len(inv[p]) |-> [inv[p][i] EXCEPT !.id = 0]]],
    IF \E p \in Players : Here(p) THEN <<itemID, playerItemID>> ELSE <<>>,
    blanks, tail, bank, seat, floor, list, made, blanked, doubled>>
=============================================================================

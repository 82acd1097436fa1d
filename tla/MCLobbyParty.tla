--------------------------- MODULE MCLobbyParty ---------------------------
(* A lobby of two seats and a game of three, with three clients. *)
EXTENDS LobbyParty, TLC

CONSTANTS c1, c2, c3

MCClients == {c1, c2, c3}
Symmetry == Permutations(MCClients)
=============================================================================

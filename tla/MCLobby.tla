------------------------------ MODULE MCLobby ------------------------------
(* A block of two one-seat lobbies and two games of three, with three clients. *)
EXTENDS Lobby, TLC

CONSTANTS c1, c2, c3

MCClients == {c1, c2, c3}
Symmetry == Permutations(MCClients)
=============================================================================

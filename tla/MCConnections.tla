--------------------------- MODULE MCConnections ---------------------------
(* A table of three slots, two addresses of which each may hold two. *)
EXTENDS Connections

CONSTANTS a1, a2, ship, block1, block2

MCAddresses == {a1, a2}
ShipServices == {ship, block1, block2}
ShipBlocks == {block1, block2}
=============================================================================

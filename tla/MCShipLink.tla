----------------------------- MODULE MCShipLink -----------------------------
(* Two ships that have been given one key, and three slots to connect to.  *)
EXTENDS ShipLink

CONSTANTS h1, h2

TwoShips == {h1, h2}
MCLinks == {1, 2, 3}
OneKey == [h \in Ships |-> h1]
=============================================================================

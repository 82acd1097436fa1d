----------------------------- MODULE MCNetwork -----------------------------
(* One account with two sockets and two things to gain; one ship with a key of
   its own and two slots to connect to; a ship's table of three slots and a
   login server's of four, two addresses of which each may hold two; two clients
   to patch who share an address, files in three folders and one of them empty. *)
EXTENDS Network

CONSTANTS s1, s2, g1, g2, h1, a1, a2, ship, block1, block2, login, character, c1, c2

MCConns == {s1, s2}
MCGains == {g1, g2}
OneShip == {h1}
MCLinks == {1, 2}
OwnKeys == [h \in Ships |-> h]

MCAddresses == {a1, a2}
ShipServices == {ship, block1, block2}
ShipBlocks == {block1, block2}
MCLoginServices == {login, character}

MCPatchers == {c1, c2}
MCTree == <<[folder |-> <<"data","scene">>, size |-> 2], [folder |-> <<"data">>, size |-> 0], [folder |-> <<>>, size |-> 1]>>
MCDisks == {<<"old","none","old">>}
=============================================================================

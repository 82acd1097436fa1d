---------------------------- MODULE MCCharSave ----------------------------
(* Two sockets, two things to gain, two logins and one break of the link. *)
EXTENDS CharSave

CONSTANTS s1, s2, g1, g2

MCConns == {s1, s2}
MCGains == {g1, g2}
=============================================================================

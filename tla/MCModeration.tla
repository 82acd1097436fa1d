---------------------------- MODULE MCModeration ----------------------------
(* A GM and a player who share an address and a machine. *)
EXTENDS Moderation

CONSTANTS gm, g1, ip1, hw1

MCGuilds == {gm, g1}
MCGMs == {gm}
MCIPs == {ip1}
MCHardware == {hw1}
=============================================================================

----------------------------- MODULE MCDownloads -----------------------------
(* Two clients of two accounts that have cards of their own, two files in two
   pieces. *)
EXTENDS Downloads

CONSTANTS acc1, acc2, c1, c2

MCCallers == {c1, c2}
MCOwners == {acc1, acc2}
MCParamSizes == <<2, 4>>
MCAlbums == {[x \in MCOwners |-> IF x = acc1 THEN <<>> ELSE <<"card">>], [x \in MCOwners |-> <<"card">>]}
=============================================================================

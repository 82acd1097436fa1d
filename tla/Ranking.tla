------------------------------ MODULE Ranking ------------------------------
(***************************************************************************)
(* Finite sets in the order of a number their elements bear, and the part  *)
(* of a sequence at given places.  Written without recursion, so that what *)
(* they are can be proved (RankingProofs).                                 *)
(***************************************************************************)
EXTENDS Integers, Sequences, FiniteSets

\* The place of i in S, when f numbers the elements of S.
Rank(f, S, i) == Cardinality({j \in S : f[j] <= f[i]})

\* The element of S at place k.
Nth(f, S, k) == CHOOSE i \in S : Rank(f, S, i) = k

\* The elements of s at the places in K, in the order they have in s.
Kept(s, K) ==
  [k \in 1 .. Cardinality(K) |-> s[Nth([i \in K |-> i], K, k)]]
=============================================================================

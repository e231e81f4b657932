---------------------------- MODULE MCSocketTable ----------------------------
(***************************************************************************)
(* TLC instance of SocketTable.  No action and no property reads result,   *)
(* so states that differ in it only count as one.                          *)
(***************************************************************************)
EXTENDS SocketTable

Symmetry == Permutations(Contexts) \cup Permutations(Addrs)
View == <<table, conn>>
==============================================================================

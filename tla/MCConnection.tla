----------------------------- MODULE MCConnection -----------------------------
(***************************************************************************)
(* Connection for TLC: calls of one kind are interchangeable.              *)
(***************************************************************************)
EXTENDS Connection

Symmetry == Permutations(Sends) \cup Permutations(Streams)
===============================================================================

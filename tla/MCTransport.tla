----------------------------- MODULE MCTransport -----------------------------
(***************************************************************************)
(* Transport for TLC: the greenlets of each kind are interchangeable.      *)
(***************************************************************************)
EXTENDS Transport, TLC

Symmetry ==
  Permutations(Users) \cup Permutations(Apps) \cup Permutations(Checkers)
    \cup Permutations(Deferreds)
===============================================================================

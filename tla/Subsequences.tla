----------------------------- MODULE Subsequences -----------------------------
(***************************************************************************)
(* The elements of a sequence that are in a set, in their order: SelectSeq *)
(* for a set instead of a test, as a recursive function.                   *)
(***************************************************************************)
EXTENDS Sequences, Integers

\* How far a selection from s has come after each of its elements.
Selected(s, T) ==
  LET upto[n \in Nat] ==
        IF n = 0 THEN <<>>
        ELSE IF s[n] \in T THEN Append(upto[n - 1], s[n]) ELSE upto[n - 1]
  IN upto

Only(s, T) == Selected(s, T)[Len(s)]
===============================================================================

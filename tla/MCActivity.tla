------------------------------ MODULE MCActivity ------------------------------
(* Activity and Reports for TLC: the constants are given in MCActivity*.cfg. *)
EXTENDS Reports, TLC

CONSTANTS a, b, w1, w2

\* Users and transactions are interchangeable.
Symmetry == Permutations({a, b} \cap Users) \cup Permutations(Workers)
=============================================================================

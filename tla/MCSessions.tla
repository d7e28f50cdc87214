------------------------------ MODULE MCSessions ------------------------------
(* Sessions for TLC: the constants are given in MCSessions*.cfg. *)
EXTENDS Sessions, TLC

CONSTANTS d1, d2, m1, m2, w1, w2

\* Devices, accounts and requests are interchangeable.
Symmetry ==
  Permutations(Devices) \cup Permutations(Accounts) \cup Permutations(Workers)
=============================================================================

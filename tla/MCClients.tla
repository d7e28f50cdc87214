------------------------------- MODULE MCClients -------------------------------
(* Clients for TLC: the constants are given in MCClients*.cfg. *)
EXTENDS Clients, TLC

CONSTANTS p1, p2, p3

\* Processes are interchangeable.
Symmetry == Permutations(Procs)
=============================================================================

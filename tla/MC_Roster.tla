------------------------------ MODULE MC_Roster ------------------------------
(* Two clients that come and go.                                           *)
EXTENDS Roster

CONSTANTS c1, c2

ClientSymmetry == Permutations(Clients)
=============================================================================

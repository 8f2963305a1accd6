--------------------------- MODULE MC_Progression ---------------------------
(* One object or two, a host and one or two clients that are alike.        *)
EXTENDS Progression

CONSTANTS h, c1, c2, o1, o2

Symmetry == Permutations(Clients) \cup Permutations(Objects)
=============================================================================

--------------------------- MODULE MC_ObjectFrames ---------------------------
(* Two maps, and players who walk between them or stay where they are.  No *)
(* map is special, so exchanging them changes nothing.                     *)
EXTENDS ObjectFrames

CONSTANTS m1, m2

MapSymmetry == Permutations(Maps)
=============================================================================

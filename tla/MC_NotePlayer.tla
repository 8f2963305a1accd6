--------------------------- MODULE MC_NotePlayer ---------------------------
(* Three maps, two of them in one level, and three notes: two in one map,  *)
(* one in the map beside it, so that a level's total spans maps.           *)
EXTENDS NotePlayer, TLC

CONSTANTS n1, n2, n3, caves, mound, snow, spiral, freezeezy

MCMapOf == n1 :> mound @@ n2 :> mound @@ n3 :> caves
MCLevelOf == mound :> spiral @@ caves :> spiral @@ snow :> freezeezy
=============================================================================

--------------------------- MODULE MC_NoteRelay ---------------------------
(* Two notes in two maps and one client that may come back: batches and    *)
(* snapshots of both maps mix.                                             *)
EXTENDS NoteRelay

CONSTANTS n1, n2, m1, m2, c1

MCMapOf == n1 :> m1 @@ n2 :> m2
=============================================================================

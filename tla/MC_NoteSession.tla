-------------------------- MODULE MC_NoteSession --------------------------
(* One note, in one of two maps of different levels or in the only map;    *)
(* saves of any content, or a note in the save of the host.                *)
EXTENDS NoteSession

CONSTANTS n1, mound, snow, spiral, freezeezy, c1

OneNote == n1 :> mound
OneLevel == mound :> spiral
MCSaveFiles == [Players -> SUBSET Notes]
HostSaves == {[p \in Players |-> IF p = Host THEN {n1} ELSE {}]}
MCLevelOf == mound :> spiral @@ snow :> freezeezy
=============================================================================

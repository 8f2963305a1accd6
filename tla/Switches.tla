------------------------------ MODULE Switches -------------------------------
(***************************************************************************)
(* What has a position and is set by the game: the flags of a map (MAP),   *)
(* in the flag hooks of world.c, and the phases of a boss (PHASE), in      *)
(* boss.c, as operators over the positions s of one player's game.  A hook *)
(* reports a change and not a re-assertion, and a received change is       *)
(* assigned.  They differ in the receiver: a phase is assigned in its own  *)
(* map only, a flag wherever the player is by then.  The flags of the save *)
(* file have a second writer, the mirror of progress.c, and are not here.  *)
(***************************************************************************)
EXTENDS Company

CONSTANT Positions

ASSUME SwitchesAssumption == Positions # {}

Kinds == {"MAP", "PHASE"}

SwitchRecords == [Kinds -> Positions]

AtRest == CHOOSE v \in Positions : TRUE

(* A map just loaded.                                                      *)
AllAtRest == [k \in Kinds |-> AtRest]

(* What the hook reports when the game sets k to v.                        *)
SwitchReport(s, k, v, map) ==
  IF s[k] = v THEN <<>> ELSE <<Event(k, map, v, Nobody)>>

(* A mutated form: only a switch at rest is set.                           *)
ApplySwitchOnce(s, map, e) ==
  IF e.kind \in Kinds /\ s[e.kind] = AtRest
    THEN [s EXCEPT ![e.kind] = e.a] ELSE s

(* bc_apply_event of a flag; boss_apply_state, if it is about this map.    *)
ApplySwitch(s, map, e) ==
  IF e.kind \in Kinds /\ (e.kind = "PHASE" => e.map = map)
    THEN [s EXCEPT ![e.kind] = e.a] ELSE s
=============================================================================

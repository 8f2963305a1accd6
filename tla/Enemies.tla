------------------------------- MODULE Enemies -------------------------------
(***************************************************************************)
(* The enemies in one player's map, as far as they can be hurt and killed  *)
(* (enemy.c), as operators over a record e:                                *)
(*   hp       the strength left in this player's copy of each enemy, 0     *)
(*            once it is gone: the game's own state                        *)
(*   dead     s_dead_ids                                                   *)
(*   listed   s_live_ids: those seen in the last frame                     *)
(*   tracked  s_tracked_map, Nobody if there is none                       *)
(* Enemies are identified by their spawn index, which is the map's: the    *)
(* same ids name other enemies in another map.  The lists hold 64 ids and  *)
(* do not fill here.                                                       *)
(***************************************************************************)
EXTENDS Company

CONSTANTS
  Ids,
  MaxHp    \* bound: what an enemy can take

ASSUME EnemiesAssumption ==
  /\ IsFiniteSet(Ids)
  /\ MaxHp \in Nat \ {0}

EnemyRecords == [hp : [Ids -> 0 .. MaxHp], dead : SUBSET Ids,
                 listed : SUBSET Ids, tracked : Maps \cup {Nobody}]

Standing(e) == {i \in Ids : e.hp[i] > 0}

AllUp == [i \in Ids |-> MaxHp]

(* A session under way in map: one frame has passed.                       *)
EnemiesAt(map) == [hp |-> AllUp, dead |-> {}, listed |-> Ids, tracked |-> map]

(* The game has loaded a map: its enemies are there again.                 *)
EnemiesAfterLoad(e) == [e EXCEPT !.hp = AllUp]

(* A hit, by the player or replayed: the game's own damage handler.        *)
Damage(e, i) == [e EXCEPT !.hp[i] = IF @ > 0 THEN @ - 1 ELSE 0]

(* bc_apply_event in map: a hit is replayed (enemy_apply_hit), a death     *)
(* noted (enemy_mark_dead), if they are about this map.                    *)
ApplyFight(e, map, ev) ==
  CASE ev.kind = "HIT" /\ ev.map = map -> Damage(e, ev.a)
    [] ev.kind = "DEAD" /\ ev.map = map -> [e EXCEPT !.dead = @ \cup {ev.a}]
    [] OTHER -> e

(* enemy_reset.                                                            *)
EnemyReset(e) == [e EXCEPT !.dead = {}, !.listed = {}, !.tracked = Nobody]

(* A mutated form: what was seen in the last map is compared with what is  *)
(* seen in this one.                                                       *)
ForMapAlways(e, map) == [e EXCEPT !.tracked = map]

(* Everything is forgotten when the map is not the one that was tracked.   *)
ForMap(e, map) ==
  IF map = e.tracked THEN e ELSE [EnemyReset(e) EXCEPT !.tracked = map]

(***************************************************************************)
(* enemy_sync in map: copies of enemies known dead are despawned on sight, *)
(* and whatever was seen in the last frame and is not there any more has   *)
(* died here: it is noted and announced.                                   *)
(***************************************************************************)
EnemySync(e, map) ==
  LET now     == ForMap(e, map)
      seen    == Standing(now)
      missing == now.listed \ (seen \cup now.dead)
  IN [enemies |-> [now EXCEPT !.hp = [i \in Ids |->
                                        IF i \in now.dead THEN 0 ELSE @[i]],
                              !.dead = @ \cup missing,
                              !.listed = seen],
      says |-> SetToSeq({Event("DEAD", map, i, Nobody) : i \in missing})]
=============================================================================

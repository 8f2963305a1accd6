------------------------------ MODULE NoteWorld ------------------------------
(***************************************************************************)
(* The music notes of ONE player's game, and what the mod does to them.    *)
(* Pure operators over a record w: the actions of NotePlayer (one player   *)
(* against any network) and of NoteSession (several players and the        *)
(* transport) are built from them.                                         *)
(*                                                                         *)
(* A note is recorded in two places, and the mod has to keep them in step: *)
(* the session's record of it (s_note_bits, w.marked) and the counter the  *)
(* HUD shows (ITEM_C_NOTE).  The counter is modelled as a bag: credit[n]   *)
(* is how often the counter was bumped for note n in the level being       *)
(* played, so the number on the HUD is the sum over all notes.             *)
(*                                                                         *)
(*   map      the map being played (bc_map_id)                             *)
(*   cubes    the map's cube list is populated (sCubeList.cubes != NULL)   *)
(*   alive    the notes whose prop stands in the map (spriteProp.unk8_4)   *)
(*   taken    the notes this player picked up: the game's own save of      *)
(*            them, which keeps their props from coming back               *)
(*   marked   the notes the mod has recorded (s_note_bits)                 *)
(*   credit   the bag of notes behind the counter of the current level     *)
(*   swept    the map last swept (s_swept_map), NoMap for the sentinel     *)
(*   recount  a recount of the level is due (s_recount_pending)            *)
(***************************************************************************)
EXTENDS Integers, FiniteSets, Functions

CONSTANTS
  Notes,    \* the static notes, identified by (map, index)
  Maps,
  Levels,
  MapOf,    \* the map a note stands in
  LevelOf,  \* the level a map belongs to
  NoMap     \* 0xFFFFFFFF, and "no map known"

ASSUME NoteWorldAssumption ==
  /\ MapOf \in [Notes -> Maps]
  /\ LevelOf \in [Maps -> Levels]
  /\ NoMap \notin Maps
  /\ IsFiniteSet(Notes)

NotesIn(m) == {n \in Notes : MapOf[n] = m}
NotesOfLevel(l) == {n \in Notes : LevelOf[MapOf[n]] = l}

(* The bag that holds each note of S once.                                 *)
Once(S) == [n \in Notes |-> IF n \in S THEN 1 ELSE 0]

World ==
  [map : Maps, cubes : BOOLEAN, alive : SUBSET Notes, taken : SUBSET Notes,
   marked : SUBSET Notes, credit : [Notes -> Nat],
   swept : Maps \cup {NoMap}, recount : BOOLEAN]

(* A mirror of the host's notes (bc_progress.note_map and note_bits).      *)
Mirror == {r \in [map : Maps, bits : SUBSET Notes] : r.bits \subseteq NotesIn(r.map)}
NoMirror == [map |-> NoMap, bits |-> {}]

(* A mutated form: the sweep's sentinel is left out of the initialiser and *)
(* starts as 0, which names neither a map nor the absence of one.          *)
FreshWorldZeroed(m, saved) ==
  [map |-> m, cubes |-> FALSE, alive |-> {}, taken |-> saved, marked |-> {},
   credit |-> Once(saved \cap NotesOfLevel(LevelOf[m])),
   swept |-> 0, recount |-> FALSE]

(* A game just started in map m, with the notes of saved in its save file. *)
FreshWorld(m, saved) ==
  [map |-> m, cubes |-> FALSE, alive |-> {}, taken |-> saved, marked |-> {},
   credit |-> Once(saved \cap NotesOfLevel(LevelOf[m])),
   swept |-> NoMap, recount |-> FALSE]

-----------------------------------------------------------------------------
(* The game.                                                               *)

(***************************************************************************)
(* The game loads map m, another one or, after a death, the one it is in:  *)
(* the old cube list is torn down.  A new level calls itemscore_levelReset,*)
(* which zeroes the counter and restores what this player has saved; the   *)
(* mod's hook asks for a recount.                                          *)
(***************************************************************************)
EnterMap(w, m) ==
  LET newLevel == LevelOf[m] # LevelOf[w.map] IN
  [w EXCEPT !.map = m, !.cubes = FALSE, !.alive = {},
            !.credit = IF newLevel
                         THEN Once(w.taken \cap NotesOfLevel(LevelOf[m]))
                         ELSE @,
            !.recount = @ \/ newLevel]

(* A save file in which S is taken is loaded at file select, and the game  *)
(* begins in map m: the counter is made up anew, the record stays.         *)
LoadSave(w, m, S) ==
  [w EXCEPT !.map = m, !.cubes = FALSE, !.alive = {}, !.taken = S,
            !.credit = Once(S \cap NotesOfLevel(LevelOf[m])),
            !.recount = TRUE]

(* The cube list appears: every note but those the save holds stands.      *)
LoadCubes(w) ==
  [w EXCEPT !.cubes = TRUE, !.alive = NotesIn(w.map) \ w.taken]

(* A mutated form: the hook does not record the pickup.                    *)
PickUpUnmarked(w, n) ==
  [w EXCEPT !.alive = @ \ {n}, !.taken = @ \cup {n}, !.credit[n] = @ + 1]

(* The player touches note n: the game counts it, the hook records it.     *)
PickUp(w, n) ==
  [w EXCEPT !.alive = @ \ {n}, !.taken = @ \cup {n},
            !.marked = @ \cup {n}, !.credit[n] = @ + 1]

-----------------------------------------------------------------------------
(* The mod, once per frame (world_apply).                                  *)

(* Mutated forms: the grant forgets that a note may be recorded already;   *)
(* the grant forgets to ask which level the note is of.                    *)
GrantAlways(w, batch) ==
  [w EXCEPT !.marked = @ \cup batch,
            !.credit = [n \in Notes |->
               IF n \in batch \cap NotesOfLevel(LevelOf[w.map])
                 THEN @[n] + 1 ELSE @[n]],
            !.alive = @ \ batch]

GrantAnyLevel(w, batch) ==
  [w EXCEPT !.marked = @ \cup batch,
            !.credit = [n \in Notes |->
               IF n \in batch \ w.marked THEN @[n] + 1 ELSE @[n]],
            !.alive = @ \ batch]

(* A mutated form: a note is counted only if it was there to be removed.   *)
GrantWhenRemoved(w, batch) ==
  [w EXCEPT !.marked = @ \cup batch,
            !.credit = [n \in Notes |->
               IF n \in (batch \ w.marked) \cap w.alive
                 THEN @[n] + 1 ELSE @[n]],
            !.alive = @ \ batch]

(***************************************************************************)
(* bc_apply_event on the NOTE_STATIC events of one frame.  A note not yet  *)
(* recorded is recorded and, in its own level, counted; recorded or not,   *)
(* its prop goes if it stands in the loaded map.                           *)
(***************************************************************************)
ApplyEvents(w, batch) ==
  [w EXCEPT !.marked = @ \cup batch,
            !.credit = [n \in Notes |->
               IF n \in (batch \ w.marked) \cap NotesOfLevel(LevelOf[w.map])
                 THEN @[n] + 1 ELSE @[n]],
            !.alive = @ \ batch]

(* The number ITEM_C_NOTE holds.                                           *)
Counter(w) == FoldFunction(+, 0, w.credit)

(* A mutated form: the recount of a level change is forgotten.             *)
NoRecount(w) == [w EXCEPT !.recount = FALSE]

(* The counter is raised to the number of recorded notes, never lowered.   *)
RunPendingRecount(w) ==
  LET recorded == w.marked \cap NotesOfLevel(LevelOf[w.map]) IN
  IF w.recount
    THEN [w EXCEPT !.recount = FALSE,
                   !.credit = IF Cardinality(recorded) > Counter(w)
                                THEN Once(recorded) ELSE @]
    ELSE w

(* A mutated form: the map counts as swept before its cubes are there.     *)
SweepBeforeLoad(w) ==
  IF w.map = w.swept THEN w
  ELSE [w EXCEPT !.alive = @ \ w.marked, !.swept = w.map]

(* As soon as the cubes of another map than the last one swept are there,  *)
(* recorded notes go.  A map that is loaded again is not swept again.      *)
RunArrivalSweep(w) ==
  IF w.map = w.swept \/ ~w.cubes THEN w
  ELSE [w EXCEPT !.alive = @ \ w.marked, !.swept = w.map]

(* The mirror of the map we stand in: what the host lacks is recorded and  *)
(* removed here, and not counted.                                          *)
MirrorNotes(w, mirror) ==
  IF mirror.map = w.map /\ w.cubes
    THEN [w EXCEPT !.marked = @ \cup (mirror.bits \cap NotesIn(w.map)),
                   !.alive = @ \ mirror.bits]
    ELSE w

(* What the host publishes: the notes that do not stand in its own map.    *)
PublishedMirror(w) ==
  [map |-> w.map, bits |-> IF w.cubes THEN NotesIn(w.map) \ w.alive ELSE {}]

(***************************************************************************)
(* The connected branch of world_apply, in its order: the events of the    *)
(* batch, the recount, the sweep, then the mirror.                         *)
(***************************************************************************)
WorldApply(w, batch, mirror) ==
  MirrorNotes(RunArrivalSweep(RunPendingRecount(ApplyEvents(w, batch))), mirror)

(* world_reset: the session's record is dropped, the game's is not.        *)
WorldReset(w) == [w EXCEPT !.marked = {}, !.swept = NoMap]
=============================================================================

----------------------------- MODULE NotePlayer -----------------------------
(***************************************************************************)
(* One player's game with the mod running in it, against ANY network: a    *)
(* frame may be handed any notes and any mirror, the connection may come   *)
(* and go, and the game may be between two maps when an event lands.       *)
(*                                                                         *)
(* Steps of the game (Enter, Collect) and frames of the mod alternate in   *)
(* any order, with one restriction: the first frame that sees a map's      *)
(* cubes comes before the first pickup in it, because the frame hook runs  *)
(* in the player's physics update (main.c), ahead of the collision that    *)
(* update makes possible.                                                  *)
(***************************************************************************)
EXTENDS NoteWorld

CONSTANT
  MaxResets   \* bound: how often the connection is lost

VARIABLES
  world,      \* the game and the mod's record of it
  online,     \* bc_online
  saved,      \* history: the notes in the save file the game started with
  resets,     \* history: how often world_reset has run
  back,       \* history: the recorded notes that stood again when the map was
              \* loaded from itself; any of them, until its cubes are there
  again       \* history: the notes picked up although they were recorded

vars == <<world, online, saved, resets, back, again>>

Init ==
  /\ saved \in SUBSET Notes
  /\ world \in {FreshWorld(m, saved) : m \in Maps}
  /\ online = FALSE
  /\ resets = 0
  /\ back = {} /\ again = {}

(* The player walks into another map, or dies and has the same one loaded. *)
Enter(m) ==
  /\ world.cubes
  /\ world' = EnterMap(world, m)
  /\ back' = IF m = world.map THEN NotesIn(m) ELSE {}
  /\ UNCHANGED <<online, saved, resets, again>>

Collect(n) ==
  /\ n \in world.alive
  /\ world' = PickUp(world, n)
  /\ again' = again \cup ({n} \cap world.marked)
  /\ UNCHANGED <<online, saved, resets, back>>

(* The world the frame hook finds: the cubes may have appeared meanwhile.  *)
AtFrame(w) == {w} \cup (IF w.cubes THEN {} ELSE {LoadCubes(w)})

(* What stands again is settled once the cubes of the map are there.       *)
Settle == back' = IF world'.cubes /\ ~world.cubes THEN back \cap world.marked
                                                  ELSE back

ConnectedFrame(batch, mirror) ==
  /\ \E w \in AtFrame(world) : world' = WorldApply(w, batch, mirror)
  /\ online' = TRUE
  /\ Settle
  /\ UNCHANGED <<saved, resets, again>>

(* world_apply with inc->connected = 0: the session's record is dropped    *)
(* once, on the edge.                                                      *)
DisconnectedFrame ==
  /\ online => resets < MaxResets
  /\ \E w \in AtFrame(world) : world' = IF online THEN WorldReset(w) ELSE w
  /\ resets' = IF online THEN resets + 1 ELSE resets
  /\ online' = FALSE
  /\ Settle
  /\ UNCHANGED <<saved, again>>

Next ==
  \/ \E m \in Maps : Enter(m)
  \/ \E n \in Notes : Collect(n)
  \/ \E batch \in SUBSET Notes, mirror \in Mirror \cup {NoMirror} :
       ConnectedFrame(batch, mirror)
  \/ DisconnectedFrame

Spec == Init /\ [][Next]_vars

-----------------------------------------------------------------------------
TypeOK ==
  /\ world \in World
  /\ online \in BOOLEAN
  /\ saved \in SUBSET Notes
  /\ resets \in Nat
  /\ back \in SUBSET Notes
  /\ again \in SUBSET Notes

(***************************************************************************)
(* A note the session has recorded does not stand where it could be        *)
(* collected a second time, but for one that stood again when a death      *)
(* loaded the map from itself: the despawn in bc_apply_event               *)
(* (world_apply.c:273-276), the arrival sweep (world_sync.c:62-79) and the *)
(* mirror (progress.c:105-120) leave no other gap between them, whatever   *)
(* the network delivers and however loads fall between frames.  The sweep  *)
(* does not run for a map it has swept last (world_sync.c:62-65).          *)
(***************************************************************************)
NoRecordedNoteStands == world.alive \cap world.marked \subseteq back

(***************************************************************************)
(* "the guard is what makes a re-delivered event harmless"                 *)
(* (world_apply.c:253-254): however often a note is delivered, the counter *)
(* holds it once.  Three things outside the guard each allow one count     *)
(* more: a note already in the save file, which the counter starts with    *)
(* and the session's record does not, every loss of the connection, which  *)
(* drops the record and keeps the counter, and picking up a recorded note  *)
(* that stands again after a death.                                        *)
(***************************************************************************)
CountedOncePerRecord ==
  \A n \in Notes :
    world.credit[n] <=
      1 + resets + (IF n \in saved THEN 1 ELSE 0) + (IF n \in again THEN 1 ELSE 0)

(***************************************************************************)
(* "a note collected in a level we are not in must not touch" the counter  *)
(* (world_apply.c:231-232): what the counter holds is always of the level  *)
(* being played, through pickups, deliveries, recounts and level changes.  *)
(***************************************************************************)
CounterIsOfThisLevel ==
  \A n \in Notes :
    world.credit[n] > 0 => LevelOf[MapOf[n]] = LevelOf[world.map]

(***************************************************************************)
(* Coming back to a level, "the shared total collapses to whatever the     *)
(* local player had personally saved" (world.c:161-163) for no longer than *)
(* until the next connected frame: the frame after a level change leaves   *)
(* the counter at least as large as the notes recorded there, and no       *)
(* connected frame ever lowers it.                                         *)
(***************************************************************************)
SharedTotalSurvives ==
  [][online' /\ world'.map = world.map =>
       /\ Counter(world') >= Counter(world)
       /\ world.recount =>
            Counter(world') >=
              Cardinality(world.marked \cap NotesOfLevel(LevelOf[world.map]))]_vars
=============================================================================

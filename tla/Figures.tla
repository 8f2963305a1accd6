------------------------------- MODULE Figures -------------------------------
(***************************************************************************)
(* The figures by which one player's game shows the others (puppet.c), as  *)
(* operators over a record f:                                              *)
(*   shown   the players the mod has a figure of (s_puppets[i].active)     *)
(*   live    live[q]: how many actors of q stand in the game's map         *)
(* The mod keeps the first; the second is the game's, and only a marker    *)
(* the mod still holds can remove an actor from it.  The game is in its    *)
(* ordinary or paused mode: in the others, which come with a load of their *)
(* own, puppet_sync only drops the records.                                *)
(***************************************************************************)
EXTENDS Company

FigureRecords == [shown : SUBSET Players, live : [Players -> Nat]]

NoFigures == [shown |-> {}, live |-> [q \in Players |-> 0]]

(* A mutated form: the records of the old map are kept.                    *)
FiguresKept(f) == [f EXCEPT !.live = [q \in Players |-> 0]]

(* A map has been loaded: the game has freed the actors of the old one,    *)
(* and the hook on spawnableActorList_new has dropped the records.         *)
FiguresAfterLoad(f) == NoFigures

(* The figures of gone are despawned, and then those of new spawned.       *)
Replace(f, gone, new) ==
  [shown |-> (f.shown \ gone) \cup new,
   live |-> [q \in Players |->
               f.live[q] - (IF q \in gone THEN 1 ELSE 0)
                         + (IF q \in new THEN 1 ELSE 0)]]

(* A mutated form: a figure whose form has changed is spawned anew without *)
(* despawning the old one.                                                 *)
PuppetSyncOver(f, here, changed, failed) ==
  Replace(f, f.shown \ here,
          ((here \ f.shown) \cup (here \cap changed)) \ failed)

(***************************************************************************)
(* puppet_sync in a frame in which here are the players known to be in     *)
(* this map, changed those whose form is not the one shown, and failed     *)
(* those the game finds no room or no model for.  Whoever is gone or has   *)
(* changed is despawned; whoever is here and not shown is spawned.         *)
(***************************************************************************)
PuppetSync(f, here, changed, failed) ==
  LET gone == f.shown \ (here \ changed)
  IN Replace(f, gone, (here \ (f.shown \ gone)) \ failed)

(* puppet_clear_all, once the connection is gone.                          *)
PuppetClearAll(f) == Replace(f, f.shown, {})
=============================================================================

---------------------------- MODULE Projectiles ----------------------------
(***************************************************************************)
(* The projectiles of one map: the player who owns its objects publishes   *)
(* the ones in flight, and another player there adopts them.               *)
(*                                                                         *)
(* What a frame lists, the receiver spawns and moves; what a frame does    *)
(* not list, it despawns.  It remembers what it has spawned by the marker  *)
(* of the actor, and the game gives the marker of an actor that is gone to *)
(* the next one.  Frames reach the receiver in order or not at all (a late *)
(* one is stale, see ObjectFrames), and one without any object is not      *)
(* sent.                                                                   *)
(***************************************************************************)
EXTENDS Adopted

VARIABLES
  thrown,   \* the shots thrown so far
  flying,   \* those the owner's game still has
  near,     \* an enemy of the owner's is near enough to be in its frame
  wire,     \* the frame on its way: the shots it lists, or none
  frame,    \* remote_objects_ of the receiver, likewise
  doomed    \* s_pending_despawn: those to be despawned in the next frame

vars == <<thrown, flying, near, wire, frame, live, doomed, table>>

NoFrame == <<>>
Frames == {NoFrame} \cup {<<listed>> : listed \in SUBSET Shots}

TypeOK ==
  /\ thrown \in SUBSET Shots /\ flying \in SUBSET Shots
  /\ near \in BOOLEAN
  /\ wire \in Frames /\ frame \in Frames
  /\ live \in SUBSET Markers /\ doomed \in SUBSET Markers
  /\ table \in Seq(Entries) /\ Len(table) <= ProjectileMax

(* The receiver may have projectiles of its own: it was the owner, or      *)
(* alone, until now.                                                       *)
Init ==
  /\ thrown = {} /\ flying = {} /\ near \in BOOLEAN
  /\ wire = NoFrame /\ frame = NoFrame
  /\ live \in SUBSET Markers
  /\ doomed = {}
  /\ table = <<>>

-----------------------------------------------------------------------------
(* The owner's game and the network.                                       *)

Throw(s) ==
  /\ s \notin thrown
  /\ thrown' = thrown \cup {s}
  /\ flying' = flying \cup {s}
  /\ UNCHANGED <<near, wire, frame, live, doomed, table>>

(* It has hit something or expired.                                        *)
Land(s) ==
  /\ s \in flying
  /\ flying' = flying \ {s}
  /\ UNCHANGED <<thrown, near, wire, frame, live, doomed, table>>

(* Enemies and players walk about.                                         *)
Roam ==
  /\ near' = ~near
  /\ UNCHANGED <<thrown, flying, wire, frame, live, doomed, table>>

(* The owner has nothing to publish.  A shot is at no distance too far.    *)
Empty == flying = {} /\ ~near

Broadcast ==
  /\ wire = NoFrame
  /\ ~Empty
  /\ wire' = <<flying>>
  /\ UNCHANGED <<thrown, flying, near, frame, live, doomed, table>>

Deliver ==
  /\ wire # NoFrame
  /\ frame' = wire
  /\ wire' = NoFrame
  /\ UNCHANGED <<thrown, flying, near, live, doomed, table>>

Lose ==
  /\ wire # NoFrame
  /\ wire' = NoFrame
  /\ UNCHANGED <<thrown, flying, near, frame, live, doomed, table>>

-----------------------------------------------------------------------------
(* The receiver's game.                                                    *)

(* The game takes an actor away by itself: an adopted shot hits something  *)
(* here.  Nobody is told.                                                  *)
Die(m) ==
  /\ m \in live
  /\ live' = live \ {m}
  /\ doomed' = doomed \ {m}
  /\ UNCHANGED <<thrown, flying, near, wire, frame, table>>

Listed == IF frame = NoFrame THEN {} ELSE Head(frame)

(* Mutated forms: what is listed is not looked at; an entry for a shot     *)
(* does not keep it from being adopted again; the receiver's own shots     *)
(* stay.                                                                   *)
ListsAnything(i) == TRUE

AdoptableAgain(kept) == Listed

DroppedKnown(there) ==
  {m \in there : \E i \in EntryOf(m) : table[i].id \notin Listed}

(* Whether the owner still mentions the shot of entry i.                   *)
Lists(i) == table[i].id \in Listed

(* The shots to be adopted, given the entries that are kept.               *)
Adoptable(kept) == Listed \ {kept[i].id : i \in DOMAIN kept}

(* The receiver's own shots, and those whose entry is not listed.          *)
Dropped(there) == {m \in there : ~ \E i \in EntryOf(m) : Lists(i)}

Room(kept) == ProjectileMax - Len(kept)

(* The entries of the actors despawned: an entry is looked at only through *)
(* an actor that is there.                                                 *)
Cleared(there) == {i \in UNION {EntryOf(m) : m \in there} : ~Lists(i)}

(* The table without them.                                                 *)
Kept(there) ==
  FoldLeftDomain(LAMBDA kept, i : IF i \in Cleared(there) THEN kept
                                  ELSE Append(kept, table[i]),
                 <<>>, table)

(* A frame: the despawns asked for in the last one, then projectile_sync,  *)
(* which drops the receiver's own shots and what is no longer listed, and  *)
(* adopts what is new while its table and the game have room.              *)
Sync ==
  /\ LET there == live \ doomed
         kept == Kept(there)
         fresh == Adoptable(kept)
         free == Markers \ live
         n == Min({Room(kept), Cardinality(fresh), Cardinality(free)})
     IN /\ doomed' = Dropped(there)
        /\ \E taken \in kSubset(n, fresh) :
             \E marker \in Injection(taken, free) :
               /\ live' = there \cup {marker[s] : s \in taken}
               /\ table' = kept \o [i \in 1 .. n |->
                    LET s == SetToSeq(taken)[i]
                    IN [id |-> s, marker |-> marker[s]]]
  /\ UNCHANGED <<thrown, flying, near, wire, frame>>

Next ==
  \/ \E s \in Shots : Throw(s) \/ Land(s)
  \/ Roam \/ Broadcast \/ Deliver \/ Lose
  \/ \E m \in Markers : Die(m)
  \/ Sync

Spec == Init /\ [][Next]_vars

(***************************************************************************)
(* Fairness: the network threads keep sending the newest frame, of which   *)
(* not every one is lost, and the receiver's game keeps running frames.    *)
(***************************************************************************)
Fairness ==
  WF_vars(Broadcast) /\ SF_vars(Deliver) /\ WF_vars(Sync)

FairSpec == Spec /\ Fairness
-----------------------------------------------------------------------------
(***************************************************************************)
(* "Ours, not theirs.  The owner's copy of this shot is the one everyone   *)
(* sees" (projectile.c:160): a projectile of the receiver's own does not   *)
(* last.                                                                   *)
(***************************************************************************)
Stray(m) == m \in live /\ EntryOf(m) = {}

StraysGo == \A m \in Markers : Stray(m) ~> ~Stray(m)

(***************************************************************************)
(* "an object the frame stops mentioning is one that has hit something or  *)
(* expired" (projectile.c:12-13): what has landed at the owner does not    *)
(* stay in the air for the receiver, or the owner has nothing to publish:  *)
(* an empty frame, which would say so, is not sent                         *)
(* (transport_events.cpp:176-178), and the shot then stays until another   *)
(* object comes into the frame.                                            *)
(***************************************************************************)
GhostsGo == \A s \in Shots : s \in thrown \ flying ~> Shown(s) = {} \/ Empty
=============================================================================

---------------------------- MODULE NoteSession ----------------------------
(***************************************************************************)
(* The whole path of a music note: the games of NoteWorld, one for each    *)
(* player, composed with the transport of NoteRelay, and the progression   *)
(* mirror the host sends its clients beside the events.                    *)
(*                                                                         *)
(* NoteRelay knows a player's game by its record of notes alone; here the  *)
(* record is the one the game of that player makes, and the props that     *)
(* stand in its map and the counter on its HUD are there to compare.       *)
(*                                                                         *)
(* A mirror is read off the host's world at the end of a frame, broadcast  *)
(* about once a second to every connected peer, admitted or not, in the    *)
(* same ordered channel as the events, and applied in every frame from     *)
(* then on: the last one received stays until the next, even across        *)
(* connections.                                                            *)
(***************************************************************************)
EXTENDS NoteRelay

CONSTANTS
  Levels,
  LevelOf,   \* the level a map belongs to
  SaveFiles, \* the save files the players may have: the notes in each
  HostFile   \* the host can read its save file, and sends it with the welcome

ASSUME SessionAssumption ==
  /\ SaveFiles \subseteq [Players -> SUBSET Notes]
  /\ HostFile \in BOOLEAN

W == INSTANCE NoteWorld

VARIABLES
  worlds,     \* worlds[p]: the game of player p
  published,  \* local_progress_: the mirror the host has published
  posted,     \* posted[c]: the mirror in the channel to c, if there is one,
              \* and how many events of down[c] are ahead of it
  held,       \* held[c]: remote_progress_, the last mirror c has received
  silent,     \* history: silent[p], notes p has recorded from a mirror
  dropped,    \* history: dropped[p], how often p's record has been dropped
  saves,      \* history: saves[p], the notes in any save p has played
  back,       \* history: back[p], the recorded notes that stood again when
              \* p's map was loaded from itself; any, until its cubes are there
  again       \* history: again[p], the recorded notes p has picked up since
              \* its save was loaded

relayVars == vars
mirrorVars == <<published, posted, held, silent, dropped>>
lifeVars == <<saves, back, again>>
sessionVars == <<vars, worlds, published, posted, held, silent, dropped,
                 saves, back, again>>

Mirrors == W!Mirror \cup {W!NoMirror}
Post == [mirror : Mirrors, ahead : Nat]

SessionTypeOK ==
  /\ worlds \in [Players -> W!World]
  /\ published \in Mirrors
  /\ posted \in [Clients -> Seq(Post)]
  /\ held \in [Clients -> Mirrors]
  /\ silent \in [Players -> SUBSET Notes]
  /\ dropped \in [Players -> Nat]
  /\ saves \in [Players -> SUBSET Notes]
  /\ back \in [Players -> SUBSET Notes]
  /\ again \in [Players -> SUBSET Notes]

(* Every player begins with its own save file.                             *)
SessionInit ==
  /\ Init
  /\ saves \in SaveFiles
  /\ found = saves[Host]
  /\ recorded = [p \in Players |-> {}]
  /\ \E start \in [Players -> Maps] :
       worlds = [p \in Players |-> W!FreshWorld(start[p], saves[p])]
  /\ published = W!NoMirror
  /\ posted = [c \in Clients |-> <<>>]
  /\ held = [c \in Clients |-> W!NoMirror]
  /\ silent = [p \in Players |-> {}]
  /\ dropped = [p \in Players |-> 0]
  /\ back = [p \in Players |-> {}]
  /\ again = [p \in Players |-> {}]

-----------------------------------------------------------------------------
(* The games.                                                              *)

(* What stands again in map m of player p, before its cubes are there.     *)
Reload(p, m) ==
  back' = [back EXCEPT ![p] = IF m = worlds[p].map THEN NotesIn(m) ELSE {}]

(* A player walks into another map, or dies and has the same one loaded; a *)
(* client in the session will say so.                                      *)
WalkTo(p, m) ==
  /\ worlds[p].cubes
  /\ worlds' = [worlds EXCEPT ![p] = W!EnterMap(@, m)]
  /\ at' = IF p \in Clients \cap Online THEN [at EXCEPT ![p] = m] ELSE at
  /\ Reload(p, m)
  /\ UNCHANGED <<hostVars, status, recorded, up, down, states, history,
                 mirrorVars, saves, again>>

(* A player touches a note.  The hook records it in any case, and queues   *)
(* the claim when the game is in a session.                                *)
PickUp(p, n) ==
  /\ n \in worlds[p].alive
  /\ worlds' = [worlds EXCEPT ![p] = W!PickUp(@, n)]
  /\ IF p \in Online
       THEN /\ Len(up[p]) < MaxClaims
            /\ recorded' = [recorded EXCEPT ![p] = @ \cup {n}]
            /\ found' = found \cup {n}
            /\ up' = [up EXCEPT ![p] = Append(@, n)]
       ELSE UNCHANGED <<recorded, found, up>>
  /\ again' = [again EXCEPT ![p] = @ \cup ({n} \cap worlds[p].marked)]
  /\ back' = [back EXCEPT ![p] = @ \ {n}]
  /\ UNCHANGED <<hostVars, status, at, down, states, missed, mirrorVars,
                 saves>>

(* The host's save file came with the welcome (recomp_change_save_file),   *)
(* and the player loads it at file select.  It holds what the host began   *)
(* with and some of what the host has taken since.                         *)
Adopt(c) ==
  /\ HostFile
  /\ c \in Online
  /\ worlds[c].cubes
  /\ \E m \in Maps, S \in SUBSET worlds[Host].taken :
       /\ saves[Host] \subseteq S
       /\ worlds' = [worlds EXCEPT ![c] = W!LoadSave(@, m, S)]
       /\ at' = [at EXCEPT ![c] = m]
       /\ saves' = [saves EXCEPT ![c] = @ \cup S]
       /\ Reload(c, m)
  /\ again' = [again EXCEPT ![c] = {}]
  /\ UNCHANGED <<hostVars, status, recorded, up, down, states, history,
                 mirrorVars>>

(* The world the frame hook finds: the cubes may have appeared meanwhile.  *)
AtFrame(w) == {w} \cup (IF w.cubes THEN {} ELSE {W!LoadCubes(w)})

(* What stands again is settled once the cubes of the map are there, and   *)
(* goes as other notes go.                                                 *)
Settle(p) ==
  LET stood == IF worlds[p].cubes THEN back[p] ELSE back[p] \cap worlds[p].marked
  IN back' = [back EXCEPT ![p] =
                IF worlds'[p].cubes THEN stood \cap worlds'[p].alive ELSE @]

(* A mutated form: a client's frame applies no mirror.                     *)
ClientFrameUnmirrored(c) ==
  /\ c \in Online
  /\ \E w \in AtFrame(worlds[c]), k \in 0 .. Len(down[c]) :
       /\ k <= FrameQueue
       /\ posted[c] # <<>> => k <= posted[c][1].ahead
       /\ worlds' = [worlds EXCEPT ![c] =
            W!WorldApply(w, ToSet(SubSeq(down[c], 1, k)), W!NoMirror)]
       /\ silent' = silent
       /\ down' = [down EXCEPT ![c] = SubSeq(@, k + 1, Len(@))]
       /\ posted' = IF posted[c] = <<>> THEN posted
                    ELSE [posted EXCEPT ![c][1].ahead = @ - k]
  /\ recorded' = [recorded EXCEPT ![c] = worlds'[c].marked]
  /\ Settle(c)
  /\ UNCHANGED <<hostVars, status, at, up, states, history, published, held,
                 dropped, saves, again>>

(* A frame of a client: world_apply on the events that have arrived, which *)
(* do not include those behind the mirror in the channel, and on the last  *)
(* mirror received.                                                        *)
ClientFrame(c) ==
  /\ c \in Online
  /\ \E w \in AtFrame(worlds[c]), k \in 0 .. Len(down[c]) :
       /\ k <= FrameQueue
       /\ posted[c] # <<>> => k <= posted[c][1].ahead
       /\ LET batch == ToSet(SubSeq(down[c], 1, k))
              before == W!WorldApply(w, batch, W!NoMirror)
              after == W!WorldApply(w, batch, held[c])
          IN /\ worlds' = [worlds EXCEPT ![c] = after]
             /\ silent' = [silent EXCEPT ![c] =
                             @ \cup (after.marked \ before.marked)]
       /\ down' = [down EXCEPT ![c] = SubSeq(@, k + 1, Len(@))]
       /\ posted' = IF posted[c] = <<>> THEN posted
                    ELSE [posted EXCEPT ![c][1].ahead = @ - k]
  /\ recorded' = [recorded EXCEPT ![c] = worlds'[c].marked]
  /\ Settle(c)
  /\ UNCHANGED <<hostVars, status, at, up, states, history, published, held,
                 dropped, saves, again>>

(* A frame of the host, which publishes a mirror instead of applying one.  *)
HostFrame ==
  /\ \E w \in AtFrame(worlds[Host]), k \in 0 .. Len(down[Host]) :
       /\ k <= FrameQueue
       /\ worlds' = [worlds EXCEPT ![Host] =
            W!WorldApply(w, ToSet(SubSeq(down[Host], 1, k)), W!NoMirror)]
       /\ down' = [down EXCEPT ![Host] = SubSeq(@, k + 1, Len(@))]
  /\ recorded' = [recorded EXCEPT ![Host] = worlds'[Host].marked]
  /\ published' = W!PublishedMirror(worlds'[Host])
  /\ Settle(Host)
  /\ UNCHANGED <<hostVars, status, at, up, states, history, posted, held,
                 silent, dropped, saves, again>>

(* A frame of a game that is in no session changes nothing by itself.      *)
AloneFrame(c) ==
  /\ c \notin Online
  /\ \E w \in AtFrame(worlds[c]) : worlds' = [worlds EXCEPT ![c] = w]
  /\ Settle(c)
  /\ UNCHANGED <<relayVars, mirrorVars, saves, again>>

-----------------------------------------------------------------------------
(* The mirror.                                                             *)

(* Who the host's link is connected to: also a client it has not admitted. *)
Linked(c) == status[c] = "Connecting" \/ (c \in peers /\ status[c] # "Offline")

BroadcastMirror ==
  /\ published # W!NoMirror
  /\ posted' = [c \in Clients |->
       IF Linked(c) /\ posted[c] = <<>>
         THEN <<[mirror |-> published, ahead |-> Len(down[c])]>>
         ELSE posted[c]]
  /\ UNCHANGED <<relayVars, worlds, published, held, silent, dropped, lifeVars>>

ReceiveMirror(c) ==
  /\ posted[c] # <<>>
  /\ posted[c][1].ahead = 0
  /\ held' = [held EXCEPT ![c] = posted[c][1].mirror]
  /\ posted' = [posted EXCEPT ![c] = <<>>]
  /\ UNCHANGED <<relayVars, worlds, published, silent, dropped, lifeVars>>

-----------------------------------------------------------------------------
(* The transport, with what each of its steps means to the games.          *)

Join(c) ==
  /\ Connect(c)
  /\ posted' = [posted EXCEPT ![c] = <<>>]
  /\ UNCHANGED <<worlds, published, held, silent, dropped, lifeVars>>

(* The WELCOME arrives: what the game has recorded alone is its record.    *)
Enrol(c) ==
  /\ status[c] = "Admitted"
  /\ status' = [status EXCEPT ![c] = "Connected"]
  /\ at' = [at EXCEPT ![c] = worlds[c].map]
  /\ recorded' = [recorded EXCEPT ![c] = worlds[c].marked]
  /\ found' = found \cup worlds[c].marked
  /\ UNCHANGED <<hostVars, up, down, states, missed, worlds, mirrorVars,
                 lifeVars>>

(* The client is out of the session, and the next frame drops its record.  *)
Leave(c) ==
  /\ Lose(c)
  /\ worlds' = [worlds EXCEPT ![c] =
                  IF status[c] = "Connected" THEN W!WorldReset(@) ELSE @]
  /\ silent' = [silent EXCEPT ![c] = {}]
  /\ dropped' = [dropped EXCEPT ![c] =
                   IF status[c] = "Connected" THEN @ + 1 ELSE @]
  /\ posted' = [posted EXCEPT ![c] = <<>>]
  /\ UNCHANGED <<published, held, lifeVars>>

(* What the host had sent may be lost, from some point of the channel on.  *)
DropMember(c) ==
  /\ Drop(c)
  /\ IF posted[c] # <<>> /\ posted[c][1].ahead <= Len(down'[c])
       THEN posted' \in {posted, [posted EXCEPT ![c] = <<>>]}
       ELSE posted' = [posted EXCEPT ![c] = <<>>]
  /\ (posted'[c] = <<>> /\ posted[c] # <<>>) =>
       Len(down'[c]) <= posted[c][1].ahead
  /\ UNCHANGED <<worlds, published, held, silent, dropped, lifeVars>>

SessionNext ==
  \/ HostFrame
  \/ BroadcastMirror
  \/ \E p \in Players :
       \/ Adjudicate(p) /\ UNCHANGED <<worlds, mirrorVars, lifeVars>>
       \/ \E m \in Maps : WalkTo(p, m)
       \/ \E n \in Notes : PickUp(p, n)
  \/ \E c \in Clients :
       \/ ClientFrame(c) \/ AloneFrame(c) \/ ReceiveMirror(c) \/ Adopt(c)
       \/ Join(c) \/ Enrol(c) \/ Leave(c) \/ DropMember(c)
       \/ /\ \/ Admit(c) \/ Refuse(c) \/ SendState(c)
             \/ \E m \in Maps : ReceiveState(c, m)
          /\ UNCHANGED <<worlds, mirrorVars, lifeVars>>

SessionSpec == SessionInit /\ [][SessionNext]_sessionVars
-----------------------------------------------------------------------------
(***************************************************************************)
(* Composed with real games, the transport is still that of NoteRelay:     *)
(* world_apply, the hooks, the resets, deaths and the loading of another   *)
(* save leave a player's record exactly as the relay needs it, and every   *)
(* pickup, of a note that stands again too, is a claim the relay decides.  *)
(***************************************************************************)
ImplementsRelay == Spec

(***************************************************************************)
(* "This is what makes "no double-collects" true rather than merely        *)
(* unlikely" (transport.hpp:232-233): a decided note that still stands in  *)
(* front of a player, in a map the host has seen the player arrive in, is  *)
(* on its way to that player, or stands again because the player died: the *)
(* host sees no arrival then and the sweep does not run again              *)
(* (world_sync.c:62-65).                                                   *)
(***************************************************************************)
Present(p) == p = Host \/ (p \in peers /\ seen[p] = worlds[p].map)

NoteGoneOrOnItsWay ==
  \A p \in Online :
    Present(p) =>
      worlds[p].alive \cap registry \subseteq ToSet(down[p]) \cup back[p]

(***************************************************************************)
(* No player counts a note twice while its connection lasts: not the loser *)
(* of two claims, whose claim is dropped (adjudicate), nor the player a    *)
(* snapshot repeats a note to (send_map_snapshot), nor the one a mirror    *)
(* has told of it.  Three things each allow one count more: a note in a    *)
(* save the player has played, its own or the host's, which the counter    *)
(* starts with and the record does not; every loss of the connection,      *)
(* which drops the record (world_reset) and keeps the counter, so that the *)
(* next snapshot grants every note again; and picking up a recorded note   *)
(* that stands again after a death.                                        *)
(***************************************************************************)
CountedAtMostOnce ==
  \A p \in Players, n \in Notes :
    worlds[p].credit[n] <=
      1 + dropped[p] + (IF n \in saves[p] THEN 1 ELSE 0)
        + (IF n \in again[p] THEN 1 ELSE 0)

(***************************************************************************)
(* "every player's counter shows the level total"                          *)
(* (transport_events.cpp:547-548): with no recount due, the number on the  *)
(* HUD is at least that of the notes of the level the player has a record  *)
(* of, but for those only a mirror has told it of.  Not more: a recount    *)
(* takes the larger of the record and the save and not their union         *)
(* (world_sync.c:114-117).                                                 *)
(***************************************************************************)
CountableNotes(p) ==
  {n \in recorded[p] \ silent[p] : LevelOf[MapOf[n]] = LevelOf[worlds[p].map]}

CounterShowsTotal ==
  \A p \in Online :
    ~worlds[p].recount =>
      W!Counter(worlds[p]) >= Cardinality(CountableNotes(p))

(***************************************************************************)
(* Fairness: both games keep running frames, finish loading their maps and *)
(* take the events that have arrived, and the host's network thread        *)
(* broadcasts the mirror about once a second into a reliable channel.      *)
(***************************************************************************)
MirrorFairness ==
  /\ WF_sessionVars(HostFrame)
  /\ WF_sessionVars(BroadcastMirror)
  /\ \A c \in Clients :
       /\ WF_sessionVars(ClientFrame(c) /\ worlds'[c].cubes)
       /\ WF_sessionVars(ClientFrame(c) /\ down' # down)
       /\ WF_sessionVars(ReceiveMirror(c))

FairSessionSpec == SessionSpec /\ MirrorFairness

(***************************************************************************)
(* "a client that arrived before the host, or joined late, or missed an    *)
(* event, converges within a second" (progress.c:325-326): a note gone     *)
(* from the host's map, even one gone only in its save, does not stay in   *)
(* front of a member that stays in that map with the host.                 *)
(***************************************************************************)
Together(c) ==
  /\ c \in Online \cap peers
  /\ worlds[c].map = worlds[Host].map
  /\ worlds[Host].cubes

GoneAtHost(n) ==
  MapOf[n] = worlds[Host].map /\ n \notin worlds[Host].alive

MirrorConverges ==
  \A c \in Clients, n \in Notes :
    Together(c) /\ GoneAtHost(n)
      ~> (n \notin worlds[c].alive /\ worlds[c].cubes) \/ ~Together(c)
=============================================================================

----------------------------- MODULE NoteRelay -----------------------------
(***************************************************************************)
(* The transport's handling of music notes: one host, its clients, and the *)
(* queues, packets and connections between them.                           *)
(*                                                                         *)
(* A pickup travels from the mod's queue through the outbox, the network   *)
(* simulator and the reliable channel to the host (up[p]), is adjudicated  *)
(* against the registry (registry), and the first claim on a note travels  *)
(* back through the simulator, the reliable channel and the inbox to every *)
(* other player the host knows the position of (down[p]), to be applied by *)
(* a frame of that player's game (recorded[p]).  The player's position     *)
(* travels on the unreliable, unsequenced channel (states[c]) and, when    *)
(* the host sees a client in a new map, it replays the map's notes.        *)
(*                                                                         *)
(* A connection can be lost on either side at any time, and the two sides  *)
(* need not learn of it in the same order.  A member of Clients is one     *)
(* end of one connection at a time: a player who rejoins before the host   *)
(* has noticed that the old connection is gone is another member.          *)
(***************************************************************************)
EXTENDS Integers, SequencesExt

CONSTANTS
  Clients,
  Host,
  Notes,
  Maps,
  MapOf,       \* the map a note stands in
  NoMap,       \* no position seen yet: has_state = false, snapshot_map ~0
  MaxPlayers,  \* BCNET_MAX_PLAYERS: ids handed out in one hosting session
  FrameQueue,  \* BCNET_EVENT_QUEUE: events handed to one frame
  MaxQueue,    \* bound: events in flight to one player
  MaxClaims    \* bound: claims in flight from one player

ASSUME NoteRelayAssumption ==
  /\ Host \notin Clients
  /\ NoMap \notin Maps
  /\ MapOf \in [Notes -> Maps]
  /\ IsFiniteSet(Notes)
  /\ MaxPlayers \in Nat \ {0} /\ FrameQueue \in Nat \ {0}
  /\ MaxQueue \in Nat /\ MaxClaims \in Nat

Players == Clients \cup {Host}
NotesIn(m) == {n \in Notes : MapOf[n] = m}

VARIABLES
  (* at the host *)
  peers,      \* the clients admitted (impl_->peer_ids)
  nextId,     \* impl_->next_player_id
  seen,       \* seen[c]: the last position received (PeerSlot.state.map_id)
  registry,   \* collected_notes_
  (* at each player *)
  status,     \* status[c]: the client's connection
  at,         \* at[c]: the map client c is in, NoMap out of a session
  recorded,   \* recorded[p]: s_note_bits of player p
  (* between them *)
  up,         \* up[p]: claims from player p, not yet adjudicated
  down,       \* down[p]: events to player p, not yet applied
  states,     \* states[c]: positions of client c still in the network
  (* history *)
  found,      \* the notes picked up by any player, here or in its save
  missed      \* missed[c]: the notes decided before the host first saw
              \* client c, in maps it has not seen it in since

hostVars == <<peers, nextId, seen, registry>>
history == <<found, missed>>
vars == <<peers, nextId, seen, registry, status, at, recorded, up, down,
          states, found, missed>>

(* Connecting: HELLO on its way; Admitted: WELCOME on its way.             *)
Statuses == {"Offline", "Connecting", "Admitted", "Connected"}

TypeOK ==
  /\ peers \in SUBSET Clients
  /\ nextId \in 1 .. MaxPlayers
  /\ seen \in [Clients -> Maps \cup {NoMap}]
  /\ registry \in SUBSET Notes
  /\ status \in [Clients -> Statuses]
  /\ at \in [Clients -> Maps \cup {NoMap}]
  /\ recorded \in [Players -> SUBSET Notes]
  /\ up \in [Players -> Seq(Notes)]
  /\ down \in [Players -> Seq(Notes)]
  /\ states \in [Clients -> SUBSET Maps]
  /\ found \in SUBSET Notes
  /\ missed \in [Clients -> SUBSET Notes]

(* The host has just started to host: some notes are in its save, and some *)
(* it has recorded while it was alone.                                     *)
Init ==
  /\ peers = {}
  /\ nextId = 1
  /\ seen = [c \in Clients |-> NoMap]
  /\ registry = {}
  /\ status = [c \in Clients |-> "Offline"]
  /\ at = [c \in Clients |-> NoMap]
  /\ found \in SUBSET Notes
  /\ \E S \in SUBSET found :
       recorded = [p \in Players |-> IF p = Host THEN S ELSE {}]
  /\ up = [p \in Players |-> <<>>]
  /\ down = [p \in Players |-> <<>>]
  /\ states = [c \in Clients |-> {}]
  /\ missed = [c \in Clients |-> {}]

-----------------------------------------------------------------------------
(* Connecting.                                                             *)

(* join: everything of an earlier connection has been torn down.           *)
Connect(c) ==
  /\ status[c] = "Offline"
  /\ c \notin peers
  /\ status' = [status EXCEPT ![c] = "Connecting"]
  /\ up' = [up EXCEPT ![c] = <<>>]
  /\ down' = [down EXCEPT ![c] = <<>>]
  /\ states' = [states EXCEPT ![c] = {}]
  /\ UNCHANGED <<hostVars, at, recorded, history>>

(* A mutated form: the host admits whoever says HELLO.                     *)
AdmitAnyone(c) ==
  /\ status[c] = "Connecting"
  /\ nextId' = nextId + 1
  /\ peers' = peers \cup {c}
  /\ status' = [status EXCEPT ![c] = "Admitted"]
  /\ UNCHANGED <<seen, registry, at, recorded, up, down, states, history>>

(* The host reads a HELLO.  Ids are handed out once and never taken back.  *)
Admit(c) ==
  /\ status[c] = "Connecting"
  /\ nextId < MaxPlayers
  /\ nextId' = nextId + 1
  /\ peers' = peers \cup {c}
  /\ status' = [status EXCEPT ![c] = "Admitted"]
  /\ UNCHANGED <<seen, registry, at, recorded, up, down, states, history>>

Refuse(c) ==
  /\ status[c] = "Connecting"
  /\ nextId >= MaxPlayers
  /\ status' = [status EXCEPT ![c] = "Offline"]
  /\ UNCHANGED <<hostVars, at, recorded, up, down, states, history>>

(* The client reads the WELCOME.  It brings along where it is, and a       *)
(* record of the notes it has picked up while it was alone, which no queue *)
(* ever took: bc_note_mark runs offline, bc_queue_event does not.          *)
Welcome(c) ==
  /\ status[c] = "Admitted"
  /\ status' = [status EXCEPT ![c] = "Connected"]
  /\ \E m \in Maps : at' = [at EXCEPT ![c] = m]
  /\ \E S \in SUBSET Notes :
       /\ recorded' = [recorded EXCEPT ![c] = S]
       /\ found' = found \cup S
  /\ UNCHANGED <<hostVars, up, down, states, missed>>

-----------------------------------------------------------------------------
(* Playing.                                                                *)

Online == {Host} \cup {c \in Clients : status[c] = "Connected"}

(* A player picks up a note standing in front of it: one it has no record  *)
(* of, or one it has, which stands again after a death.  Either way the    *)
(* hook records it and the next frame claims it.                           *)
Collect(p, n) ==
  /\ p \in Online
  /\ p \in Clients => MapOf[n] = at[p]
  /\ Len(up[p]) < MaxClaims
  /\ recorded' = [recorded EXCEPT ![p] = @ \cup {n}]
  /\ found' = found \cup {n}
  /\ up' = [up EXCEPT ![p] = Append(@, n)]
  /\ UNCHANGED <<hostVars, status, at, down, states, missed>>

Move(c, m) ==
  /\ status[c] = "Connected"
  /\ at[c] # m
  /\ at' = [at EXCEPT ![c] = m]
  /\ UNCHANGED <<hostVars, status, recorded, up, down, states, history>>

(* A frame: the events that have arrived, up to FrameQueue of them, leave  *)
(* the inbox and are applied; then a client records what the latest mirror *)
(* of the host's map shows to be gone, decided or not.                     *)
Frame(p) ==
  /\ p \in Online
  /\ \E k \in 0 .. Len(down[p]), S \in SUBSET found :
       /\ k <= FrameQueue
       /\ p = Host => S = {}
       /\ recorded' = [recorded EXCEPT ![p] =
                         @ \cup ToSet(SubSeq(down[p], 1, k)) \cup S]
       /\ down' = [down EXCEPT ![p] = SubSeq(@, k + 1, Len(@))]
  /\ UNCHANGED <<hostVars, status, at, up, states, history>>

-----------------------------------------------------------------------------
(* Deciding.                                                               *)

(* A mutated form: the relay goes to the clients only.                     *)
AudienceOfClients(origin) == {c \in peers : seen[c] # NoMap} \ {origin}

(* Whom relay_event reaches with a note: everybody but its finder whose    *)
(* position is known.                                                      *)
Audience(origin) ==
  ({Host} \cup {c \in peers : seen[c] # NoMap}) \ {origin}

(* A mutated form: a claim of a client not seen yet is thrown away.        *)
AdjudicateSeen(p) ==
  /\ p \in peers \cup {Host}
  /\ up[p] # <<>>
  /\ LET n == Head(up[p])
         heard == p = Host \/ seen[p] # NoMap IN
       /\ registry' = IF heard THEN registry \cup {n} ELSE registry
       /\ down' = [q \in Players |->
            IF heard /\ n \notin registry /\ q \in Audience(p)
              THEN Append(down[q], n) ELSE down[q]]
  /\ up' = [up EXCEPT ![p] = Tail(@)]
  /\ UNCHANGED <<peers, nextId, seen, status, at, recorded, states, history>>

(* The host's own claims and its clients' take the same path.              *)
Adjudicate(p) ==
  /\ p \in peers \cup {Host}
  /\ up[p] # <<>>
  /\ LET n == Head(up[p]) IN
       /\ registry' = registry \cup {n}
       /\ down' = [q \in Players |->
            IF n \notin registry /\ q \in Audience(p)
              THEN Append(down[q], n) ELSE down[q]]
  /\ up' = [up EXCEPT ![p] = Tail(@)]
  /\ UNCHANGED <<peers, nextId, seen, status, at, recorded, states, history>>

(* 30 times a second a client says where it is.                            *)
SendState(c) ==
  /\ status[c] = "Connected"
  /\ states' = [states EXCEPT ![c] = @ \cup {at[c]}]
  /\ UNCHANGED <<hostVars, status, at, recorded, up, down, history>>

(* A mutated form: the snapshot goes out on the first position only.       *)
ReceiveStateOnce(c, m) ==
  /\ c \in peers
  /\ m \in states[c]
  /\ states' \in {states, [states EXCEPT ![c] = @ \ {m}]}
  /\ seen' = [seen EXCEPT ![c] = m]
  /\ IF seen[c] # NoMap
       THEN down' = down
       ELSE LET snapshot == registry \cap NotesIn(m) IN
            /\ Len(down[c]) + Cardinality(snapshot) <= MaxQueue
            /\ \E s \in SetToSeqs(snapshot) :
                 down' = [down EXCEPT ![c] = @ \o s]
  /\ missed' = [missed EXCEPT ![c] =
                   IF seen[c] = NoMap THEN registry \ NotesIn(m)
                                      ELSE @ \ NotesIn(m)]
  /\ UNCHANGED <<peers, nextId, registry, status, at, recorded, up, found>>

(* A position arrives: the last of its kind, or with more to come.  A map  *)
(* the client was not last seen in is replayed, in no particular order.    *)
ReceiveState(c, m) ==
  /\ c \in peers
  /\ m \in states[c]
  /\ states' \in {states, [states EXCEPT ![c] = @ \ {m}]}
  /\ seen' = [seen EXCEPT ![c] = m]
  /\ IF seen[c] = m
       THEN down' = down
       ELSE LET snapshot == registry \cap NotesIn(m) IN
            /\ Len(down[c]) + Cardinality(snapshot) <= MaxQueue
            /\ \E s \in SetToSeqs(snapshot) :
                 down' = [down EXCEPT ![c] = @ \o s]
  /\ missed' = [missed EXCEPT ![c] =
                   IF seen[c] = NoMap THEN registry \ NotesIn(m)
                                      ELSE @ \ NotesIn(m)]
  /\ UNCHANGED <<peers, nextId, registry, status, at, recorded, up, found>>

-----------------------------------------------------------------------------
(* Disconnecting.                                                          *)

(* The client leaves, or learns that the connection is gone: its queues    *)
(* and its record are dropped; what was on the wire may still arrive.      *)
Lose(c) ==
  /\ status[c] # "Offline"
  /\ status' = [status EXCEPT ![c] = "Offline"]
  /\ at' = [at EXCEPT ![c] = NoMap]
  /\ recorded' = [recorded EXCEPT ![c] = {}]
  /\ down' = [down EXCEPT ![c] = <<>>]
  /\ \E s \in Prefixes(up[c]) : up' = [up EXCEPT ![c] = s]
  /\ UNCHANGED <<hostVars, states, history>>

(* A mutated form: the host forgets what was decided when a client goes.   *)
DropForgets(c) ==
  /\ c \in peers
  /\ peers' = peers \ {c}
  /\ registry' = {}
  /\ seen' = [seen EXCEPT ![c] = NoMap]
  /\ up' = [up EXCEPT ![c] = <<>>]
  /\ states' = [states EXCEPT ![c] = {}]
  /\ \E s \in Prefixes(down[c]) : down' = [down EXCEPT ![c] = s]
  /\ missed' = [missed EXCEPT ![c] = {}]
  /\ UNCHANGED <<nextId, status, at, recorded, found>>

(* The host learns that a client is gone, or believes so.                  *)
Drop(c) ==
  /\ c \in peers
  /\ peers' = peers \ {c}
  /\ seen' = [seen EXCEPT ![c] = NoMap]
  /\ up' = [up EXCEPT ![c] = <<>>]
  /\ states' = [states EXCEPT ![c] = {}]
  /\ \E s \in Prefixes(down[c]) : down' = [down EXCEPT ![c] = s]
  /\ missed' = [missed EXCEPT ![c] = {}]
  /\ UNCHANGED <<nextId, registry, status, at, recorded, found>>

Next ==
  \/ \E c \in Clients :
       \/ Connect(c) \/ Admit(c) \/ Refuse(c) \/ Welcome(c)
       \/ SendState(c) \/ Lose(c) \/ Drop(c)
       \/ \E m \in Maps : Move(c, m) \/ ReceiveState(c, m)
  \/ \E p \in Players :
       \/ Frame(p) \/ Adjudicate(p)
       \/ \E n \in Notes : Collect(p, n)

Spec == Init /\ [][Next]_vars
-----------------------------------------------------------------------------
(***************************************************************************)
(* A member the host has a position for lacks, of the notes decided, only  *)
(* those decided before its first position, in maps it has not been seen   *)
(* in since: everything else is in its record or on its way.  The relay    *)
(* (transport_events.cpp:484-534), which skips whoever has no position,    *)
(* and the snapshot on arrival (transport.cpp:262-273), which covers the   *)
(* map alone, leave no other gap, whatever order claims, positions and     *)
(* departures reach the host in.                                           *)
(***************************************************************************)
CaughtUp ==
  \A c \in peers \cap Online :
    seen[c] # NoMap =>
      /\ registry \ missed[c] \subseteq recorded[c] \cup ToSet(down[c])
      /\ missed[c] \cap NotesIn(seen[c]) = {}

(***************************************************************************)
(* The host's own game misses no note its transport has decided            *)
(* (relay_event to the local inbox, transport_events.cpp:517-519): its     *)
(* record is what the mirror and the recount are made from.                *)
(***************************************************************************)
HostMissesNone == registry \subseteq recorded[Host] \cup ToSet(down[Host])

(***************************************************************************)
(* "Anything the host sends has already been adjudicated, so a client      *)
(* applies it unconditionally" (transport.cpp:430-433): nothing on its way *)
(* to a player is unknown to the registry, also after reconnections.       *)
(***************************************************************************)
OnlyDecidedNotes == \A p \in Players : ToSet(down[p]) \subseteq registry

(***************************************************************************)
(* The transport implements the ledger of SharedNotes: a registry that     *)
(* never loses or repeats a decision and holds only notes somebody picked  *)
(* up, and records that hold no others and only grow during a session.     *)
(***************************************************************************)
SN == INSTANCE SharedNotes WITH ledger <- registry, known <- recorded
ImplementsSharedNotes == SN!Spec

(***************************************************************************)
(* Fairness: the network thread keeps servicing (Transport::run), frames   *)
(* keep taking events that have arrived (of the mirror nothing is asked),  *)
(* a client keeps sending its position, and of the positions sent again    *)
(* and again from the map it stays in, one arrives.                        *)
(***************************************************************************)
TakingFrame(p) == Frame(p) /\ down' # down
ReceivePosition(c) == \E m \in Maps : m = at[c] /\ ReceiveState(c, m)

Fairness ==
  /\ \A p \in Players : WF_vars(TakingFrame(p)) /\ WF_vars(Adjudicate(p))
  /\ \A c \in Clients : WF_vars(SendState(c)) /\ SF_vars(ReceivePosition(c))

FairSpec == Spec /\ Fairness

(***************************************************************************)
(* A pickup made in the session is decided (transport_events.cpp:95-118,   *)
(* 536-560), unless the connection is lost first, on either side.          *)
(***************************************************************************)
InSession(p) == p \in Online \cap (peers \cup {Host})

ClaimsAreDecided ==
  \A p \in Players, n \in Notes :
    InSession(p) /\ n \in ToSet(up[p]) ~> n \in registry \/ ~InSession(p)

(***************************************************************************)
(* A decided note of the map a member stays in is recorded by that member, *)
(* whether the relay or the snapshot brings it: nobody is left with a note *)
(* that somebody else has collected.                                       *)
(***************************************************************************)
StaysInMap(c, n) == InSession(c) /\ at[c] = MapOf[n]

DecidedNotesArrive ==
  \A c \in Clients, n \in Notes :
    StaysInMap(c, n) /\ n \in registry
      ~> n \in recorded[c] \/ ~StaysInMap(c, n)
=============================================================================

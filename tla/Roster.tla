------------------------------- MODULE Roster -------------------------------
(***************************************************************************)
(* Who is in the session, as the host and as each client sees it: the      *)
(* handshake, the ids it hands out, the roster that announces arrivals and *)
(* departures, and the position stream, which announces them too.          *)
(*                                                                         *)
(* The service loop is the same over both links, and the host chooses one  *)
(* for the session.  Over ENet a position is an unsequenced packet that    *)
(* may be lost or overtake a roster or be overtaken by it, and the handle  *)
(* of a connection is the index of a slot that the next connection takes   *)
(* over.  Over a WebSocket (ordered) everything to one peer keeps its      *)
(* order, a handle is never used again, and a client reconnects by itself. *)
(*                                                                         *)
(* Packets wait in the host's network simulator (sim) before they reach    *)
(* the link; the two answers to a HELLO do not.                            *)
(***************************************************************************)
EXTENDS Integers, SequencesExt

CONSTANTS
  Clients,
  Handles,     \* the handles the host's link names connections by
  MaxPlayers,  \* BCNET_MAX_PLAYERS
  MaxSim       \* bound: packets in the simulator, and in the wire to each
               \* client, when a position joins them

HostId == 0
Ids == 0 .. MaxPlayers - 1
Nobody == 0     \* no client, no handle, and no id of a client
All == 0        \* kBroadcast

(* Handles are 32 bits wide, with 0 kept for the broadcast.                *)
ASSUME RosterAssumption ==
  /\ Handles \subseteq Nat \ {0} /\ IsFiniteSet(Handles)
  /\ Nobody \notin Clients
  /\ MaxPlayers \in Nat \ {0} /\ MaxSim \in Nat

VARIABLES
  ordered,  \* the session's link is a WebSocket, not ENet
  (* at the host *)
  link,     \* link[h]: the client connected on h, or Nobody
  greeted,  \* the connections whose HELLO has come in
  ids,      \* impl_->peer_ids: the id given to the peer on h
  nextId,   \* impl_->next_player_id
  active,   \* the slots in use, announced by broadcast_roster
  sim,      \* the queue of the network simulator
  (* at each client *)
  status,
  end,      \* end[c]: the connection the client's link holds, or Nobody
  myId,     \* local_player_id_
  view,     \* view[c]: the active slots
  (* in the network *)
  wire,     \* wire[c]: what reaches c in order
  air       \* air[c]: positions that reach c in any order

hostVars == <<ordered, link, greeted, ids, nextId, active>>
clientVars == <<status, end, myId, view>>
vars == <<ordered, link, greeted, ids, nextId, active, sim, status, end,
          myId, view, wire, air>>

Statuses == {"Offline", "Connecting", "Connected", "Failed", "Rejected"}
Messages ==
  [type : {"WELCOME", "STATE"}, id : Ids] \cup [type : {"REJECT"}]
    \cup [type : {"PEERS"}, ids : SUBSET Ids]

TypeOK ==
  /\ ordered \in BOOLEAN
  /\ link \in [Handles -> Clients \cup {Nobody}]
  /\ greeted \in SUBSET Handles
  /\ ids \in [Handles -> Ids]
  /\ nextId \in 1 .. MaxPlayers
  /\ active \in SUBSET Ids
  /\ sim \in Seq([to : Handles \cup {All}, msg : Messages])
  /\ status \in [Clients -> Statuses]
  /\ end \in [Clients -> Handles \cup {Nobody}]
  /\ myId \in [Clients -> Ids]
  /\ view \in [Clients -> SUBSET Ids]
  /\ wire \in [Clients -> Seq(Messages)]
  /\ air \in [Clients -> SUBSET Ids]

Init ==
  /\ ordered \in BOOLEAN
  /\ link = [h \in Handles |-> Nobody]
  /\ greeted = {}
  /\ ids = [h \in Handles |-> Nobody]
  /\ nextId = 1
  /\ active = {HostId}
  /\ sim = <<>>
  /\ status = [c \in Clients |-> "Offline"]
  /\ end = [c \in Clients |-> Nobody]
  /\ myId = [c \in Clients |-> 0]
  /\ view = [c \in Clients |-> {}]
  /\ wire = [c \in Clients |-> <<>>]
  /\ air = [c \in Clients |-> {}]

-----------------------------------------------------------------------------
(* The links.                                                              *)

(* A packet handed to the link for peer h goes nowhere when the handle or  *)
(* the client's end of it is stale.                                        *)
Reaches(h, c) == link[h] = c /\ end[c] = h

(* The handles a new connection may get: ENet takes the first free slot;   *)
(* a WebSocket counts up, and greeted never forgets.                       *)
FreeHandles ==
  LET free == {h \in Handles :
                 link[h] = Nobody /\ (ordered => h \notin greeted)}
  IN {h \in free : \A g \in free : h <= g}

(* The transports of c and the host are connected.  Over a WebSocket the   *)
(* client's library comes back here by itself after a failure.             *)
LinkUp(c) ==
  /\ end[c] = Nobody
  /\ \A h \in Handles : link[h] # c
  /\ \/ status[c] = "Connecting"
     \/ ordered /\ status[c] \in {"Failed", "Rejected"}
  /\ \E h \in FreeHandles :
       /\ link' = [link EXCEPT ![h] = c]
       /\ end' = [end EXCEPT ![c] = h]
       /\ greeted' = greeted \ {h}
  /\ UNCHANGED <<ordered, ids, nextId, active, sim, status, myId, view, wire,
                 air>>

(* pump_sim hands the oldest packet to the link.  A position to be sent    *)
(* without order may be lost on the way.                                   *)
PumpSim ==
  /\ sim # <<>>
  /\ sim' = Tail(sim)
  /\ LET msg == Head(sim).msg
         to == {c \in Clients : \E h \in Handles :
                  Reaches(h, c) /\ Head(sim).to \in {h, All}}
     IN IF msg.type = "STATE" /\ ~ordered
          THEN /\ wire' = wire
               /\ \E S \in SUBSET to :
                    air' = [c \in Clients |-> IF c \in S
                              THEN air[c] \cup {msg.id} ELSE air[c]]
          ELSE /\ air' = air
               /\ wire' = [c \in Clients |-> IF c \in to
                             THEN Append(wire[c], msg) ELSE wire[c]]
  /\ UNCHANGED <<hostVars, clientVars>>

-----------------------------------------------------------------------------
(* The host (service_host).                                                *)

(* broadcast_roster, for the given slots.                                  *)
Announce(slots) ==
  sim' = Append(sim, [to |-> All, msg |-> [type |-> "PEERS", ids |-> slots]])

(* The answer to a HELLO: sent to the link directly, ahead of the sim.     *)
Answer(h, msg) ==
  wire' = [c \in Clients |-> IF Reaches(h, c)
             THEN Append(wire[c], msg) ELSE wire[c]]

RoomFor(n) ==
  /\ Len(sim) + n <= MaxSim
  /\ \A c \in Clients : Len(wire[c]) <= MaxSim

(* The HELLO the client sent as soon as it was connected comes in.         *)
Greeting(h) ==
  /\ link[h] # Nobody
  /\ h \notin greeted
  /\ greeted' = greeted \cup {h}

(* Mutated forms: one player too many is admitted; the id is counted up    *)
(* between the slot and the answer.                                        *)
AdmitOneMore(h) ==
  /\ Greeting(h)
  /\ nextId <= MaxPlayers
  /\ ids' = [ids EXCEPT ![h] = nextId]
  /\ nextId' = nextId + 1
  /\ active' = active \cup {nextId}
  /\ Answer(h, [type |-> "WELCOME", id |-> nextId])
  /\ Announce(active')
  /\ UNCHANGED <<ordered, link, clientVars, air>>

AdmitRenumbered(h) ==
  /\ Greeting(h)
  /\ nextId < MaxPlayers
  /\ ids' = [ids EXCEPT ![h] = nextId]
  /\ nextId' = nextId + 1
  /\ active' = active \cup {nextId}
  /\ Answer(h, [type |-> "WELCOME", id |-> nextId'])
  /\ Announce(active')
  /\ UNCHANGED <<ordered, link, clientVars, air>>

(* A new member gets the next id; ids are never taken back.                *)
Admit(h) ==
  /\ Greeting(h)
  /\ nextId < MaxPlayers
  /\ ids' = [ids EXCEPT ![h] = nextId]
  /\ nextId' = nextId + 1
  /\ active' = active \cup {nextId}
  /\ Answer(h, [type |-> "WELCOME", id |-> nextId])
  /\ Announce(active')
  /\ UNCHANGED <<ordered, link, clientVars, air>>

(* A refused peer is disconnected; the Disconnect this brings finds no     *)
(* member and does nothing.                                                *)
Refuse(h) ==
  /\ Greeting(h)
  /\ nextId >= MaxPlayers
  /\ Answer(h, [type |-> "REJECT"])
  /\ link' = [link EXCEPT ![h] = Nobody]
  /\ UNCHANGED <<ordered, ids, nextId, active, sim, clientVars, air>>

(* A position comes in, under the id its sender believes to have, and if   *)
(* that is the sender's it is relayed to every other member.  One that     *)
(* arrives after its sender has left might as well have come before.       *)
RelayState(h) ==
  /\ \E c \in Clients : Reaches(h, c) /\ status[c] = "Connected"
  /\ LET id == myId[link[h]]
         others == {g \in Handles \ {h} : ids[g] # Nobody}
         relay(g) == [to |-> g, msg |-> [type |-> "STATE", id |-> id]]
     IN /\ id # Nobody /\ ids[h] = id
        /\ RoomFor(Cardinality(others))
        /\ sim' = sim \o [i \in 1 .. Cardinality(others) |->
                            relay(SetToSeq(others)[i])]
  /\ UNCHANGED <<hostVars, clientVars, wire, air>>

(* The host's link learns that a connection is over, or believes so.       *)
Hangup(h) ==
  /\ link[h] # Nobody
  /\ link' = [link EXCEPT ![h] = Nobody]
  /\ greeted' = IF ordered THEN greeted \cup {h} ELSE greeted
  /\ ids' = [ids EXCEPT ![h] = Nobody]

(* A mutated form: nobody is told of a departure.                          *)
DepartSilently(h) ==
  /\ Hangup(h)
  /\ active' = IF ids[h] = Nobody THEN active ELSE active \ {ids[h]}
  /\ UNCHANGED <<ordered, nextId, sim, clientVars, wire, air>>

(* A peer is gone.  If it was a member its slot is cleared, and the others *)
(* are told.                                                               *)
Depart(h) ==
  /\ Hangup(h)
  /\ active' = IF ids[h] = Nobody THEN active ELSE active \ {ids[h]}
  /\ IF ids[h] = Nobody THEN sim' = sim ELSE Announce(active')
  /\ UNCHANGED <<ordered, nextId, clientVars, wire, air>>

(* 30 times a second the host's own position goes to whoever is connected. *)
BroadcastState ==
  /\ RoomFor(1)
  /\ sim' = Append(sim, [to |-> All, msg |-> [type |-> "STATE", id |-> HostId]])
  /\ UNCHANGED <<hostVars, clientVars, wire, air>>

-----------------------------------------------------------------------------
(* A client (service_client).                                              *)

Join(c) ==
  /\ end[c] = Nobody
  /\ \A h \in Handles : link[h] # c
  /\ status[c] \in {"Offline", "Failed", "Rejected"}
  /\ status' = [status EXCEPT ![c] = "Connecting"]
  /\ myId' = [myId EXCEPT ![c] = 0]
  /\ view' = [view EXCEPT ![c] = {}]
  /\ wire' = [wire EXCEPT ![c] = <<>>] /\ air' = [air EXCEPT ![c] = {}]
  /\ UNCHANGED <<hostVars, sim, end>>

(* The connection is over for the client, or the player has ended it.      *)
ClientLoses(c, left) ==
  /\ end[c] # Nobody \/ (left /\ status[c] # "Offline")
  /\ status' = [status EXCEPT ![c] =
                  IF left THEN "Offline"
                  ELSE IF @ = "Rejected" THEN @ ELSE "Failed"]
  /\ myId' = IF left THEN [myId EXCEPT ![c] = 0] ELSE myId
  /\ end' = [end EXCEPT ![c] = Nobody]
  /\ view' = [view EXCEPT ![c] = {}]
  /\ wire' = [wire EXCEPT ![c] = <<>>] /\ air' = [air EXCEPT ![c] = {}]
  /\ UNCHANGED <<hostVars, sim>>

(* A position of player id reaches c, which takes it for a sign of life.   *)
AcceptState(c, id) ==
  IF id = myId[c]
    THEN UNCHANGED view
    ELSE view' = [view EXCEPT ![c] = @ \cup {id}]

FromAir(c) ==
  /\ \E id \in air[c] :
       /\ AcceptState(c, id)
       /\ air' \in {air, [air EXCEPT ![c] = @ \ {id}]}
  /\ UNCHANGED <<hostVars, sim, status, end, myId, wire>>

Received(c, type) ==
  wire[c] # <<>> /\ Head(wire[c]).type = type
    /\ wire' = [wire EXCEPT ![c] = Tail(@)]

FromWire(c) ==
  /\ Received(c, "STATE")
  /\ AcceptState(c, Head(wire[c]).id)
  /\ UNCHANGED <<hostVars, sim, status, end, myId, air>>

Welcome(c) ==
  /\ Received(c, "WELCOME")
  /\ myId' = [myId EXCEPT ![c] = Head(wire[c]).id]
  /\ view' = [view EXCEPT ![c] = @ \cup {HostId, Head(wire[c]).id}]
  /\ status' = [status EXCEPT ![c] = "Connected"]
  /\ UNCHANGED <<hostVars, sim, end, air>>

Rejected(c) ==
  /\ Received(c, "REJECT")
  /\ status' = [status EXCEPT ![c] = "Rejected"]
  /\ UNCHANGED <<hostVars, sim, end, myId, view, air>>

(* A roster replaces the view: who is not in it is gone.                   *)
Peers(c) ==
  /\ Received(c, "PEERS")
  /\ view' = [view EXCEPT ![c] = Head(wire[c]).ids]
  /\ UNCHANGED <<hostVars, sim, status, end, myId, air>>

Next ==
  \/ PumpSim \/ BroadcastState
  \/ \E h \in Handles : Admit(h) \/ Refuse(h) \/ RelayState(h) \/ Depart(h)
  \/ \E c \in Clients :
       \/ LinkUp(c) \/ Join(c) \/ FromAir(c) \/ FromWire(c) \/ Welcome(c)
       \/ Rejected(c) \/ Peers(c)
       \/ \E left \in BOOLEAN : ClientLoses(c, left)

Spec == Init /\ [][Next]_vars
-----------------------------------------------------------------------------
(***************************************************************************)
(* The host's slots and its table of peers tell the same story: a slot is  *)
(* in use exactly when it is the host's own or a peer in the table has its *)
(* id (peers_ and peer_ids, set and cleared together in service_host), so  *)
(* the roster announces the members and nobody else.                       *)
(***************************************************************************)
SlotsAreMembers ==
  active = {HostId} \cup ({ids[h] : h \in Handles} \ {Nobody})

(* Client c is connected, on both ends, and nothing about it or for it is  *)
(* on its way.                                                             *)
Settled(c) ==
  /\ status[c] = "Connected"
  /\ \E h \in greeted : Reaches(h, c)
  /\ sim = <<>> /\ wire[c] = <<>> /\ air[c] = {}

(***************************************************************************)
(* Host and client agree on the id under which the client speaks: the host *)
(* drops the positions of a client that is wrong about it                  *)
(* (transport.cpp:254-257), which would freeze the player for the others.  *)
(***************************************************************************)
SameId == \A c \in Clients : Settled(c) => ids[end[c]] = myId[c]

(***************************************************************************)
(* "Without this the other clients never find out" (transport.cpp:366-368, *)
(* of the roster that follows a departure): once everything sent has       *)
(* arrived, a client sees every player the host has, and over a link that  *)
(* keeps the order nobody else.  Over ENet a relayed position may arrive   *)
(* after the roster that dropped its player, and puts the player back.     *)
(***************************************************************************)
SameRoster ==
  \A c \in Clients : Settled(c) =>
    active \subseteq view[c] /\ (ordered => view[c] = active)
=============================================================================

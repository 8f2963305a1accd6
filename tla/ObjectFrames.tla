---------------------------- MODULE ObjectFrames ----------------------------
(***************************************************************************)
(* Object frames: which player publishes the objects of a map, how its     *)
(* frames reach the others, and which of them a receiver keeps.            *)
(*                                                                         *)
(* Every player computes by itself whether it owns the objects of the map  *)
(* it is in: it does when no player with a lower id is there, as far as it *)
(* knows.  An owner's frame goes to the host, or from the host, on the     *)
(* unsequenced channel, and the host passes it on to the members it        *)
(* believes to be in the frame's map.  A receiver keeps one frame, and the *)
(* number of the last one it accepted.                                     *)
(*                                                                         *)
(* Of a frame's content nothing is modelled but whether it has objects: an *)
(* empty one is not sent.                                                  *)
(***************************************************************************)
EXTENDS Integers, SequencesExt

CONSTANTS
  MaxPlayers,  \* the players are 0 .. MaxPlayers - 1, the host is 0
  Maps,
  NoMap,       \* no position received; no frame received
  Walkers,     \* the players that change maps
  MaxSeq,      \* bound: frames sent by one player
  MaxFlight    \* bound: frames in flight on all paths

ASSUME ObjectFramesAssumption ==
  /\ MaxPlayers \in Nat \ {0}
  /\ NoMap \notin Maps
  /\ MaxSeq \in Nat /\ MaxFlight \in Nat

Host == 0
Players == 0 .. MaxPlayers - 1
Clients == Players \ {Host}

VARIABLES
  at,        \* at[p]: the map p is in
  believed,  \* believed[p][q]: the map p has last heard q is in
  frame,     \* frame[p]: local_objects_, its map or NoMap when it is empty
  tx,        \* tx[p]: object_seq_tx_
  up,        \* up[c]: frames on their way from c to the host
  down,      \* down[c]: frames on their way from the host to c
  held,      \* held[c]: remote_objects_, with object_seq_rx_ as its number
  newest     \* history: newest[c][p], the last number of p's that c has kept

vars == <<at, believed, frame, tx, up, down, held, newest>>

Packets == [from : Players, seq : 1 .. MaxSeq, map : Maps]
NoPacket == [from |-> Host, seq |-> 0, map |-> NoMap]

TypeOK ==
  /\ at \in [Players -> Maps]
  /\ believed \in [Players -> [Players -> Maps \cup {NoMap}]]
  /\ frame \in [Players -> Maps \cup {NoMap}]
  /\ tx \in [Players -> 0 .. MaxSeq]
  /\ up \in [Clients -> Seq(Packets)]
  /\ down \in [Clients -> Seq(Packets)]
  /\ held \in [Clients -> Packets \cup {NoPacket}]
  /\ newest \in [Clients -> [Players -> 0 .. MaxSeq]]

Init ==
  /\ at \in [Players -> Maps]
  /\ believed = [p \in Players |-> [q \in Players |-> NoMap]]
  /\ frame = [p \in Players |-> NoMap]
  /\ tx = [p \in Players |-> 0]
  /\ up = [c \in Clients |-> <<>>]
  /\ down = [c \in Clients |-> <<>>]
  /\ held = [c \in Clients |-> NoPacket]
  /\ newest = [c \in Clients |-> [p \in Players |-> 0]]

-----------------------------------------------------------------------------
Move(p, m) ==
  /\ p \in Walkers
  /\ at[p] # m
  /\ at' = [at EXCEPT ![p] = m]
  /\ UNCHANGED <<believed, frame, tx, up, down, held, newest>>

(* A position of q reaches p.                                              *)
Learn(p, q) ==
  /\ p # q
  /\ believed[p][q] # at[q]
  /\ believed' = [believed EXCEPT ![p][q] = at[q]]
  /\ UNCHANGED <<at, frame, tx, up, down, held, newest>>

(* owns_enemies_here: the lowest id known to be in the map.                *)
Owns(p) == \A q \in Players \ {p} : believed[p][q] = at[p] => p < q

(* A frame of the game: an owner publishes what is near enough to somebody *)
(* and in phase, which may be nothing; everybody else publishes nothing.   *)
EnemySync(p) ==
  /\ \E m \in {NoMap} \cup (IF Owns(p) THEN {at[p]} ELSE {}) :
       frame' = [frame EXCEPT ![p] = m]
  /\ UNCHANGED <<at, believed, tx, up, down, held, newest>>

(* The members the host believes to be in map m.                           *)
Wanting(m) == {c \in Clients : believed[Host][c] = m}

(* Whether the bound leaves room for n more frames.                        *)
RoomFor(n) ==
  LET add(frames, k) == Len(frames) + k
  IN FoldFunction(add, n, up) + FoldFunction(add, 0, down) <= MaxFlight

SendTo(S, packet) ==
  /\ RoomFor(Cardinality(S))
  /\ down' = [c \in Clients |->
                IF c \in S THEN Append(down[c], packet) ELSE down[c]]

(* A mutated form: the number is counted up after it was sent.             *)
BroadcastFromZero(p) ==
  /\ frame[p] # NoMap
  /\ tx[p] < MaxSeq
  /\ tx' = [tx EXCEPT ![p] = @ + 1]
  /\ LET packet == [from |-> p, seq |-> tx[p], map |-> frame[p]] IN
       IF p = Host
         THEN SendTo(Wanting(frame[p]), packet) /\ up' = up
         ELSE /\ RoomFor(1)
              /\ up' = [up EXCEPT ![p] = Append(@, packet)]
              /\ down' = down
  /\ UNCHANGED <<at, believed, frame, held, newest>>

(* broadcast_objects, 30 times a second: the newest frame, if it has any   *)
(* objects.  A client sends to the host whatever map it is in.             *)
Broadcast(p) ==
  /\ frame[p] # NoMap
  /\ tx[p] < MaxSeq
  /\ tx' = [tx EXCEPT ![p] = @ + 1]
  /\ LET packet == [from |-> p, seq |-> tx'[p], map |-> frame[p]] IN
       IF p = Host
         THEN SendTo(Wanting(frame[p]), packet) /\ up' = up
         ELSE /\ RoomFor(1)
              /\ up' = [up EXCEPT ![p] = Append(@, packet)]
              /\ down' = down
  /\ UNCHANGED <<at, believed, frame, held, newest>>

(* The host passes a frame on as it is.  Any frame may be next.            *)
Relay(c) ==
  /\ \E i \in 1 .. Len(up[c]) :
       /\ SendTo(Wanting(up[c][i].map) \ {c}, up[c][i])
       /\ up' = [up EXCEPT ![c] = RemoveAt(@, i)]
  /\ UNCHANGED <<at, believed, frame, tx, held, newest>>

Lose(c) ==
  /\ \/ /\ \E i \in 1 .. Len(up[c]) : up' = [up EXCEPT ![c] = RemoveAt(@, i)]
        /\ down' = down
     \/ /\ \E i \in 1 .. Len(down[c]) :
             down' = [down EXCEPT ![c] = RemoveAt(@, i)]
        /\ up' = up
  /\ UNCHANGED <<at, believed, frame, tx, held, newest>>

(* A mutated form: whatever arrives is kept.                               *)
KeepsAll(c, packet) == TRUE

(* Whether accept_objects keeps a frame: another map starts from zero.     *)
Keeps(c, packet) == packet.map # held[c].map \/ packet.seq > held[c].seq

Receive(c) ==
  /\ \E i \in 1 .. Len(down[c]) :
       LET packet == down[c][i] IN
       /\ down' = [down EXCEPT ![c] = RemoveAt(@, i)]
       /\ IF Keeps(c, packet)
            THEN /\ held' = [held EXCEPT ![c] = packet]
                 /\ newest' = [newest EXCEPT ![c][packet.from] =
                                 IF packet.seq > @ THEN packet.seq ELSE @]
            ELSE UNCHANGED <<held, newest>>
  /\ UNCHANGED <<at, believed, frame, tx, up>>

Next ==
  \/ \E p \in Players :
       \/ EnemySync(p) \/ Broadcast(p)
       \/ \E m \in Maps : Move(p, m)
       \/ \E q \in Players : Learn(p, q)
  \/ \E c \in Clients : Relay(c) \/ Lose(c) \/ Receive(c)

Spec == Init /\ [][Next]_vars
-----------------------------------------------------------------------------
(***************************************************************************)
(* "applying it would drag every enemy back to where it was"               *)
(* (transport_events.cpp:218-219): a frame kept by a player who stays in   *)
(* its map was sent after every frame of that sender it has kept.  Of a    *)
(* player who walks this is not so: a late frame of the map it has left    *)
(* sets the number back to zero, and any frame of its map passes then.     *)
(***************************************************************************)
NoStepBack ==
  [][\A c \in Clients \ Walkers :
       held'[c] # held[c] /\ held'[c].map = at[c]
         => held'[c].seq > newest[c][held'[c].from]]_vars

(***************************************************************************)
(* "same idea, one counter per sender" (transport_events.cpp:220): when    *)
(* the publisher of a map has left it, frames of the next one, which is    *)
(* the player with the lowest id there and newer than all the receiver has *)
(* kept of that player, are not taken for stale ones.                      *)
(***************************************************************************)
In(m) == {p \in Players : at[p] = m}

HandedOver(c, packet) ==
  /\ packet.map = at[c] /\ packet.from \in In(at[c])
  /\ \A q \in In(at[c]) : packet.from <= q
  /\ held[c].from \notin In(at[c])

FreshFramesPass ==
  \A c \in Clients : \A packet \in ToSet(down[c]) :
    HandedOver(c, packet) /\ packet.seq > newest[c][packet.from]
      => Keeps(c, packet)
=============================================================================

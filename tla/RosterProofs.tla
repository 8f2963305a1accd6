---------------------------- MODULE RosterProofs ----------------------------
(***************************************************************************)
(* Proofs about Roster, for any number of clients, handles and ids, over   *)
(* either link.                                                            *)
(***************************************************************************)
EXTENDS Roster, SeqSetLemmas

USE RosterAssumption DEF Nobody, HostId, All

-----------------------------------------------------------------------------
(* The inductive invariant.                                                *)

(* A peer with an id is connected and has been greeted, its id has been    *)
(* handed out, and to nobody else.                                         *)
MembersOnce ==
  /\ \A h \in Handles : ids[h] # Nobody =>
       link[h] # Nobody /\ h \in greeted /\ ids[h] < nextId
  /\ \A g, h \in Handles : ids[g] = ids[h] /\ ids[h] # Nobody => g = h

(* The answer to a HELLO does not wait in the simulator.                   *)
AnswersBypass == \A packet \in ToSet(sim) : packet.msg.type # "WELCOME"

(* Nothing reaches a client without a connection.                          *)
Unlinked == \A c \in Clients : end[c] = Nobody => wire[c] = <<>>

Welcomes(c) == {m \in ToSet(wire[c]) : m.type = "WELCOME"}

(* On a connection that both ends hold, the WELCOME comes once, after the  *)
(* HELLO, and names the id the host has noted.                             *)
HelloAnswered ==
  \A c \in Clients, h \in Handles : Reaches(h, c) =>
    IF h \in greeted
      THEN /\ \A m \in Welcomes(c) : m.id = ids[h]
           /\ Welcomes(c) = {} => myId[c] = ids[h]
      ELSE Welcomes(c) = {}

IInv ==
  TypeOK /\ MembersOnce /\ SlotsAreMembers /\ AnswersBypass /\ Unlinked
    /\ HelloAnswered

-----------------------------------------------------------------------------
(* Lemmas.                                                                 *)

LEMMA MessageSorts ==
  /\ \A id \in Ids : [type |-> "WELCOME", id |-> id] \in Messages
  /\ \A id \in Ids : [type |-> "STATE", id |-> id] \in Messages
  /\ [type |-> "REJECT"] \in Messages
  /\ \A S \in SUBSET Ids : [type |-> "PEERS", ids |-> S] \in Messages
  /\ \A m \in Messages : m.type \in {"WELCOME", "STATE"} => m.id \in Ids
  /\ \A m \in Messages : m.type = "PEERS" => m.ids \in SUBSET Ids
<1>1. \A m : m \in Messages <=>
        \/ m \in [type : {"WELCOME", "STATE"}, id : Ids]
        \/ m \in [type : {"REJECT"}]
        \/ m \in [type : {"PEERS"}, ids : SUBSET Ids]
  BY DEF Messages
<1>2. \A m \in [type : {"WELCOME", "STATE"}, id : Ids] :
        m.id \in Ids /\ m.type \in {"WELCOME", "STATE"}
  OBVIOUS
<1>3. \A m \in [type : {"REJECT"}] : m.type = "REJECT"
  OBVIOUS
<1>4. \A m \in [type : {"PEERS"}, ids : SUBSET Ids] :
        m.type = "PEERS" /\ m.ids \in SUBSET Ids
  OBVIOUS
<1>5. \A m \in Messages : m.type \in {"WELCOME", "STATE"} => m.id \in Ids
  BY <1>1, <1>2, <1>3, <1>4
<1>6. \A m \in Messages : m.type = "PEERS" => m.ids \in SUBSET Ids
  BY <1>1, <1>2, <1>3, <1>4
<1> QED BY <1>1, <1>5, <1>6

(* A finite set can be put in order.                                       *)
LEMMA SomeOrder ==
  ASSUME NEW S, IsFiniteSet(S)
  PROVE  /\ Cardinality(S) \in Nat
         /\ \A i \in 1 .. Cardinality(S) : SetToSeq(S)[i] \in S
<1>1. Cardinality(S) \in Nat /\ ExistsBijection(1 .. Cardinality(S), S)
  BY FS_CardinalityType
<1>2. \E f \in [1 .. Cardinality(S) -> S] : IsInjective(f)
  BY <1>1 DEF ExistsBijection, Bijection, Injection
<1>3. SetToSeq(S) \in [1 .. Cardinality(S) -> S]
  BY <1>2 DEF SetToSeq
<1> QED BY <1>1, <1>3

(* A message to the clients of S, who have a connection.                   *)
LEMMA WireSent ==
  ASSUME IInv, NEW S \in SUBSET Clients, \A c \in S : end[c] # Nobody,
         NEW msg \in Messages,
         wire' = [c \in Clients |->
                    IF c \in S THEN Append(wire[c], msg) ELSE wire[c]]
  PROVE  /\ wire' \in [Clients -> Seq(Messages)]
         /\ \A c \in Clients : end[c] = Nobody => wire'[c] = <<>>
         /\ \A c \in S : ToSet(wire'[c]) = ToSet(wire[c]) \cup {msg}
         /\ \A c \in Clients \ S : wire'[c] = wire[c]
<1> USE DEF IInv
<1>1. \A c \in Clients : wire[c] \in Seq(Messages)
  BY DEF TypeOK
<1>2. \A c \in Clients :
        /\ Append(wire[c], msg) \in Seq(Messages)
        /\ ToSet(Append(wire[c], msg)) = ToSet(wire[c]) \cup {msg}
  BY <1>1, AppendSet
<1>3. \A c \in S : wire'[c] = Append(wire[c], msg)
  OBVIOUS
<1>4. \A c \in Clients \ S : wire'[c] = wire[c]
  OBVIOUS
<1>5. wire' \in [Clients -> Seq(Messages)]
  BY <1>1, <1>2
<1>6. \A c \in Clients : end[c] = Nobody => wire'[c] = <<>>
  BY <1>4 DEF Unlinked
<1>7. \A c \in S : ToSet(wire'[c]) = ToSet(wire[c]) \cup {msg}
  BY <1>2, <1>3
<1> QED BY <1>4, <1>5, <1>6, <1>7

(* The next message is taken from the wire to c.                           *)
LEMMA WireTaken ==
  ASSUME IInv, NEW c \in Clients, NEW type, Received(c, type)
  PROVE  /\ Head(wire[c]) \in Messages /\ Head(wire[c]).type = type
         /\ Head(wire[c]) \in ToSet(wire[c])
         /\ wire' \in [Clients -> Seq(Messages)]
         /\ ToSet(wire'[c]) \subseteq ToSet(wire[c])
         /\ ToSet(wire[c]) \subseteq ToSet(wire'[c]) \cup {Head(wire[c])}
         /\ \A d \in Clients \ {c} : wire'[d] = wire[d]
         /\ end[c] # Nobody
<1> USE DEF IInv
<1>1. wire[c] \in Seq(Messages) /\ wire[c] # <<>>
  BY DEF TypeOK, Received
<1>2. /\ Head(wire[c]) \in Messages /\ Tail(wire[c]) \in Seq(Messages)
      /\ ToSet(wire[c]) = {Head(wire[c])} \cup ToSet(Tail(wire[c]))
  BY <1>1, HeadTailSet
<1>3. wire' = [wire EXCEPT ![c] = Tail(@)]
  BY DEF Received
<1>4. wire' \in [Clients -> Seq(Messages)] /\ wire'[c] = Tail(wire[c])
  BY <1>2, <1>3 DEF TypeOK
<1>5. \A d \in Clients \ {c} : wire'[d] = wire[d]
  BY <1>3 DEF TypeOK
<1>6. Head(wire[c]).type = type
  BY DEF Received
<1>7. end[c] # Nobody
  BY <1>1 DEF Unlinked
<1> QED BY <1>2, <1>4, <1>5, <1>6, <1>7

(* What waits in the simulator.                                            *)
Packets == [to : Handles \cup {All}, msg : Messages]

(* Packets that join the simulator, none of them an answer.                *)
LEMMA Queued ==
  ASSUME IInv, NEW s \in Seq(Packets),
         \A packet \in ToSet(s) : packet.msg.type # "WELCOME",
         sim' = sim \o s
  PROVE  /\ sim' \in Seq(Packets)
         /\ AnswersBypass'
<1> USE DEF IInv
<1>1. sim \in Seq(Packets)
  BY DEF TypeOK, Packets
<1>2. /\ sim' \in Seq(Packets)
      /\ ToSet(sim') = ToSet(sim) \cup ToSet(s)
  BY <1>1, ConcatSet
<1> QED BY <1>2 DEF AnswersBypass

LEMMA OneQueued ==
  ASSUME IInv, NEW packet \in Packets,
         packet.msg.type # "WELCOME", sim' = Append(sim, packet)
  PROVE  /\ sim' \in Seq(Packets)
         /\ AnswersBypass'
<1> USE DEF IInv
<1>1. sim \in Seq(Packets)
  BY DEF TypeOK, Packets
<1>2. /\ sim' \in Seq(Packets)
      /\ ToSet(sim') = ToSet(sim) \cup {packet}
  BY <1>1, AppendSet
<1> QED BY <1>2 DEF AnswersBypass

LEMMA Announced ==
  ASSUME IInv, NEW slots \in SUBSET Ids, Announce(slots)
  PROVE  /\ sim' \in Seq(Packets)
         /\ AnswersBypass'
<1> DEFINE packet == [to |-> All, msg |-> [type |-> "PEERS", ids |-> slots]]
<1>1. packet \in Packets
  BY MessageSorts DEF Packets
<1>2. packet.msg.type # "WELCOME" /\ sim' = Append(sim, packet)
  BY DEF Announce
<1> HIDE DEF packet
<1> QED BY <1>1, <1>2, OneQueued

-----------------------------------------------------------------------------
(* The actions.                                                            *)

LEMMA InitIInv == Init => IInv
<1> SUFFICES ASSUME Init PROVE IInv
  OBVIOUS
<1>1. \A s : s = <<>> => ToSet(s) = {}
  BY DEF ToSet
<1>2. <<>> \in Seq(Packets) /\ <<>> \in Seq(Messages)
  OBVIOUS
<1>3. HostId \in Ids /\ 1 \in 1 .. MaxPlayers
  BY DEF Ids
<1>4. TypeOK
  BY <1>2, <1>3 DEF Init, TypeOK, Statuses, Packets
<1>5. MembersOnce
  BY DEF Init, MembersOnce
<1>6. SlotsAreMembers
  BY DEF Init, SlotsAreMembers
<1>7. AnswersBypass /\ Unlinked
  BY <1>1 DEF Init, AnswersBypass, Unlinked
<1>8. HelloAnswered
  BY DEF Init, HelloAnswered, Reaches
<1> QED BY <1>4, <1>5, <1>6, <1>7, <1>8 DEF IInv

LEMMA LinkUpIInv ==
  ASSUME IInv, NEW c \in Clients, LinkUp(c)
  PROVE  IInv'
<1> USE DEF IInv
<1>1. PICK h \in FreeHandles :
        /\ link' = [link EXCEPT ![h] = c]
        /\ end' = [end EXCEPT ![c] = h]
        /\ greeted' = greeted \ {h}
  BY DEF LinkUp
<1>2. /\ UNCHANGED <<ordered, ids, nextId, active, sim, status, myId, view,
                     wire, air>>
      /\ end[c] = Nobody
  BY DEF LinkUp
<1>3. h \in Handles /\ link[h] = Nobody
  BY DEF FreeHandles
<1>4. TypeOK'
  BY <1>1, <1>2, <1>3 DEF TypeOK
<1>5. ids[h] = Nobody
  BY <1>3 DEF MembersOnce
<1>6. \A g \in Handles \ {h} : link'[g] = link[g] /\ (g \in greeted' <=> g \in greeted)
  BY <1>1 DEF TypeOK
<1>7. MembersOnce'
  BY <1>2, <1>5, <1>6 DEF MembersOnce
<1>8. SlotsAreMembers' /\ AnswersBypass'
  BY <1>2 DEF SlotsAreMembers, AnswersBypass
<1>9. \A d \in Clients \ {c} : end'[d] = end[d]
  BY <1>1 DEF TypeOK
<1>10. end'[c] = h /\ link'[h] = c /\ h \notin greeted'
  BY <1>1, <1>3 DEF TypeOK
<1>11. Unlinked'
  BY <1>2, <1>9 DEF Unlinked
<1>12. HelloAnswered'
  <2> SUFFICES ASSUME NEW d \in Clients, NEW g \in Handles, Reaches(g, d)'
               PROVE  IF g \in greeted'
                        THEN /\ \A m \in Welcomes(d)' : m.id = ids[g]
                             /\ Welcomes(d)' = {} => myId[d] = ids[g]
                        ELSE Welcomes(d)' = {}
    BY <1>2 DEF HelloAnswered
  <2>1. Welcomes(d)' = Welcomes(d)
    BY <1>2 DEF Welcomes
  <2>2. CASE d = c
    <3>1. g = h
      BY <1>10, <2>2 DEF Reaches
    <3>2. Welcomes(c) = {}
      BY <1>2 DEF Unlinked, Welcomes, ToSet
    <3> QED BY <1>10, <2>1, <2>2, <3>1, <3>2
  <2>3. CASE d # c
    <3>1. g # h
      BY <1>10, <2>3 DEF Reaches
    <3>2. Reaches(g, d)
      BY <1>6, <1>9, <2>3, <3>1 DEF Reaches
    <3>3. g \in greeted' <=> g \in greeted
      BY <1>6, <3>1
    <3>4. IF g \in greeted
            THEN /\ \A m \in Welcomes(d) : m.id = ids[g]
                 /\ Welcomes(d) = {} => myId[d] = ids[g]
            ELSE Welcomes(d) = {}
      BY <3>2 DEF HelloAnswered
    <3> QED BY <2>1, <3>3, <3>4
  <2> QED BY <2>2, <2>3
<1> QED BY <1>4, <1>7, <1>8, <1>11, <1>12

(* What a step leaves alone, when neither the connections nor the ids nor  *)
(* who has been greeted changes and no WELCOME is sent or taken.           *)
LEMMA SameConnections ==
  ASSUME IInv, UNCHANGED <<link, greeted, ids, nextId, active, end, myId>>,
         \A c \in Clients : Welcomes(c)' = Welcomes(c)
  PROVE  MembersOnce' /\ SlotsAreMembers' /\ HelloAnswered'
<1> USE DEF IInv
<1>1. MembersOnce'
  BY DEF MembersOnce
<1>2. SlotsAreMembers'
  BY DEF SlotsAreMembers
<1>3. \A c \in Clients, h \in Handles : Reaches(h, c)' <=> Reaches(h, c)
  BY DEF Reaches
<1>4. HelloAnswered'
  BY <1>3 DEF HelloAnswered
<1> QED BY <1>1, <1>2, <1>4

LEMMA PumpSimIInv ==
  ASSUME IInv, PumpSim
  PROVE  IInv'
<1> USE DEF IInv
<1> DEFINE msg == Head(sim).msg
           to == {c \in Clients : \E h \in Handles :
                    Reaches(h, c) /\ Head(sim).to \in {h, All}}
<1>1. sim \in Seq(Packets) /\ sim # <<>> /\ sim' = Tail(sim)
  BY DEF PumpSim, TypeOK, Packets
<1>2. /\ Head(sim) \in Packets /\ Tail(sim) \in Seq(Packets)
      /\ ToSet(sim) = {Head(sim)} \cup ToSet(Tail(sim))
  BY <1>1, HeadTailSet
<1>3. msg \in Messages /\ msg.type # "WELCOME"
  BY <1>2 DEF Packets, AnswersBypass
<1>4. sim' \in Seq(Packets) /\ AnswersBypass'
  BY <1>1, <1>2 DEF AnswersBypass
<1>5. UNCHANGED <<hostVars, clientVars>>
  BY DEF PumpSim
<1>6. \/ /\ wire' = wire /\ msg.type = "STATE"
         /\ \E S \in SUBSET to :
              air' = [c \in Clients |-> IF c \in S
                        THEN air[c] \cup {msg.id} ELSE air[c]]
      \/ /\ air' = air
         /\ wire' = [c \in Clients |-> IF c \in to
                       THEN Append(wire[c], msg) ELSE wire[c]]
  BY DEF PumpSim
<1>7. to \in SUBSET Clients /\ \A c \in to : end[c] # Nobody
  BY DEF Reaches
<1> HIDE DEF msg, to
<1>8. CASE /\ wire' = wire /\ msg.type = "STATE"
           /\ \E S \in SUBSET to :
                air' = [c \in Clients |-> IF c \in S
                          THEN air[c] \cup {msg.id} ELSE air[c]]
  <2>1. msg.id \in Ids
    BY <1>3, <1>8, MessageSorts
  <2>2. air' \in [Clients -> SUBSET Ids]
    BY <1>8, <2>1 DEF TypeOK
  <2>3. TypeOK'
    BY <1>4, <1>5, <1>8, <2>2 DEF TypeOK, hostVars, clientVars, Packets
  <2>4. \A c \in Clients : Welcomes(c)' = Welcomes(c)
    BY <1>8 DEF Welcomes
  <2>5. Unlinked'
    BY <1>5, <1>8 DEF Unlinked, clientVars
  <2> QED BY <1>4, <1>5, <2>3, <2>4, <2>5, SameConnections DEF hostVars, clientVars
<1>9. CASE /\ air' = air
           /\ wire' = [c \in Clients |-> IF c \in to
                         THEN Append(wire[c], msg) ELSE wire[c]]
  <2>1. /\ wire' \in [Clients -> Seq(Messages)]
        /\ \A c \in Clients : end[c] = Nobody => wire'[c] = <<>>
        /\ \A c \in to : ToSet(wire'[c]) = ToSet(wire[c]) \cup {msg}
        /\ \A c \in Clients \ to : wire'[c] = wire[c]
    BY <1>3, <1>7, <1>9, WireSent
  <2>2. TypeOK'
    BY <1>4, <1>5, <1>9, <2>1 DEF TypeOK, hostVars, clientVars, Packets
  <2>3. \A c \in Clients : Welcomes(c)' = Welcomes(c)
    <3> TAKE c \in Clients
    <3>1. CASE c \in to
      BY <1>3, <2>1, <3>1 DEF Welcomes
    <3>2. CASE c \notin to
      BY <2>1, <3>2 DEF Welcomes
    <3> QED BY <3>1, <3>2
  <2>4. Unlinked'
    BY <1>5, <2>1 DEF Unlinked, clientVars
  <2> QED BY <1>4, <1>5, <2>2, <2>3, <2>4, SameConnections DEF hostVars, clientVars
<1> QED BY <1>6, <1>8, <1>9

LEMMA BroadcastStateIInv ==
  ASSUME IInv, BroadcastState
  PROVE  IInv'
<1> USE DEF IInv
<1> DEFINE packet == [to |-> All, msg |-> [type |-> "STATE", id |-> HostId]]
<1>1. UNCHANGED <<hostVars, clientVars, wire, air>> /\ sim' = Append(sim, packet)
  BY DEF BroadcastState
<1>2. packet \in Packets /\ packet.msg.type # "WELCOME"
  <2>1. HostId \in Ids
    BY DEF Ids
  <2> QED BY <2>1, MessageSorts DEF Packets
<1> HIDE DEF packet
<1>3. sim' \in Seq(Packets) /\ AnswersBypass'
  BY <1>1, <1>2, OneQueued
<1>4. TypeOK' /\ Unlinked'
  BY <1>1, <1>3 DEF TypeOK, Unlinked, hostVars, clientVars, Packets
<1>5. \A c \in Clients : Welcomes(c)' = Welcomes(c)
  BY <1>1 DEF Welcomes
<1> QED BY <1>1, <1>3, <1>4, <1>5, SameConnections DEF hostVars, clientVars

LEMMA RelayStateIInv ==
  ASSUME IInv, NEW h \in Handles, RelayState(h)
  PROVE  IInv'
<1> USE DEF IInv
<1> DEFINE id == myId[link[h]]
           others == {g \in Handles \ {h} : ids[g] # Nobody}
           n == Cardinality(others)
           relayed == [i \in 1 .. n |->
                         [to |-> SetToSeq(others)[i],
                          msg |-> [type |-> "STATE", id |-> id]]]
<1>1. /\ UNCHANGED <<hostVars, clientVars, wire, air>>
      /\ sim' = sim \o relayed
      /\ ids[h] = id
  BY DEF RelayState
<1>2. n \in Nat /\ \A i \in 1 .. n : SetToSeq(others)[i] \in others
  <2>1. IsFiniteSet(others)
    BY FS_Subset
  <2> QED BY <2>1, SomeOrder
<1>3. id \in Ids
  BY <1>1 DEF TypeOK
<1>4. \A i \in 1 .. n : relayed[i] \in Packets /\ relayed[i].msg.type = "STATE"
  <2> SUFFICES ASSUME NEW i \in 1 .. n
               PROVE  relayed[i] \in Packets /\ relayed[i].msg.type = "STATE"
    OBVIOUS
  <2>1. SetToSeq(others)[i] \in Handles
    BY <1>2
  <2>2. relayed[i] = [to |-> SetToSeq(others)[i],
                      msg |-> [type |-> "STATE", id |-> id]]
    OBVIOUS
  <2> HIDE DEF relayed, others, id
  <2> QED BY <1>3, <2>1, <2>2, MessageSorts DEF Packets
<1>5. relayed \in Seq(Packets) /\ Len(relayed) = n
  <2>1. relayed \in [1 .. n -> Packets]
    BY <1>4
  <2> HIDE DEF relayed, n
  <2> QED BY <1>2, <2>1
<1> HIDE DEF relayed, n, others, id
<1>6. \A packet \in ToSet(relayed) : packet.msg.type # "WELCOME"
  BY <1>4, <1>5, InSet
<1>7. sim' \in Seq(Packets) /\ AnswersBypass'
  BY <1>1, <1>5, <1>6, Queued
<1>8. TypeOK' /\ Unlinked'
  BY <1>1, <1>7 DEF TypeOK, Unlinked, hostVars, clientVars, Packets
<1>9. \A c \in Clients : Welcomes(c)' = Welcomes(c)
  BY <1>1 DEF Welcomes
<1> QED BY <1>1, <1>7, <1>8, <1>9, SameConnections DEF hostVars, clientVars

(* An answer goes to the client whose connection this is, and to no other. *)
LEMMA Answered ==
  ASSUME IInv, NEW h \in Handles, NEW msg \in Messages, Answer(h, msg)
  PROVE  /\ wire' \in [Clients -> Seq(Messages)]
         /\ \A c \in Clients : end[c] = Nobody => wire'[c] = <<>>
         /\ \A c \in Clients : Reaches(h, c) =>
              ToSet(wire'[c]) = ToSet(wire[c]) \cup {msg}
         /\ \A c \in Clients : ~Reaches(h, c) => wire'[c] = wire[c]
<1> DEFINE S == {c \in Clients : Reaches(h, c)}
<1>1. \A c \in S : end[c] # Nobody
  BY DEF Reaches
<1>2. wire' = [c \in Clients |->
                 IF c \in S THEN Append(wire[c], msg) ELSE wire[c]]
  BY DEF Answer
<1>3. /\ wire' \in [Clients -> Seq(Messages)]
      /\ \A c \in Clients : end[c] = Nobody => wire'[c] = <<>>
      /\ \A c \in S : ToSet(wire'[c]) = ToSet(wire[c]) \cup {msg}
      /\ \A c \in Clients \ S : wire'[c] = wire[c]
  <2> HIDE DEF S
  <2>1. S \in SUBSET Clients
    BY DEF S
  <2> QED BY <1>1, <1>2, <2>1, WireSent
<1> QED BY <1>3

LEMMA AdmitIInv ==
  ASSUME IInv, NEW h \in Handles, Admit(h)
  PROVE  IInv'
<1> USE DEF IInv
<1> DEFINE msg == [type |-> "WELCOME", id |-> nextId]
<1>1. /\ link[h] # Nobody /\ h \notin greeted /\ greeted' = greeted \cup {h}
      /\ nextId < MaxPlayers
      /\ ids' = [ids EXCEPT ![h] = nextId]
      /\ nextId' = nextId + 1
      /\ active' = active \cup {nextId}
      /\ Answer(h, msg)
      /\ UNCHANGED <<ordered, link, clientVars, air>>
  BY DEF Admit, Greeting
<1>2. nextId \in Ids /\ nextId # Nobody /\ nextId' \in 1 .. MaxPlayers
      /\ nextId \in Nat
  BY <1>1 DEF TypeOK, Ids
<1>3. active' \in SUBSET Ids
  BY <1>1, <1>2 DEF TypeOK
<1>4. sim' \in Seq(Packets) /\ AnswersBypass'
  <2>1. Announce(active')
    BY DEF Admit
  <2> QED BY <1>3, <2>1, Announced
<1>5. msg \in Messages
  BY <1>2, MessageSorts
<1>6. msg.type = "WELCOME" /\ msg.id = nextId
  OBVIOUS
<1> HIDE DEF msg
<1>7. /\ wire' \in [Clients -> Seq(Messages)]
      /\ \A c \in Clients : end[c] = Nobody => wire'[c] = <<>>
      /\ \A c \in Clients : Reaches(h, c) =>
           ToSet(wire'[c]) = ToSet(wire[c]) \cup {msg}
      /\ \A c \in Clients : ~Reaches(h, c) => wire'[c] = wire[c]
  BY <1>1, <1>5, Answered
<1>8. TypeOK'
  BY <1>1, <1>2, <1>3, <1>4, <1>7 DEF TypeOK, clientVars, Packets
<1>9. /\ ids[h] = Nobody /\ ids'[h] = nextId
      /\ \A g \in Handles \ {h} : ids'[g] = ids[g]
  BY <1>1 DEF TypeOK, MembersOnce
<1>10. \A g \in Handles : ids[g] # Nobody => ids[g] < nextId /\ ids[g] \in Nat
  BY DEF MembersOnce, TypeOK, Ids
<1>11. MembersOnce'
  <2>1. ASSUME NEW g \in Handles, ids'[g] # Nobody
        PROVE  link'[g] # Nobody /\ g \in greeted' /\ ids'[g] < nextId'
    <3>1. CASE g = h
      BY <1>1, <1>2, <1>9, <3>1
    <3>2. CASE g # h
      BY <1>1, <1>2, <1>9, <1>10, <2>1, <3>2 DEF MembersOnce
    <3> QED BY <3>1, <3>2
  <2>2. ASSUME NEW g \in Handles, NEW k \in Handles, ids'[g] = ids'[k],
               ids'[k] # Nobody
        PROVE  g = k
    <3>1. CASE g # h /\ k # h
      BY <1>9, <2>2, <3>1 DEF MembersOnce
    <3>2. CASE g = h /\ k # h
      BY <1>2, <1>9, <1>10, <2>2, <3>2
    <3>3. CASE g # h /\ k = h
      BY <1>2, <1>9, <1>10, <2>2, <3>3
    <3> QED BY <3>1, <3>2, <3>3
  <2> QED BY <2>1, <2>2 DEF MembersOnce
<1>12. SlotsAreMembers'
  <2>1. {ids'[g] : g \in Handles} \ {Nobody} =
          ({ids[g] : g \in Handles} \ {Nobody}) \cup {nextId}
    BY <1>2, <1>9
  <2> QED BY <1>1, <2>1 DEF SlotsAreMembers
<1>13. Unlinked'
  BY <1>1, <1>7 DEF Unlinked, clientVars
<1>14. HelloAnswered'
  <2> SUFFICES ASSUME NEW d \in Clients, NEW g \in Handles, Reaches(g, d)
               PROVE  IF g \in greeted'
                        THEN /\ \A m \in Welcomes(d)' : m.id = ids'[g]
                             /\ Welcomes(d)' = {} => myId[d] = ids'[g]
                        ELSE Welcomes(d)' = {}
    BY <1>1 DEF HelloAnswered, Reaches, clientVars
  <2>1. CASE g = h
    <3>1. Welcomes(d) = {}
      BY <1>1, <2>1 DEF HelloAnswered
    <3>2. ToSet(wire'[d]) = ToSet(wire[d]) \cup {msg}
      BY <1>7, <2>1
    <3>3. Welcomes(d)' = {msg}
      BY <1>6, <3>1, <3>2 DEF Welcomes
    <3> QED BY <1>1, <1>6, <1>9, <2>1, <3>3
  <2>2. CASE g # h
    <3>1. ~Reaches(h, d)
      BY <2>2 DEF Reaches
    <3>2. Welcomes(d)' = Welcomes(d)
      BY <1>7, <3>1 DEF Welcomes
    <3>3. ids'[g] = ids[g] /\ (g \in greeted' <=> g \in greeted)
      BY <1>1, <1>9, <2>2
    <3>4. IF g \in greeted
            THEN /\ \A m \in Welcomes(d) : m.id = ids[g]
                 /\ Welcomes(d) = {} => myId[d] = ids[g]
            ELSE Welcomes(d) = {}
      BY DEF HelloAnswered
    <3> QED BY <3>2, <3>3, <3>4
  <2> QED BY <2>1, <2>2
<1> QED BY <1>4, <1>8, <1>11, <1>12, <1>13, <1>14

(* A connection that the host lets go of, with its id if it had one.       *)
LEMMA ConnectionDropped ==
  ASSUME IInv, NEW h \in Handles,
         link' = [link EXCEPT ![h] = Nobody],
         ids' = [ids EXCEPT ![h] = Nobody],
         greeted' \in {greeted, greeted \cup {h}},
         UNCHANGED <<nextId, end, myId>>,
         \A c \in Clients : ~Reaches(h, c) => wire'[c] = wire[c]
  PROVE  MembersOnce' /\ HelloAnswered'
<1> USE DEF IInv
<1>1. /\ link'[h] = Nobody /\ ids'[h] = Nobody
      /\ \A g \in Handles \ {h} :
           /\ link'[g] = link[g] /\ ids'[g] = ids[g]
           /\ g \in greeted' <=> g \in greeted
  BY DEF TypeOK
<1>2. MembersOnce'
  BY <1>1 DEF MembersOnce
<1>3. HelloAnswered'
  <2> SUFFICES ASSUME NEW d \in Clients, NEW g \in Handles, Reaches(g, d)'
               PROVE  IF g \in greeted'
                        THEN /\ \A m \in Welcomes(d)' : m.id = ids'[g]
                             /\ Welcomes(d)' = {} => myId[d] = ids'[g]
                        ELSE Welcomes(d)' = {}
    BY DEF HelloAnswered
  <2>1. g # h
    BY <1>1 DEF Reaches
  <2>2. Reaches(g, d) /\ ~Reaches(h, d)
    BY <1>1, <2>1 DEF Reaches
  <2>3. Welcomes(d)' = Welcomes(d)
    BY <2>2 DEF Welcomes
  <2>4. ids'[g] = ids[g] /\ (g \in greeted' <=> g \in greeted)
    BY <1>1, <2>1
  <2>5. IF g \in greeted
          THEN /\ \A m \in Welcomes(d) : m.id = ids[g]
               /\ Welcomes(d) = {} => myId[d] = ids[g]
          ELSE Welcomes(d) = {}
    BY <2>2 DEF HelloAnswered
  <2> QED BY <2>3, <2>4, <2>5
<1> QED BY <1>2, <1>3

LEMMA RefuseIInv ==
  ASSUME IInv, NEW h \in Handles, Refuse(h)
  PROVE  IInv'
<1> USE DEF IInv
<1> DEFINE msg == [type |-> "REJECT"]
<1>1. /\ h \notin greeted /\ greeted' = greeted \cup {h}
      /\ Answer(h, msg)
      /\ link' = [link EXCEPT ![h] = Nobody]
      /\ UNCHANGED <<ordered, ids, nextId, active, sim, clientVars, air>>
  BY DEF Refuse, Greeting
<1>2. msg \in Messages
  BY MessageSorts
<1> HIDE DEF msg
<1>3. /\ wire' \in [Clients -> Seq(Messages)]
      /\ \A c \in Clients : end[c] = Nobody => wire'[c] = <<>>
      /\ \A c \in Clients : ~Reaches(h, c) => wire'[c] = wire[c]
  BY <1>1, <1>2, Answered
<1>4. ids[h] = Nobody
  BY <1>1 DEF MembersOnce
<1>5. ids' = [ids EXCEPT ![h] = Nobody]
  BY <1>1, <1>4 DEF TypeOK
<1>6. MembersOnce' /\ HelloAnswered'
  BY <1>1, <1>3, <1>5, ConnectionDropped DEF clientVars
<1>7. TypeOK'
  BY <1>1, <1>3 DEF TypeOK, clientVars
<1>8. SlotsAreMembers' /\ AnswersBypass' /\ Unlinked'
  BY <1>1, <1>3 DEF SlotsAreMembers, AnswersBypass, Unlinked, clientVars
<1> QED BY <1>6, <1>7, <1>8

LEMMA DepartIInv ==
  ASSUME IInv, NEW h \in Handles, Depart(h)
  PROVE  IInv'
<1> USE DEF IInv
<1>1. /\ link' = [link EXCEPT ![h] = Nobody]
      /\ greeted' \in {greeted, greeted \cup {h}}
      /\ ids' = [ids EXCEPT ![h] = Nobody]
      /\ active' = IF ids[h] = Nobody THEN active ELSE active \ {ids[h]}
      /\ IF ids[h] = Nobody THEN sim' = sim ELSE Announce(active')
      /\ UNCHANGED <<ordered, nextId, clientVars, wire, air>>
  BY DEF Depart, Hangup
<1>2. active' \in SUBSET Ids
  BY <1>1 DEF TypeOK
<1>3. sim' \in Seq(Packets) /\ AnswersBypass'
  <2>1. CASE ids[h] = Nobody
    BY <1>1, <2>1 DEF TypeOK, AnswersBypass, Packets
  <2>2. CASE ids[h] # Nobody
    BY <1>1, <1>2, <2>2, Announced
  <2> QED BY <2>1, <2>2
<1>4. Nobody \in Ids
  BY DEF Ids
<1>5. TypeOK'
  BY <1>1, <1>2, <1>3, <1>4 DEF TypeOK, clientVars, Packets
<1>6. MembersOnce' /\ HelloAnswered'
  BY <1>1, ConnectionDropped DEF clientVars
<1>7. SlotsAreMembers'
  <2>1. /\ ids'[h] = Nobody
        /\ \A g \in Handles \ {h} : ids'[g] = ids[g]
    BY <1>1 DEF TypeOK
  <2>2. CASE ids[h] = Nobody
    <3>1. ids' = ids
      BY <1>1, <2>2 DEF TypeOK
    <3> QED BY <1>1, <2>2, <3>1 DEF SlotsAreMembers
  <2>3. CASE ids[h] # Nobody
    <3>1. \A g \in Handles \ {h} : ids[g] # ids[h]
      BY <2>3 DEF MembersOnce
    <3>2. {ids'[g] : g \in Handles} \ {Nobody} =
            ({ids[g] : g \in Handles} \ {Nobody}) \ {ids[h]}
      BY <2>1, <3>1
    <3> QED BY <1>1, <2>3, <3>2 DEF SlotsAreMembers
  <2> QED BY <2>2, <2>3
<1>8. Unlinked'
  BY <1>1 DEF Unlinked, clientVars
<1> QED BY <1>3, <1>5, <1>6, <1>7, <1>8

(* A client that is without a connection, or lets go of the one it has,    *)
(* and forgets what it has received on it.                                 *)
LEMMA ClientReset ==
  ASSUME IInv, NEW c \in Clients,
         UNCHANGED <<hostVars, sim>>,
         end' = [end EXCEPT ![c] = Nobody],
         wire' = [wire EXCEPT ![c] = <<>>],
         air' = [air EXCEPT ![c] = {}],
         view' = [view EXCEPT ![c] = {}],
         myId' \in {myId, [myId EXCEPT ![c] = 0]},
         status' \in [Clients -> Statuses]
  PROVE  IInv'
<1> USE DEF IInv
<1>1. 0 \in Ids /\ <<>> \in Seq(Messages)
  BY DEF Ids
<1>2. TypeOK'
  <2>1. /\ end' \in [Clients -> Handles \cup {Nobody}]
        /\ wire' \in [Clients -> Seq(Messages)]
        /\ air' \in [Clients -> SUBSET Ids]
        /\ view' \in [Clients -> SUBSET Ids]
    BY <1>1 DEF TypeOK
  <2>2. myId' \in [Clients -> Ids]
    BY <1>1 DEF TypeOK
  <2> QED BY <2>1, <2>2 DEF TypeOK, hostVars
<1>3. MembersOnce' /\ SlotsAreMembers' /\ AnswersBypass'
  BY DEF MembersOnce, SlotsAreMembers, AnswersBypass, hostVars
<1>4. /\ end'[c] = Nobody /\ wire'[c] = <<>>
      /\ \A d \in Clients \ {c} :
           end'[d] = end[d] /\ wire'[d] = wire[d] /\ myId'[d] = myId[d]
  BY DEF TypeOK
<1>5. Unlinked'
  BY <1>4 DEF Unlinked
<1>6. HelloAnswered'
  <2> SUFFICES ASSUME NEW d \in Clients, NEW h \in Handles, Reaches(h, d)'
               PROVE  IF h \in greeted
                        THEN /\ \A m \in Welcomes(d)' : m.id = ids[h]
                             /\ Welcomes(d)' = {} => myId'[d] = ids[h]
                        ELSE Welcomes(d)' = {}
    BY DEF HelloAnswered, hostVars
  <2>1. d # c
    BY <1>4 DEF Reaches
  <2>2. Reaches(h, d)
    BY <1>4, <2>1 DEF Reaches, hostVars
  <2>3. Welcomes(d)' = Welcomes(d) /\ myId'[d] = myId[d]
    BY <1>4, <2>1 DEF Welcomes
  <2> QED BY <2>2, <2>3 DEF HelloAnswered
<1> QED BY <1>2, <1>3, <1>5, <1>6

LEMMA JoinIInv ==
  ASSUME IInv, NEW c \in Clients, Join(c)
  PROVE  IInv'
<1>1. end' = [end EXCEPT ![c] = Nobody]
  BY DEF Join, IInv, TypeOK
<1>2. status' \in [Clients -> Statuses]
  BY DEF Join, IInv, TypeOK, Statuses
<1> QED BY <1>1, <1>2, ClientReset DEF Join

LEMMA ClientLosesIInv ==
  ASSUME IInv, NEW c \in Clients, NEW left \in BOOLEAN, ClientLoses(c, left)
  PROVE  IInv'
<1>1. status' \in [Clients -> Statuses]
  BY DEF ClientLoses, IInv, TypeOK, Statuses
<1>2. myId' \in {myId, [myId EXCEPT ![c] = 0]}
  BY DEF ClientLoses
<1> QED BY <1>1, <1>2, ClientReset DEF ClientLoses

(* A position taken in.                                                    *)
LEMMA Accepted ==
  ASSUME IInv, NEW c \in Clients, NEW id \in Ids, AcceptState(c, id)
  PROVE  view' \in [Clients -> SUBSET Ids]
BY DEF IInv, TypeOK, AcceptState

LEMMA FromAirIInv ==
  ASSUME IInv, NEW c \in Clients, FromAir(c)
  PROVE  IInv'
<1> USE DEF IInv
<1>1. PICK id \in air[c] :
        AcceptState(c, id) /\ air' \in {air, [air EXCEPT ![c] = @ \ {id}]}
  BY DEF FromAir
<1>2. UNCHANGED <<hostVars, sim, status, end, myId, wire>>
  BY DEF FromAir
<1>3. id \in Ids
  BY DEF TypeOK
<1>4. view' \in [Clients -> SUBSET Ids]
  BY <1>1, <1>3, Accepted
<1>5. air' \in [Clients -> SUBSET Ids]
  <2>1. CASE air' = air
    BY <2>1 DEF TypeOK
  <2>2. CASE air' = [air EXCEPT ![c] = @ \ {id}]
    <3>1. air \in [Clients -> SUBSET Ids] /\ air[c] \ {id} \in SUBSET Ids
      BY DEF TypeOK
    <3> QED BY <2>2, <3>1
  <2> QED BY <1>1, <2>1, <2>2
<1>6. TypeOK' /\ AnswersBypass' /\ Unlinked'
  BY <1>2, <1>4, <1>5 DEF TypeOK, AnswersBypass, Unlinked, hostVars
<1>7. \A d \in Clients : Welcomes(d)' = Welcomes(d)
  BY <1>2 DEF Welcomes
<1> QED BY <1>2, <1>6, <1>7, SameConnections DEF hostVars

(* A message that is no WELCOME is taken from the wire.                    *)
LEMMA TakenOther ==
  ASSUME IInv, NEW c \in Clients, NEW type, type # "WELCOME",
         Received(c, type), UNCHANGED <<hostVars, sim, end, myId, air>>,
         status' \in [Clients -> Statuses], view' \in [Clients -> SUBSET Ids]
  PROVE  IInv'
<1> USE DEF IInv
<1>1. /\ Head(wire[c]).type = type
      /\ wire' \in [Clients -> Seq(Messages)]
      /\ ToSet(wire'[c]) \subseteq ToSet(wire[c])
      /\ ToSet(wire[c]) \subseteq ToSet(wire'[c]) \cup {Head(wire[c])}
      /\ \A d \in Clients \ {c} : wire'[d] = wire[d]
      /\ end[c] # Nobody
  BY WireTaken
<1>2. TypeOK' /\ AnswersBypass' /\ Unlinked'
  BY <1>1 DEF TypeOK, AnswersBypass, Unlinked, hostVars
<1>3. \A d \in Clients : Welcomes(d)' = Welcomes(d)
  <2> TAKE d \in Clients
  <2>1. CASE d = c
    <3> SUFFICES ASSUME NEW m, m.type = "WELCOME"
                 PROVE  m \in ToSet(wire'[c]) <=> m \in ToSet(wire[c])
      BY <2>1 DEF Welcomes
    <3> QED BY <1>1
  <2>2. CASE d # c
    BY <1>1, <2>2 DEF Welcomes
  <2> QED BY <2>1, <2>2
<1> QED BY <1>2, <1>3, SameConnections DEF hostVars

LEMMA FromWireIInv ==
  ASSUME IInv, NEW c \in Clients, FromWire(c)
  PROVE  IInv'
<1>1. Received(c, "STATE") /\ AcceptState(c, Head(wire[c]).id)
      /\ UNCHANGED <<hostVars, sim, status, end, myId, air>>
  BY DEF FromWire
<1>2. Head(wire[c]).id \in Ids
  BY <1>1, WireTaken, MessageSorts
<1>3. view' \in [Clients -> SUBSET Ids]
  BY <1>1, <1>2, Accepted
<1>4. status' \in [Clients -> Statuses]
  BY <1>1 DEF IInv, TypeOK
<1> QED BY <1>1, <1>3, <1>4, TakenOther

LEMMA RejectedIInv ==
  ASSUME IInv, NEW c \in Clients, Rejected(c)
  PROVE  IInv'
<1>1. Received(c, "REJECT") /\ UNCHANGED <<hostVars, sim, end, myId, view, air>>
  BY DEF Rejected
<1>2. status' \in [Clients -> Statuses] /\ view' \in [Clients -> SUBSET Ids]
  BY DEF Rejected, IInv, TypeOK, Statuses
<1> QED BY <1>1, <1>2, TakenOther

LEMMA PeersIInv ==
  ASSUME IInv, NEW c \in Clients, Peers(c)
  PROVE  IInv'
<1>1. Received(c, "PEERS")
      /\ UNCHANGED <<hostVars, sim, status, end, myId, air>>
      /\ view' = [view EXCEPT ![c] = Head(wire[c]).ids]
  BY DEF Peers
<1>2. Head(wire[c]).ids \in SUBSET Ids
  BY <1>1, WireTaken, MessageSorts
<1>3. status' \in [Clients -> Statuses] /\ view' \in [Clients -> SUBSET Ids]
  BY <1>1, <1>2 DEF IInv, TypeOK
<1> QED BY <1>1, <1>3, TakenOther

LEMMA WelcomeIInv ==
  ASSUME IInv, NEW c \in Clients, Welcome(c)
  PROVE  IInv'
<1> USE DEF IInv
<1> DEFINE msg == Head(wire[c])
<1>1. /\ Received(c, "WELCOME")
      /\ myId' = [myId EXCEPT ![c] = msg.id]
      /\ view' = [view EXCEPT ![c] = @ \cup {HostId, msg.id}]
      /\ status' = [status EXCEPT ![c] = "Connected"]
      /\ UNCHANGED <<hostVars, sim, end, air>>
  BY DEF Welcome
<1>2. /\ msg \in Messages /\ msg.type = "WELCOME" /\ msg \in ToSet(wire[c])
      /\ wire' \in [Clients -> Seq(Messages)]
      /\ ToSet(wire'[c]) \subseteq ToSet(wire[c])
      /\ \A d \in Clients \ {c} : wire'[d] = wire[d]
      /\ end[c] # Nobody
  BY <1>1, WireTaken
<1> HIDE DEF msg
<1>3. msg.id \in Ids /\ HostId \in Ids
  BY <1>2, MessageSorts DEF Ids
<1>4. TypeOK'
  <2>1. /\ myId' \in [Clients -> Ids]
        /\ view' \in [Clients -> SUBSET Ids]
        /\ status' \in [Clients -> Statuses]
    BY <1>1, <1>3 DEF TypeOK, Statuses
  <2> QED BY <1>1, <1>2, <2>1 DEF TypeOK, hostVars
<1>5. MembersOnce' /\ SlotsAreMembers' /\ AnswersBypass' /\ Unlinked'
  BY <1>1, <1>2 DEF MembersOnce, SlotsAreMembers, AnswersBypass, Unlinked, hostVars
<1>6. myId'[c] = msg.id /\ \A d \in Clients \ {c} : myId'[d] = myId[d]
  BY <1>1 DEF TypeOK
<1>7. HelloAnswered'
  <2> SUFFICES ASSUME NEW d \in Clients, NEW h \in Handles, Reaches(h, d)
               PROVE  IF h \in greeted
                        THEN /\ \A m \in Welcomes(d)' : m.id = ids[h]
                             /\ Welcomes(d)' = {} => myId'[d] = ids[h]
                        ELSE Welcomes(d)' = {}
    BY <1>1 DEF HelloAnswered, Reaches, hostVars
  <2>1. CASE d = c
    <3>1. msg \in Welcomes(c) /\ Welcomes(c)' \subseteq Welcomes(c)
      BY <1>2 DEF Welcomes
    <3>2. h \in greeted /\ \A m \in Welcomes(c) : m.id = ids[h]
      BY <2>1, <3>1 DEF HelloAnswered
    <3> QED BY <1>6, <2>1, <3>1, <3>2
  <2>2. CASE d # c
    <3>1. Welcomes(d)' = Welcomes(d) /\ myId'[d] = myId[d]
      BY <1>2, <1>6, <2>2 DEF Welcomes
    <3> QED BY <3>1 DEF HelloAnswered
  <2> QED BY <2>1, <2>2
<1> QED BY <1>4, <1>5, <1>7

LEMMA NextIInv == IInv /\ [Next]_vars => IInv'
<1> SUFFICES ASSUME IInv, [Next]_vars PROVE IInv'
  OBVIOUS
<1>1. CASE PumpSim \/ BroadcastState
  BY <1>1, PumpSimIInv, BroadcastStateIInv
<1>2. CASE \E h \in Handles : Admit(h) \/ Refuse(h) \/ RelayState(h) \/ Depart(h)
  BY <1>2, AdmitIInv, RefuseIInv, RelayStateIInv, DepartIInv
<1>3. CASE \E c \in Clients : LinkUp(c) \/ Join(c) \/ FromAir(c) \/ FromWire(c)
  BY <1>3, LinkUpIInv, JoinIInv, FromAirIInv, FromWireIInv
<1>4. CASE \E c \in Clients : Welcome(c) \/ Rejected(c) \/ Peers(c)
  BY <1>4, WelcomeIInv, RejectedIInv, PeersIInv
<1>5. CASE \E c \in Clients, left \in BOOLEAN : ClientLoses(c, left)
  BY <1>5, ClientLosesIInv
<1>6. CASE UNCHANGED vars
  <2>1. \A c \in Clients : Welcomes(c)' = Welcomes(c)
    BY <1>6 DEF vars, Welcomes
  <2>2. TypeOK' /\ AnswersBypass' /\ Unlinked'
    BY <1>6 DEF vars, IInv, TypeOK, AnswersBypass, Unlinked
  <2>3. UNCHANGED <<link, greeted, ids, nextId, active, end, myId>>
    BY <1>6 DEF vars
  <2>4. MembersOnce' /\ SlotsAreMembers' /\ HelloAnswered'
    BY <2>1, <2>3, SameConnections
  <2> QED BY <2>2, <2>4 DEF IInv
<1> QED BY <1>1, <1>2, <1>3, <1>4, <1>5, <1>6 DEF Next

-----------------------------------------------------------------------------
(* The roster.  What is on its way to a client is read from its end: from  *)
(* the last roster on, it says what the host has.                          *)

Silent(s) == \A i \in 1 .. Len(s) : s[i].type # "PEERS"

(* The last roster names the slots in use, and over a link that keeps the  *)
(* order every position behind it is of a player that has one.             *)
UpToDate(s, slots, inOrder) ==
  \A i \in 1 .. Len(s) : (\A j \in 1 .. Len(s) : j > i => s[j].type # "PEERS") =>
    /\ s[i].type = "PEERS" => s[i].ids = slots
    /\ inOrder /\ s[i].type = "STATE" => s[i].id \in slots

(* The messages in the simulator.                                          *)
MessagesOf(q) == [i \in 1 .. Len(q) |-> q[i].msg]
Queue == MessagesOf(sim)

RostersToAll == \A packet \in ToSet(sim) : packet.msg.type = "PEERS" => packet.to = All

(* A member of the session has, or is about to have, the host's roster.    *)
MembersTold ==
  \A c \in Clients, h \in greeted : Reaches(h, c) /\ Silent(Queue) =>
    /\ UpToDate(wire[c], active, ordered)
    /\ Silent(wire[c]) => /\ active \subseteq view[c]
                          /\ ordered => view[c] \subseteq active

News ==
  /\ UpToDate(Queue, active, ordered)
  /\ RostersToAll
  /\ MembersTold
  /\ ordered => \A c \in Clients : air[c] = {}

(* A roster is the newest thing on the way.                                *)
LEMMA RosterLast ==
  ASSUME NEW t \in Seq(Messages), Len(t) > 0, NEW slots, NEW inOrder,
         t[Len(t)].type = "PEERS", t[Len(t)].ids = slots
  PROVE  UpToDate(t, slots, inOrder) /\ ~Silent(t)
<1>1. Len(t) \in Nat /\ Len(t) \in 1 .. Len(t)
  OBVIOUS
<1>2. \A i \in 1 .. Len(t) :
        (\A j \in 1 .. Len(t) : j > i => t[j].type # "PEERS") => i = Len(t)
  BY <1>1
<1>3. UpToDate(t, slots, inOrder)
  BY <1>2 DEF UpToDate
<1> QED BY <1>1, <1>3 DEF Silent

(* Other messages have joined s.                                           *)
LEMMA Extended ==
  ASSUME NEW s \in Seq(Messages), NEW t \in Seq(Messages), Len(t) >= Len(s),
         \A i \in 1 .. Len(s) : t[i] = s[i],
         NEW slots, NEW inOrder,
         \A i \in 1 .. Len(t) : i > Len(s) =>
           /\ t[i].type # "PEERS"
           /\ inOrder /\ t[i].type = "STATE" => t[i].id \in slots
  PROVE  /\ UpToDate(s, slots, inOrder) => UpToDate(t, slots, inOrder)
         /\ Silent(t) <=> Silent(s)
<1>1. Len(s) \in Nat /\ Len(t) \in Nat
  OBVIOUS
<1>2. Silent(t) <=> Silent(s)
  BY <1>1 DEF Silent
<1>3. ASSUME UpToDate(s, slots, inOrder), NEW i \in 1 .. Len(t),
             \A j \in 1 .. Len(t) : j > i => t[j].type # "PEERS"
      PROVE  /\ t[i].type = "PEERS" => t[i].ids = slots
             /\ inOrder /\ t[i].type = "STATE" => t[i].id \in slots
  <2>1. CASE i > Len(s)
    BY <2>1
  <2>2. CASE i <= Len(s)
    <3>1. i \in 1 .. Len(s) /\ t[i] = s[i]
      BY <1>1, <2>2
    <3>2. \A j \in 1 .. Len(s) : j > i => s[j].type # "PEERS"
      BY <1>1, <1>3
    <3> QED BY <1>3, <3>1, <3>2 DEF UpToDate
  <2> QED BY <1>1, <2>1, <2>2
<1> QED BY <1>2, <1>3 DEF UpToDate

(* The first of s has been taken.                                          *)
LEMMA Shortened ==
  ASSUME NEW s \in Seq(Messages), NEW t \in Seq(Messages), Len(s) = Len(t) + 1,
         \A i \in 1 .. Len(t) : t[i] = s[i + 1],
         NEW slots, NEW inOrder
  PROVE  /\ UpToDate(s, slots, inOrder) => UpToDate(t, slots, inOrder)
         /\ Silent(s) <=> s[1].type # "PEERS" /\ Silent(t)
         /\ UpToDate(s, slots, inOrder) /\ Silent(t) =>
              /\ s[1].type = "PEERS" => s[1].ids = slots
              /\ inOrder /\ s[1].type = "STATE" => s[1].id \in slots
<1>1. Len(s) \in Nat /\ Len(t) \in Nat /\ 1 \in 1 .. Len(s)
  OBVIOUS
<1>2. \A j \in 1 .. Len(s) : j > 1 => j - 1 \in 1 .. Len(t) /\ s[j] = t[j - 1]
  BY <1>1
<1>3. UpToDate(s, slots, inOrder) => UpToDate(t, slots, inOrder)
  <2> SUFFICES ASSUME UpToDate(s, slots, inOrder), NEW i \in 1 .. Len(t),
                      \A j \in 1 .. Len(t) : j > i => t[j].type # "PEERS"
               PROVE  /\ t[i].type = "PEERS" => t[i].ids = slots
                      /\ inOrder /\ t[i].type = "STATE" => t[i].id \in slots
    BY DEF UpToDate
  <2>1. \A j \in 1 .. Len(s) : j > i + 1 => s[j].type # "PEERS"
    BY <1>1, <1>2
  <2>2. i + 1 \in 1 .. Len(s) /\ t[i] = s[i + 1]
    BY <1>1
  <2> QED BY <2>1, <2>2 DEF UpToDate
<1>4. Silent(s) <=> s[1].type # "PEERS" /\ Silent(t)
  <2>1. \A i \in 1 .. Len(t) : i + 1 \in 1 .. Len(s) /\ t[i] = s[i + 1]
    BY <1>1
  <2>2. Silent(s) => s[1].type # "PEERS" /\ Silent(t)
    BY <1>1, <2>1 DEF Silent
  <2>3. ASSUME s[1].type # "PEERS", Silent(t), NEW j \in 1 .. Len(s)
        PROVE  s[j].type # "PEERS"
    <3>1. CASE j = 1
      BY <2>3, <3>1
    <3>2. CASE j > 1
      BY <1>2, <2>3, <3>2 DEF Silent
    <3> QED BY <1>1, <3>1, <3>2
  <2> QED BY <2>2, <2>3 DEF Silent
<1>5. UpToDate(s, slots, inOrder) /\ Silent(t) =>
        /\ s[1].type = "PEERS" => s[1].ids = slots
        /\ inOrder /\ s[1].type = "STATE" => s[1].id \in slots
  <2> SUFFICES ASSUME UpToDate(s, slots, inOrder), Silent(t)
               PROVE  /\ s[1].type = "PEERS" => s[1].ids = slots
                      /\ inOrder /\ s[1].type = "STATE" => s[1].id \in slots
    OBVIOUS
  <2>1. \A j \in 1 .. Len(s) : j > 1 => s[j].type # "PEERS"
    BY <1>2 DEF Silent
  <2> QED BY <1>1, <2>1 DEF UpToDate
<1> QED BY <1>3, <1>4, <1>5

LEMMA MessagesOfPackets ==
  ASSUME NEW q \in Seq(Packets)
  PROVE  /\ MessagesOf(q) \in Seq(Messages) /\ Len(MessagesOf(q)) = Len(q)
         /\ \A i \in 1 .. Len(q) : MessagesOf(q)[i] = q[i].msg
<1>1. \A i \in 1 .. Len(q) : q[i] \in Packets
  OBVIOUS
<1>2. \A i \in 1 .. Len(q) : q[i].msg \in Messages
  BY <1>1 DEF Packets
<1> QED BY <1>2 DEF MessagesOf

(* The host's own slot is in use, and so is that of every id it has given. *)
LEMMA InUse ==
  ASSUME IInv
  PROVE  HostId \in active /\ \A h \in Handles : ids[h] \in active
BY DEF IInv, SlotsAreMembers

(* A step that changes nothing for those who are members after it.         *)
LEMMA StillTold ==
  ASSUME MembersTold, UNCHANGED <<ordered, active>>,
         Silent(Queue)' => Silent(Queue),
         \A c \in Clients, h \in greeted' : Reaches(h, c)' =>
           /\ h \in greeted /\ Reaches(h, c)
           /\ wire'[c] = wire[c] /\ view'[c] = view[c]
  PROVE  MembersTold'
BY DEF MembersTold

(* One packet more in the simulator, which is no roster.                   *)
LEMMA QueueGrows ==
  ASSUME IInv, News, NEW s \in Seq(Packets), sim' = sim \o s,
         \A i \in 1 .. Len(s) : s[i].msg.type = "STATE" /\ s[i].msg.id \in active,
         UNCHANGED <<ordered, active>>
  PROVE  /\ UpToDate(Queue, active, ordered)' /\ RostersToAll'
         /\ Silent(Queue)' => Silent(Queue)
<1>1. sim \in Seq(Packets)
  BY DEF IInv, TypeOK, Packets
<1>2. /\ sim' \in Seq(Packets) /\ Len(sim') = Len(sim) + Len(s)
      /\ \A i \in 1 .. Len(sim) : sim'[i] = sim[i]
      /\ \A i \in 1 .. Len(sim') : i > Len(sim) =>
           i - Len(sim) \in 1 .. Len(s) /\ sim'[i] = s[i - Len(sim)]
  BY <1>1
<1>3. /\ Queue \in Seq(Messages) /\ Len(Queue) = Len(sim)
      /\ \A i \in 1 .. Len(sim) : Queue[i] = sim[i].msg
      /\ Queue' \in Seq(Messages) /\ Len(Queue') = Len(sim')
      /\ \A i \in 1 .. Len(sim') : Queue'[i] = sim'[i].msg
  BY <1>1, <1>2, MessagesOfPackets DEF Queue
<1>4. /\ Len(Queue') >= Len(Queue) /\ \A i \in 1 .. Len(Queue) : Queue'[i] = Queue[i]
      /\ \A i \in 1 .. Len(Queue') : i > Len(Queue) =>
           Queue'[i].type = "STATE" /\ Queue'[i].id \in active
  <2>1. Len(sim) \in Nat /\ Len(s) \in Nat
    BY <1>1
  <2>2. Len(Queue') >= Len(Queue) /\ \A i \in 1 .. Len(Queue) : Queue'[i] = Queue[i]
    <3>1. Len(Queue') >= Len(Queue)
      BY <1>2, <1>3, <2>1
    <3>2. ASSUME NEW i \in 1 .. Len(Queue) PROVE Queue'[i] = Queue[i]
      <4>1. i \in 1 .. Len(sim) /\ i \in 1 .. Len(sim')
        BY <1>2, <1>3, <2>1
      <4>2. Queue'[i] = sim'[i].msg
        BY <1>3, <4>1
      <4>3. sim'[i] = sim[i]
        BY <1>2, <4>1
      <4> QED BY <1>3, <4>1, <4>2, <4>3
    <3> QED BY <3>1, <3>2
  <2>3. ASSUME NEW i \in 1 .. Len(Queue'), i > Len(Queue)
        PROVE  Queue'[i].type = "STATE" /\ Queue'[i].id \in active
    <3>1. i \in 1 .. Len(sim') /\ i > Len(sim)
      BY <1>3, <2>3
    <3>2. /\ i - Len(sim) \in 1 .. Len(s) /\ sim'[i] = s[i - Len(sim)]
          /\ Queue'[i] = sim'[i].msg
      BY <1>2, <1>3, <3>1
    <3> QED BY <3>2
  <2> QED BY <2>2, <2>3
<1>5. /\ UpToDate(Queue, active, ordered) => UpToDate(Queue', active, ordered)
      /\ Silent(Queue') <=> Silent(Queue)
  BY <1>3, <1>4, Extended
<1>6. ToSet(sim') = ToSet(sim) \cup ToSet(s)
  BY <1>1, ConcatSet
<1>7. \A packet \in ToSet(s) : packet.msg.type # "PEERS"
  BY InSet
<1>8. RostersToAll'
  BY <1>6, <1>7 DEF News, RostersToAll
<1> QED BY <1>5, <1>8 DEF News

(* After an announcement all members are about to have the roster.         *)
LEMMA AnnouncedNews ==
  ASSUME IInv, News, NEW slots \in SUBSET Ids, Announce(slots), active' = slots
  PROVE  /\ UpToDate(Queue, active, ordered)' /\ RostersToAll' /\ MembersTold'
<1> DEFINE packet == [to |-> All, msg |-> [type |-> "PEERS", ids |-> slots]]
<1>1. sim \in Seq(Packets)
  BY DEF IInv, TypeOK, Packets
<1>2. packet \in Packets
  BY MessageSorts DEF Packets
<1>3. /\ sim' = Append(sim, packet) /\ packet.to = All
      /\ packet.msg.type = "PEERS" /\ packet.msg.ids = slots
  BY DEF Announce
<1> HIDE DEF packet
<1>4. /\ sim' \in Seq(Packets) /\ Len(sim') = Len(sim) + 1
      /\ \A i \in 1 .. Len(sim) : sim'[i] = sim[i]
      /\ sim'[Len(sim')] = packet
  BY <1>1, <1>2, <1>3
<1>5. /\ Queue \in Seq(Messages) /\ Len(Queue) = Len(sim)
      /\ \A i \in 1 .. Len(sim) : Queue[i] = sim[i].msg
      /\ Queue' \in Seq(Messages) /\ Len(Queue') = Len(sim')
      /\ \A i \in 1 .. Len(sim') : Queue'[i] = sim'[i].msg
  BY <1>1, <1>4, MessagesOfPackets DEF Queue
<1>6. /\ Len(Queue') = Len(Queue) + 1
      /\ \A i \in 1 .. Len(Queue) : Queue'[i] = Queue[i]
      /\ Queue'[Len(Queue')].type = "PEERS" /\ Queue'[Len(Queue')].ids = slots
  BY <1>1, <1>3, <1>4, <1>5
<1>7. UpToDate(Queue', slots, ordered') /\ ~Silent(Queue')
  BY <1>5, <1>6, RosterLast
<1>8. ToSet(sim') = ToSet(sim) \cup {packet}
  BY <1>1, <1>2, <1>3, AppendSet
<1>9. RostersToAll'
  BY <1>3, <1>8 DEF News, RostersToAll
<1> QED BY <1>7, <1>9 DEF MembersTold

LEMMA InitNews == Init => News
<1> SUFFICES ASSUME Init PROVE News
  OBVIOUS
<1>1. Len(sim) = 0 /\ Len(Queue) = 0 /\ ToSet(sim) = {}
  BY DEF Init, Queue, MessagesOf, ToSet
<1>2. UpToDate(Queue, active, ordered) /\ RostersToAll
  BY <1>1 DEF UpToDate, RostersToAll
<1>3. MembersTold
  BY DEF Init, MembersTold
<1> QED BY <1>2, <1>3 DEF News, Init

LEMMA LinkUpNews ==
  ASSUME IInv, News, NEW c \in Clients, LinkUp(c)
  PROVE  News'
<1>1. PICK h \in FreeHandles :
        /\ link' = [link EXCEPT ![h] = c]
        /\ end' = [end EXCEPT ![c] = h]
        /\ greeted' = greeted \ {h}
  BY DEF LinkUp
<1>2. UNCHANGED <<ordered, active, sim, view, wire, air>> /\ h \in Handles
  BY DEF LinkUp, FreeHandles
<1>3. ASSUME NEW d \in Clients, NEW g \in greeted', Reaches(g, d)'
      PROVE  g \in greeted /\ Reaches(g, d)
  <2>1. g # h /\ g \in greeted /\ g \in Handles
    BY <1>1 DEF IInv, TypeOK
  <2>2. link'[g] = link[g]
    BY <1>1, <2>1 DEF IInv, TypeOK
  <2>3. end'[d] = g /\ link'[g] = d
    BY <1>3 DEF Reaches
  <2>4. d # c
    BY <1>1, <2>1, <2>3 DEF IInv, TypeOK
  <2>5. end'[d] = end[d]
    BY <1>1, <2>4 DEF IInv, TypeOK
  <2> QED BY <2>1, <2>2, <2>3, <2>5 DEF Reaches
<1>4. Queue' = Queue
  BY <1>2 DEF Queue
<1>5. MembersTold'
  BY <1>2, <1>3, <1>4, StillTold DEF News
<1> QED BY <1>2, <1>4, <1>5 DEF News, RostersToAll

LEMMA PumpSimNews ==
  ASSUME IInv, News, PumpSim
  PROVE  News'
<1> DEFINE msg == Head(sim).msg
           to == {c \in Clients : \E h \in Handles :
                    Reaches(h, c) /\ Head(sim).to \in {h, All}}
<1>1. sim \in Seq(Packets) /\ sim # <<>> /\ sim' = Tail(sim)
  BY DEF PumpSim, IInv, TypeOK, Packets
<1>2. /\ sim' \in Seq(Packets) /\ Len(sim) = Len(sim') + 1
      /\ \A i \in 1 .. Len(sim') : sim'[i] = sim[i + 1]
      /\ Head(sim) = sim[1] /\ Head(sim) \in Packets
  BY <1>1
<1>3. /\ ToSet(sim) = {Head(sim)} \cup ToSet(sim')
      /\ RostersToAll'
      /\ msg.type = "PEERS" => Head(sim).to = All
  <2>1. ToSet(sim) = {Head(sim)} \cup ToSet(sim')
    BY <1>1, HeadTailSet
  <2> QED BY <2>1 DEF News, RostersToAll
<1>4. UNCHANGED <<hostVars, clientVars>>
  BY DEF PumpSim
<1>5. \/ air' = air
      \/ ~ordered
  BY DEF PumpSim
<1>6. \/ wire' = wire /\ msg.type = "STATE"
      \/ /\ wire' = [c \in Clients |-> IF c \in to
                       THEN Append(wire[c], msg) ELSE wire[c]]
         /\ msg.type = "STATE" => ordered
  BY DEF PumpSim
<1>7. \A c \in Clients, h \in Handles :
        Reaches(h, c) /\ Head(sim).to = All => c \in to
  OBVIOUS
<1>8. msg = sim[1].msg /\ msg \in Messages
  BY <1>2 DEF Packets
<1> HIDE DEF msg, to
<1>9. /\ Queue \in Seq(Messages) /\ Len(Queue) = Len(sim)
      /\ \A i \in 1 .. Len(sim) : Queue[i] = sim[i].msg
      /\ Queue' \in Seq(Messages) /\ Len(Queue') = Len(sim')
      /\ \A i \in 1 .. Len(sim') : Queue'[i] = sim'[i].msg
  BY <1>1, <1>2, MessagesOfPackets DEF Queue
<1>10. /\ Len(Queue) = Len(Queue') + 1 /\ Queue[1] = msg
       /\ \A i \in 1 .. Len(Queue') : Queue'[i] = Queue[i + 1]
  BY <1>1, <1>2, <1>8, <1>9
<1>11. /\ UpToDate(Queue', active, ordered)
       /\ Silent(Queue) <=> msg.type # "PEERS" /\ Silent(Queue')
       /\ Silent(Queue') => /\ msg.type = "PEERS" => msg.ids = active
                            /\ ordered /\ msg.type = "STATE" => msg.id \in active
  <2>1. UpToDate(Queue, active, ordered)
    BY DEF News
  <2> QED BY <1>9, <1>10, <2>1, Shortened
<1>12. MembersTold'
  <2> SUFFICES ASSUME NEW c \in Clients, NEW h \in greeted, Reaches(h, c), Silent(Queue')
               PROVE  /\ UpToDate(wire'[c], active, ordered)
                      /\ Silent(wire'[c]) => /\ active \subseteq view[c]
                                             /\ ordered => view[c] \subseteq active
    BY <1>4 DEF MembersTold, Reaches, hostVars, clientVars
  <2>1. h \in Handles /\ wire[c] \in Seq(Messages)
    BY DEF IInv, TypeOK
  <2>2. CASE msg.type = "PEERS"
    <3>1. wire'[c] = Append(wire[c], msg)
      BY <1>3, <1>6, <1>7, <2>1, <2>2
    <3>2. /\ wire'[c] \in Seq(Messages) /\ Len(wire'[c]) = Len(wire[c]) + 1
          /\ \A i \in 1 .. Len(wire[c]) : wire'[c][i] = wire[c][i]
          /\ wire'[c][Len(wire'[c])] = msg
      BY <1>8, <2>1, <3>1
    <3>3. msg.ids = active
      BY <1>11, <2>2
    <3>4. UpToDate(wire'[c], active, ordered) /\ ~Silent(wire'[c])
      <4> DEFINE t == wire'[c]
      <4>1. /\ t \in Seq(Messages) /\ Len(t) > 0
            /\ t[Len(t)].type = "PEERS" /\ t[Len(t)].ids = active
        BY <2>1, <2>2, <3>2, <3>3
      <4> HIDE DEF t
      <4>2. UpToDate(t, active, ordered) /\ ~Silent(t)
        BY <4>1, RosterLast
      <4> QED BY <4>2 DEF t
    <3> QED BY <3>4
  <2>3. CASE msg.type # "PEERS"
    <3>1. /\ UpToDate(wire[c], active, ordered)
          /\ Silent(wire[c]) => /\ active \subseteq view[c]
                                /\ ordered => view[c] \subseteq active
      BY <1>11, <2>3 DEF News, MembersTold
    <3>2. CASE wire'[c] = wire[c]
      BY <3>1, <3>2
    <3>3. CASE wire'[c] = Append(wire[c], msg) /\ (msg.type = "STATE" => ordered)
      <4>1. /\ wire'[c] \in Seq(Messages) /\ Len(wire'[c]) = Len(wire[c]) + 1
            /\ \A i \in 1 .. Len(wire[c]) : wire'[c][i] = wire[c][i]
            /\ \A i \in 1 .. Len(wire'[c]) : i > Len(wire[c]) => wire'[c][i] = msg
        BY <1>8, <2>1, <3>3
      <4>2. ordered /\ msg.type = "STATE" => msg.id \in active
        BY <1>11
      <4> DEFINE s == wire[c]
                 t == wire'[c]
      <4>3. /\ s \in Seq(Messages) /\ t \in Seq(Messages) /\ Len(t) >= Len(s)
            /\ \A i \in 1 .. Len(s) : t[i] = s[i]
            /\ \A i \in 1 .. Len(t) : i > Len(s) =>
                 /\ t[i].type # "PEERS"
                 /\ ordered /\ t[i].type = "STATE" => t[i].id \in active
        BY <2>1, <2>3, <4>1, <4>2
      <4> HIDE DEF s, t
      <4>4. /\ UpToDate(s, active, ordered) => UpToDate(t, active, ordered)
            /\ Silent(t) <=> Silent(s)
        BY <4>3, Extended
      <4> QED BY <3>1, <4>4 DEF s, t
    <3> QED BY <1>6, <3>2, <3>3
  <2> QED BY <2>2, <2>3
<1> QED BY <1>3, <1>4, <1>5, <1>11, <1>12 DEF News, hostVars

LEMMA BroadcastStateNews ==
  ASSUME IInv, News, BroadcastState
  PROVE  News'
<1> DEFINE packet == [to |-> All, msg |-> [type |-> "STATE", id |-> HostId]]
<1>1. UNCHANGED <<hostVars, clientVars, wire, air>> /\ sim' = Append(sim, packet)
  BY DEF BroadcastState
<1>2. packet \in Packets /\ packet.msg.type = "STATE" /\ packet.msg.id \in active
  <2>1. HostId \in Ids
    BY DEF Ids
  <2> QED BY <2>1, MessageSorts, InUse DEF Packets
<1> HIDE DEF packet
<1>3. /\ <<packet>> \in Seq(Packets) /\ sim' = sim \o <<packet>>
      /\ \A i \in 1 .. Len(<<packet>>) : <<packet>>[i] = packet
  <2>1. sim \in Seq(Packets)
    BY DEF IInv, TypeOK, Packets
  <2> QED BY <1>1, <1>2, <2>1
<1>4. /\ UpToDate(Queue, active, ordered)' /\ RostersToAll'
      /\ Silent(Queue)' => Silent(Queue)
  BY <1>1, <1>2, <1>3, QueueGrows DEF hostVars
<1>5. MembersTold'
  BY <1>1, <1>4, StillTold DEF News, Reaches, hostVars, clientVars
<1> QED BY <1>1, <1>4, <1>5 DEF News, hostVars

LEMMA RelayStateNews ==
  ASSUME IInv, News, NEW h \in Handles, RelayState(h)
  PROVE  News'
<1> DEFINE id == myId[link[h]]
           others == {g \in Handles \ {h} : ids[g] # Nobody}
           n == Cardinality(others)
           relayed == [i \in 1 .. n |->
                         [to |-> SetToSeq(others)[i],
                          msg |-> [type |-> "STATE", id |-> id]]]
<1>1. /\ UNCHANGED <<hostVars, clientVars, wire, air>>
      /\ sim' = sim \o relayed
      /\ ids[h] = id
  BY DEF RelayState
<1>2. n \in Nat /\ \A i \in 1 .. n : SetToSeq(others)[i] \in others
  <2>1. IsFiniteSet(others)
    BY FS_Subset
  <2> QED BY <2>1, SomeOrder
<1>3. id \in Ids /\ id \in active
  BY <1>1, InUse DEF IInv, TypeOK
<1>4. \A i \in 1 .. n : relayed[i] \in Packets /\ relayed[i].msg.type = "STATE"
                        /\ relayed[i].msg.id \in active
  <2>1. [type |-> "STATE", id |-> id] \in Messages
    BY <1>3, MessageSorts
  <2>2. \A i \in 1 .. n : SetToSeq(others)[i] \in Handles
    BY <1>2
  <2> QED BY <1>3, <2>1, <2>2 DEF Packets
<1> HIDE DEF id, others
<1>5. relayed \in Seq(Packets) /\ Len(relayed) = n
  BY <1>2, <1>4
<1> HIDE DEF relayed
<1>6. /\ UpToDate(Queue, active, ordered)' /\ RostersToAll'
      /\ Silent(Queue)' => Silent(Queue)
  BY <1>1, <1>4, <1>5, QueueGrows DEF hostVars
<1>7. MembersTold'
  BY <1>1, <1>6, StillTold DEF News, Reaches, hostVars, clientVars
<1> QED BY <1>1, <1>6, <1>7 DEF News, hostVars

LEMMA AdmitNews ==
  ASSUME IInv, News, NEW h \in Handles, Admit(h)
  PROVE  News'
<1>1. /\ active' = active \cup {nextId} /\ Announce(active')
      /\ UNCHANGED <<ordered, air>>
  BY DEF Admit
<1>2. active' \in SUBSET Ids
  BY <1>1 DEF Admit, IInv, TypeOK, Ids
<1>3. UpToDate(Queue, active, ordered)' /\ RostersToAll' /\ MembersTold'
  BY <1>1, <1>2, AnnouncedNews
<1> QED BY <1>1, <1>3 DEF News

(* A connection the host has let go of makes no member.                    *)
LEMMA FewerReached ==
  ASSUME IInv, NEW h \in Handles,
         link' = [link EXCEPT ![h] = Nobody], end' = end,
         greeted' \in {greeted, greeted \cup {h}}
  PROVE  \A c \in Clients, g \in greeted' : Reaches(g, c)' =>
           g \in greeted /\ Reaches(g, c) /\ ~Reaches(h, c)
<1> SUFFICES ASSUME NEW c \in Clients, NEW g \in greeted', Reaches(g, c)'
             PROVE  g \in greeted /\ Reaches(g, c) /\ ~Reaches(h, c)
  OBVIOUS
<1>1. link'[h] = Nobody /\ \A k \in Handles \ {h} : link'[k] = link[k]
  BY DEF IInv, TypeOK
<1>2. g # h
  BY <1>1 DEF Reaches
<1>3. g \in greeted /\ g \in Handles
  BY <1>2 DEF IInv, TypeOK
<1> QED BY <1>1, <1>2, <1>3 DEF Reaches

LEMMA RefuseNews ==
  ASSUME IInv, News, NEW h \in Handles, Refuse(h)
  PROVE  News'
<1> DEFINE msg == [type |-> "REJECT"]
<1>1. /\ greeted' = greeted \cup {h}
      /\ Answer(h, msg)
      /\ link' = [link EXCEPT ![h] = Nobody]
      /\ UNCHANGED <<ordered, active, sim, clientVars, air>>
  BY DEF Refuse, Greeting
<1>2. \A c \in Clients : ~Reaches(h, c) => wire'[c] = wire[c]
  BY <1>1 DEF Answer
<1>3. \A c \in Clients, g \in greeted' : Reaches(g, c)' =>
        g \in greeted /\ Reaches(g, c) /\ ~Reaches(h, c)
  BY <1>1, FewerReached DEF clientVars
<1>4. Queue' = Queue
  BY <1>1 DEF Queue
<1>5. MembersTold'
  BY <1>1, <1>2, <1>3, <1>4, StillTold DEF News, clientVars
<1> QED BY <1>1, <1>4, <1>5 DEF News, RostersToAll

LEMMA DepartNews ==
  ASSUME IInv, News, NEW h \in Handles, Depart(h)
  PROVE  News'
<1>1. /\ link' = [link EXCEPT ![h] = Nobody]
      /\ greeted' \in {greeted, greeted \cup {h}}
      /\ active' = IF ids[h] = Nobody THEN active ELSE active \ {ids[h]}
      /\ IF ids[h] = Nobody THEN sim' = sim ELSE Announce(active')
      /\ UNCHANGED <<ordered, clientVars, wire, air>>
  BY DEF Depart, Hangup
<1>2. CASE ids[h] = Nobody
  <2>1. \A c \in Clients, g \in greeted' : Reaches(g, c)' =>
          g \in greeted /\ Reaches(g, c) /\ ~Reaches(h, c)
    BY <1>1, FewerReached DEF clientVars
  <2>2. Queue' = Queue
    BY <1>1, <1>2 DEF Queue
  <2>3. MembersTold'
    BY <1>1, <1>2, <2>1, <2>2, StillTold DEF News, clientVars
  <2> QED BY <1>1, <1>2, <2>2, <2>3 DEF News, RostersToAll
<1>3. CASE ids[h] # Nobody
  <2>1. active' \in SUBSET Ids
    BY <1>1 DEF IInv, TypeOK
  <2>2. UpToDate(Queue, active, ordered)' /\ RostersToAll' /\ MembersTold'
    BY <1>1, <1>3, <2>1, AnnouncedNews
  <2> QED BY <1>1, <2>2 DEF News
<1> QED BY <1>2, <1>3

(* A client without a connection is no member.                             *)
LEMMA ResetNews ==
  ASSUME IInv, News, NEW c \in Clients, UNCHANGED <<hostVars, sim>>,
         end' = [end EXCEPT ![c] = Nobody],
         wire' = [wire EXCEPT ![c] = <<>>],
         air' = [air EXCEPT ![c] = {}],
         view' = [view EXCEPT ![c] = {}]
  PROVE  News'
<1>1. /\ end'[c] = Nobody
      /\ \A d \in Clients \ {c} :
           end'[d] = end[d] /\ wire'[d] = wire[d] /\ view'[d] = view[d]
  BY DEF IInv, TypeOK
<1>2. \A d \in Clients, h \in greeted' : Reaches(h, d)' =>
        /\ h \in greeted /\ Reaches(h, d)
        /\ wire'[d] = wire[d] /\ view'[d] = view[d]
  <2> SUFFICES ASSUME NEW d \in Clients, NEW h \in greeted, Reaches(h, d)'
               PROVE  /\ Reaches(h, d)
                      /\ wire'[d] = wire[d] /\ view'[d] = view[d]
    BY DEF hostVars
  <2>1. h \in Handles
    BY DEF IInv, TypeOK
  <2>2. d # c
    BY <1>1, <2>1 DEF Reaches
  <2> QED BY <1>1, <2>2 DEF Reaches, hostVars
<1>3. Queue' = Queue
  BY DEF Queue
<1>4. MembersTold'
  BY <1>2, <1>3, StillTold DEF News, hostVars
<1>5. ordered => \A d \in Clients : air'[d] = {}
  BY DEF News, IInv, TypeOK
<1> QED BY <1>3, <1>4, <1>5 DEF News, RostersToAll, hostVars

LEMMA FromAirNews ==
  ASSUME IInv, News, NEW c \in Clients, FromAir(c)
  PROVE  News'
<1>1. PICK id \in air[c] : AcceptState(c, id)
  BY DEF FromAir
<1>2. UNCHANGED <<hostVars, sim, status, end, myId, wire>> /\ ~ordered
  BY <1>1 DEF FromAir, News
<1>3. \A d \in Clients : view[d] \subseteq view'[d]
  <2>1. CASE view' = view
    BY <2>1
  <2>2. CASE view' = [view EXCEPT ![c] = @ \cup {id}]
    BY <2>2 DEF IInv, TypeOK
  <2> QED BY <1>1, <2>1, <2>2 DEF AcceptState
<1>4. Queue' = Queue
  BY <1>2 DEF Queue
<1>5. MembersTold'
  BY <1>2, <1>3, <1>4 DEF News, MembersTold, Reaches, hostVars
<1> QED BY <1>2, <1>4, <1>5 DEF News, RostersToAll, hostVars

(* A message taken from the wire, and what the view makes of it.           *)
LEMMA TakenNews ==
  ASSUME IInv, News, NEW c \in Clients, NEW type, Received(c, type),
         UNCHANGED <<hostVars, sim, end, air>>,
         \A d \in Clients \ {c} : view'[d] = view[d],
         type # "PEERS" =>
           /\ view[c] \subseteq view'[c]
           /\ view'[c] \subseteq view[c] \cup
                IF type = "STATE" THEN {Head(wire[c]).id} ELSE active,
         type = "PEERS" => view'[c] = Head(wire[c]).ids
  PROVE  News'
<1>1. /\ Head(wire[c]).type = type /\ wire' \in [Clients -> Seq(Messages)]
      /\ \A d \in Clients \ {c} : wire'[d] = wire[d]
  BY WireTaken
<1>2. /\ wire[c] \in Seq(Messages) /\ wire'[c] \in Seq(Messages)
      /\ Len(wire[c]) = Len(wire'[c]) + 1 /\ Head(wire[c]) = wire[c][1]
      /\ \A i \in 1 .. Len(wire'[c]) : wire'[c][i] = wire[c][i + 1]
  <2>1. wire[c] \in Seq(Messages) /\ wire[c] # <<>> /\ wire'[c] = Tail(wire[c])
    BY DEF Received, IInv, TypeOK
  <2> QED BY <2>1
<1>3. Queue' = Queue
  BY DEF Queue
<1>4. MembersTold'
  <2> SUFFICES ASSUME NEW d \in Clients, NEW h \in greeted, Reaches(h, d), Silent(Queue)
               PROVE  /\ UpToDate(wire'[d], active, ordered)
                      /\ Silent(wire'[d]) => /\ active \subseteq view'[d]
                                             /\ ordered => view'[d] \subseteq active
    BY <1>3 DEF MembersTold, Reaches, hostVars
  <2>1. /\ UpToDate(wire[d], active, ordered)
        /\ Silent(wire[d]) => /\ active \subseteq view[d]
                              /\ ordered => view[d] \subseteq active
    BY DEF News, MembersTold
  <2>2. CASE d # c
    BY <1>1, <2>1, <2>2
  <2>3. CASE d = c
    <3>1. UpToDate(wire[c], active, ordered)
      BY <2>1, <2>3
    <3>2. /\ UpToDate(wire'[c], active, ordered)
          /\ Silent(wire[c]) <=> type # "PEERS" /\ Silent(wire'[c])
          /\ Silent(wire'[c]) =>
               /\ type = "PEERS" => Head(wire[c]).ids = active
               /\ ordered /\ type = "STATE" => Head(wire[c]).id \in active
      <4> DEFINE s == wire[c]
                 t == wire'[c]
      <4>1. /\ s \in Seq(Messages) /\ t \in Seq(Messages) /\ Len(s) = Len(t) + 1
            /\ \A i \in 1 .. Len(t) : t[i] = s[i + 1]
            /\ s[1] = Head(wire[c]) /\ s[1].type = type
        BY <1>1, <1>2
      <4>2. UpToDate(s, active, ordered)
        BY <3>1
      <4> HIDE DEF s, t
      <4>3. /\ UpToDate(t, active, ordered)
            /\ Silent(s) <=> s[1].type # "PEERS" /\ Silent(t)
            /\ Silent(t) => /\ s[1].type = "PEERS" => s[1].ids = active
                            /\ ordered /\ s[1].type = "STATE" => s[1].id \in active
        BY <4>1, <4>2, Shortened
      <4> QED BY <4>1, <4>3 DEF s, t
    <3>3. CASE type = "PEERS"
      BY <2>3, <3>2, <3>3
    <3>4. CASE type # "PEERS"
      BY <2>1, <2>3, <3>2, <3>4
    <3> QED BY <3>3, <3>4
  <2> QED BY <2>2, <2>3
<1> QED BY <1>3, <1>4 DEF News, RostersToAll, hostVars

LEMMA FromWireNews ==
  ASSUME IInv, News, NEW c \in Clients, FromWire(c)
  PROVE  News'
<1>1. /\ Received(c, "STATE") /\ UNCHANGED <<hostVars, sim, end, air>>
      /\ AcceptState(c, Head(wire[c]).id)
  BY DEF FromWire
<1>2. /\ \A d \in Clients \ {c} : view'[d] = view[d]
      /\ view[c] \subseteq view'[c]
      /\ view'[c] \subseteq view[c] \cup {Head(wire[c]).id}
  BY <1>1 DEF AcceptState, IInv, TypeOK
<1> QED BY <1>1, <1>2, TakenNews

LEMMA WelcomeNews ==
  ASSUME IInv, News, NEW c \in Clients, Welcome(c)
  PROVE  News'
<1> DEFINE msg == Head(wire[c])
<1>1. /\ Received(c, "WELCOME") /\ UNCHANGED <<hostVars, sim, end, air>>
      /\ view' = [view EXCEPT ![c] = @ \cup {HostId, msg.id}]
  BY DEF Welcome
<1>2. msg \in Welcomes(c)
  BY <1>1, WireTaken DEF Welcomes
<1> HIDE DEF msg
<1>3. /\ \A d \in Clients \ {c} : view'[d] = view[d]
      /\ view'[c] = view[c] \cup {HostId, msg.id}
  BY <1>1 DEF IInv, TypeOK
<1>4. CASE \E h \in greeted : Reaches(h, c)
  <2>1. PICK h \in greeted : Reaches(h, c)
    BY <1>4
  <2>2. h \in Handles /\ msg.id = ids[h]
    BY <1>2, <2>1 DEF IInv, TypeOK, HelloAnswered
  <2>3. HostId \in active /\ msg.id \in active
    BY <2>2, InUse
  <2>4. /\ view[c] \subseteq view'[c] /\ view'[c] \subseteq view[c] \cup active
    BY <1>3, <2>3
  <2> QED BY <1>1, <1>3, <2>4, TakenNews
<1>5. CASE ~\E h \in greeted : Reaches(h, c)
  <2>1. Queue' = Queue
    BY <1>1 DEF Queue
  <2>2. \A d \in Clients \ {c} : wire'[d] = wire[d]
    BY <1>1, WireTaken
  <2>3. MembersTold'
    <3>1. \A d \in Clients, h \in greeted' : Reaches(h, d)' =>
            /\ h \in greeted /\ Reaches(h, d)
            /\ wire'[d] = wire[d] /\ view'[d] = view[d]
      BY <1>1, <1>3, <1>5, <2>2 DEF Reaches, hostVars
    <3> QED BY <1>1, <2>1, <3>1, StillTold DEF News, hostVars
  <2> QED BY <1>1, <2>1, <2>3 DEF News, RostersToAll, hostVars
<1> QED BY <1>4, <1>5

LEMMA RejectedNews ==
  ASSUME IInv, News, NEW c \in Clients, Rejected(c)
  PROVE  News'
<1>1. Received(c, "REJECT") /\ UNCHANGED <<hostVars, sim, end, view, air>>
  BY DEF Rejected
<1>2. "REJECT" # "PEERS" /\ "REJECT" # "STATE"
  OBVIOUS
<1> QED BY <1>1, <1>2, TakenNews

LEMMA PeersNews ==
  ASSUME IInv, News, NEW c \in Clients, Peers(c)
  PROVE  News'
<1>1. /\ Received(c, "PEERS") /\ UNCHANGED <<hostVars, sim, end, air>>
      /\ view' = [view EXCEPT ![c] = Head(wire[c]).ids]
  BY DEF Peers
<1>2. /\ \A d \in Clients \ {c} : view'[d] = view[d]
      /\ view'[c] = Head(wire[c]).ids
  BY <1>1 DEF IInv, TypeOK
<1> QED BY <1>1, <1>2, TakenNews

LEMMA NextNews == IInv /\ News /\ [Next]_vars => News'
<1> SUFFICES ASSUME IInv, News, [Next]_vars PROVE News'
  OBVIOUS
<1>1. CASE PumpSim \/ BroadcastState
  BY <1>1, PumpSimNews, BroadcastStateNews
<1>2. CASE \E h \in Handles : Admit(h) \/ Refuse(h) \/ RelayState(h) \/ Depart(h)
  BY <1>2, AdmitNews, RefuseNews, RelayStateNews, DepartNews
<1>3. CASE \E c \in Clients : LinkUp(c) \/ FromAir(c) \/ FromWire(c) \/ Welcome(c)
                              \/ Rejected(c) \/ Peers(c)
  BY <1>3, LinkUpNews, FromAirNews, FromWireNews, WelcomeNews, RejectedNews, PeersNews
<1>4. ASSUME NEW c \in Clients, Join(c) PROVE News'
  <2>1. end' = [end EXCEPT ![c] = Nobody]
    BY <1>4 DEF Join, IInv, TypeOK
  <2> QED BY <1>4, <2>1, ResetNews DEF Join
<1>5. ASSUME NEW c \in Clients, NEW left \in BOOLEAN, ClientLoses(c, left) PROVE News'
  BY <1>5, ResetNews DEF ClientLoses
<1>6. CASE UNCHANGED vars
  <2>1. Queue' = Queue
    BY <1>6 DEF vars, Queue
  <2>2. MembersTold'
    BY <1>6, <2>1, StillTold DEF News, Reaches, vars
  <2> QED BY <1>6, <2>1, <2>2 DEF News, RostersToAll, vars
<1> QED BY <1>1, <1>2, <1>3, <1>4, <1>5, <1>6 DEF Next

-----------------------------------------------------------------------------
(* The theorems.                                                           *)

LEMMA Invariance == Spec => []IInv
<1> QED BY InitIInv, NextIInv, PTL DEF Spec

(* The host's tables, the clients' views and every message in the          *)
(* simulator and on a wire keep their types; no id is handed out that has  *)
(* no slot (next_player_id, checked against BCNET_MAX_PLAYERS).            *)
THEOREM TypeCorrect == Spec => []TypeOK
<1>1. IInv => TypeOK
  BY DEF IInv
<1> QED BY <1>1, Invariance, PTL

(* The slots the roster announces and the table of peers tell the same     *)
(* story (service_host).                                                   *)
THEOREM SlotsFollowMembers == Spec => []SlotsAreMembers
<1>1. IInv => SlotsAreMembers
  BY DEF IInv
<1> QED BY <1>1, Invariance, PTL

(* Once the handshake has come to rest, host and client agree on the id    *)
(* under which the client speaks (service_host, service_client).           *)
THEOREM IdsAgree == Spec => []SameId
<1>1. IInv => SameId
  <2> SUFFICES ASSUME IInv, NEW c \in Clients, Settled(c)
               PROVE  ids[end[c]] = myId[c]
    BY DEF SameId
  <2>1. PICK h \in greeted : Reaches(h, c)
    BY DEF Settled
  <2>2. h \in Handles /\ end[c] = h
    BY <2>1 DEF IInv, TypeOK, Reaches
  <2>3. Welcomes(c) = {}
    BY DEF Settled, Welcomes, ToSet
  <2> QED BY <2>1, <2>2, <2>3 DEF IInv, HelloAnswered
<1> QED BY <1>1, Invariance, PTL

(***************************************************************************)
(* Once everything sent has arrived, a member sees every player the host   *)
(* has, and over a link that keeps the order nobody else (broadcast_roster *)
(* after HELLO and Disconnect, PEERS in service_client).                   *)
(***************************************************************************)
THEOREM RostersAgree == Spec => []SameRoster
<1>1. IInv /\ News => SameRoster
  <2> SUFFICES ASSUME IInv, News, NEW c \in Clients, Settled(c)
               PROVE  active \subseteq view[c] /\ (ordered => view[c] = active)
    BY DEF SameRoster
  <2>1. PICK h \in greeted : Reaches(h, c)
    BY DEF Settled
  <2>2. Silent(Queue) /\ Silent(wire[c])
    BY DEF Settled, Silent, Queue, MessagesOf
  <2> QED BY <2>1, <2>2 DEF News, MembersTold
<1>2. Init => IInv /\ News
  BY InitIInv, InitNews
<1>3. IInv /\ News /\ [Next]_vars => (IInv /\ News)'
  BY NextIInv, NextNews
<1> QED BY <1>1, <1>2, <1>3, PTL DEF Spec
=============================================================================

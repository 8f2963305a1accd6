------------------------- MODULE ObjectFramesProofs -------------------------
(***************************************************************************)
(* Proofs about ObjectFrames, for any number of players and maps, any      *)
(* walkers and any number of frames; and, in the last part, about what one *)
(* receiver makes of the projectiles that frames list (Projectiles), for   *)
(* any shots, markers and size of its table.                               *)
(***************************************************************************)
EXTENDS ObjectFrames, Adopted, SeqSetLemmas

LEMMA WhoIsWho ==
  /\ Host \in Players
  /\ Players \subseteq Nat
  /\ Clients = Players \ {Host}
BY ObjectFramesAssumption DEF Host, Players, Clients

USE ObjectFramesAssumption, WhoIsWho

-----------------------------------------------------------------------------
(* Lemmas.                                                                 *)

LEMMA RemoveAtSet ==
  ASSUME NEW S, NEW s \in Seq(S), NEW i \in 1 .. Len(s)
  PROVE  RemoveAt(s, i) \in Seq(S) /\ ToSet(RemoveAt(s, i)) \subseteq ToSet(s)
<1> DEFINE t == SubSeq(s, 1, i - 1)
           u == SubSeq(s, i + 1, Len(s))
<1>1. Len(s) \in Nat /\ i \in 0 .. Len(s) /\ i - 1 \in 0 .. Len(s)
  OBVIOUS
<1>2. t \in Seq(S) /\ ToSet(t) \subseteq ToSet(s)
  BY <1>1, SplitSet
<1>3. u \in Seq(S) /\ ToSet(u) \subseteq ToSet(s)
  BY <1>1, SplitSet
<1>4. RemoveAt(s, i) = t \o u
  BY DEF RemoveAt
<1> HIDE DEF t, u
<1> QED BY <1>2, <1>3, <1>4, ConcatSet

-----------------------------------------------------------------------------
(* The inductive invariant: what a client that stays in its map is sent is *)
(* about that map, and what it holds is the newest it has kept.            *)

Stayers == Clients \ Walkers

SentAboutMap ==
  \A c \in Stayers :
    /\ believed[Host][c] \in {NoMap, at[c]}
    /\ \A packet \in ToSet(down[c]) : packet.map = at[c]

HeldIsNewest ==
  \A c \in Stayers :
    /\ held[c].map \in {NoMap, at[c]}
    /\ \A p \in Players : newest[c][p] <= held[c].seq

IInv == TypeOK /\ SentAboutMap /\ HeldIsNewest

LEMMA InitIInv == Init => IInv
<1> SUFFICES ASSUME Init PROVE IInv
  OBVIOUS
<1>1. <<>> \in Seq(Packets) /\ \A s : s = <<>> => ToSet(s) = {}
  BY DEF ToSet
<1>2. TypeOK
  BY <1>1 DEF Init, TypeOK
<1>3. SentAboutMap /\ HeldIsNewest
  BY <1>1 DEF Init, SentAboutMap, HeldIsNewest, Stayers, NoPacket
<1> QED BY <1>2, <1>3 DEF IInv

LEMMA MoveIInv ==
  ASSUME IInv, NEW p \in Players, NEW m \in Maps, Move(p, m)
  PROVE  IInv'
<1> USE DEF IInv
<1>1. TypeOK'
  BY DEF Move, TypeOK
<1>2. \A c \in Stayers : at'[c] = at[c]
  BY DEF Move, TypeOK, Stayers
<1>3. SentAboutMap' /\ HeldIsNewest'
  BY <1>2 DEF Move, SentAboutMap, HeldIsNewest
<1> QED BY <1>1, <1>3

LEMMA LearnIInv ==
  ASSUME IInv, NEW p \in Players, NEW q \in Players, Learn(p, q)
  PROVE  IInv'
<1> USE DEF IInv
<1>1. TypeOK'
  BY DEF Learn, TypeOK
<1>2. \A c \in Stayers : believed'[Host][c] \in {believed[Host][c], at[c]}
  <2> TAKE c \in Stayers
  <2>1. c \in Players /\ believed[Host] \in [Players -> Maps \cup {NoMap}]
    BY DEF Stayers, TypeOK
  <2>2. believed' = [believed EXCEPT ![p][q] = at[q]]
    BY DEF Learn
  <2>3. CASE p # Host
    BY <2>2, <2>3 DEF TypeOK
  <2>4. CASE p = Host
    <3>1. believed'[Host] = [believed[Host] EXCEPT ![q] = at[q]]
      BY <2>2, <2>4 DEF TypeOK
    <3> QED BY <2>1, <3>1
  <2> QED BY <2>3, <2>4
<1>3. SentAboutMap' /\ HeldIsNewest'
  BY <1>2 DEF Learn, SentAboutMap, HeldIsNewest
<1> QED BY <1>1, <1>3

LEMMA EnemySyncIInv ==
  ASSUME IInv, NEW p \in Players, EnemySync(p)
  PROVE  IInv'
<1> USE DEF IInv
<1>1. TypeOK'
  BY DEF EnemySync, TypeOK
<1>2. SentAboutMap' /\ HeldIsNewest'
  BY DEF EnemySync, SentAboutMap, HeldIsNewest
<1> QED BY <1>1, <1>2

(* What the host passes on goes to those it believes to be in its map.     *)
LEMMA SentToWanting ==
  ASSUME IInv, NEW S, NEW packet \in Packets, S \subseteq Wanting(packet.map),
         SendTo(S, packet), UNCHANGED <<at, believed>>
  PROVE  /\ down' \in [Clients -> Seq(Packets)]
         /\ SentAboutMap'
<1> USE DEF IInv
<1>1. down' = [c \in Clients |->
                 IF c \in S THEN Append(down[c], packet) ELSE down[c]]
  BY DEF SendTo
<1>2. \A c \in Clients :
        /\ Append(down[c], packet) \in Seq(Packets)
        /\ ToSet(Append(down[c], packet)) = ToSet(down[c]) \cup {packet}
  <2> TAKE c \in Clients
  <2>1. down[c] \in Seq(Packets)
    BY DEF TypeOK
  <2> QED BY <2>1, AppendSet
<1>3. down' \in [Clients -> Seq(Packets)]
  BY <1>1, <1>2 DEF TypeOK
<1>4. ASSUME NEW c \in Stayers, NEW x \in ToSet(down'[c]) PROVE x.map = at[c]
  <2>1. x \in ToSet(down[c]) \/ (c \in S /\ x = packet)
    <3>1. c \in Clients
      BY DEF Stayers
    <3>2. CASE c \in S
      <4>1. down'[c] = Append(down[c], packet)
        BY <1>1, <3>1, <3>2
      <4>2. x \in ToSet(down[c]) \cup {packet}
        BY <1>2, <3>1, <4>1
      <4> QED BY <3>2, <4>2
    <3>3. CASE c \notin S
      <4>1. down'[c] = down[c]
        BY <1>1, <3>1, <3>3
      <4> QED BY <4>1
    <3> QED BY <3>2, <3>3
  <2>2. CASE c \in S /\ x = packet
    <3>1. believed[Host][c] = packet.map /\ packet.map # NoMap
      BY <2>2 DEF Wanting, Packets
    <3> QED BY <2>2, <3>1 DEF SentAboutMap
  <2> QED BY <2>1, <2>2 DEF SentAboutMap
<1> QED BY <1>3, <1>4 DEF SentAboutMap

LEMMA BroadcastIInv ==
  ASSUME IInv, NEW p \in Players, Broadcast(p)
  PROVE  IInv'
<1> USE DEF IInv
<1> DEFINE packet == [from |-> p, seq |-> tx'[p], map |-> frame[p]]
<1>1. /\ tx' \in [Players -> 0 .. MaxSeq]
      /\ packet \in Packets
  <2>1. tx[p] \in 0 .. MaxSeq /\ tx[p] < MaxSeq /\ frame[p] \in Maps
    BY DEF Broadcast, TypeOK
  <2>2. tx' = [tx EXCEPT ![p] = @ + 1]
    BY DEF Broadcast
  <2>3. tx'[p] \in 1 .. MaxSeq
    BY <2>1, <2>2 DEF TypeOK
  <2>4. tx' \in [Players -> 0 .. MaxSeq]
    BY <2>1, <2>2 DEF TypeOK
  <2> QED BY <2>1, <2>3, <2>4 DEF Packets
<1>2. packet.map = frame[p]
  OBVIOUS
<1>3. /\ UNCHANGED <<at, believed, frame, held, newest>>
      /\ IF p = Host THEN SendTo(Wanting(frame[p]), packet) /\ up' = up
         ELSE up' = [up EXCEPT ![p] = Append(@, packet)] /\ down' = down
  BY DEF Broadcast
<1> HIDE DEF packet
<1>4. up' \in [Clients -> Seq(Packets)]
  <2>1. CASE p = Host
    BY <1>3, <2>1 DEF TypeOK
  <2>2. CASE p # Host
    <3>1. up[p] \in Seq(Packets) /\ Append(up[p], packet) \in Seq(Packets)
      BY <1>1, <2>2 DEF TypeOK
    <3> QED BY <1>3, <2>2, <3>1 DEF TypeOK
  <2> QED BY <2>1, <2>2
<1>5. down' \in [Clients -> Seq(Packets)] /\ SentAboutMap'
  <2>1. CASE p = Host
    BY <1>1, <1>2, <1>3, <2>1, SentToWanting
  <2>2. CASE p # Host
    BY <1>3, <2>2 DEF TypeOK, SentAboutMap
  <2> QED BY <2>1, <2>2
<1>6. TypeOK' /\ HeldIsNewest'
  BY <1>1, <1>3, <1>4, <1>5 DEF TypeOK, HeldIsNewest
<1> QED BY <1>5, <1>6

LEMMA RelayIInv ==
  ASSUME IInv, NEW c \in Clients, Relay(c)
  PROVE  IInv'
<1> USE DEF IInv
<1>1. PICK i \in 1 .. Len(up[c]) :
        /\ SendTo(Wanting(up[c][i].map) \ {c}, up[c][i])
        /\ up' = [up EXCEPT ![c] = RemoveAt(@, i)]
  BY DEF Relay
<1>2. UNCHANGED <<at, believed, frame, tx, held, newest>>
  BY DEF Relay
<1>3. up[c] \in Seq(Packets)
  BY DEF TypeOK
<1>4. up[c][i] \in Packets /\ RemoveAt(up[c], i) \in Seq(Packets)
  BY <1>3, RemoveAtSet
<1>5. down' \in [Clients -> Seq(Packets)] /\ SentAboutMap'
  BY <1>1, <1>2, <1>4, SentToWanting
<1>6. up' \in [Clients -> Seq(Packets)]
  BY <1>1, <1>4 DEF TypeOK
<1>7. TypeOK' /\ HeldIsNewest'
  BY <1>2, <1>5, <1>6 DEF TypeOK, HeldIsNewest
<1> QED BY <1>5, <1>7

(* A frame less on the way to a client.                                    *)
LEMMA TakenFromDown ==
  ASSUME IInv, NEW c \in Clients, NEW i \in 1 .. Len(down[c]),
         down' = [down EXCEPT ![c] = RemoveAt(@, i)], UNCHANGED <<at, believed>>
  PROVE  down' \in [Clients -> Seq(Packets)] /\ SentAboutMap'
<1> USE DEF IInv
<1>1. down[c] \in Seq(Packets)
  BY DEF TypeOK
<1>2. /\ RemoveAt(down[c], i) \in Seq(Packets)
      /\ ToSet(RemoveAt(down[c], i)) \subseteq ToSet(down[c])
  BY <1>1, RemoveAtSet
<1>3. \A d \in Clients : ToSet(down'[d]) \subseteq ToSet(down[d])
  BY <1>2 DEF TypeOK
<1>4. down' \in [Clients -> Seq(Packets)]
  BY <1>2 DEF TypeOK
<1> QED BY <1>3, <1>4 DEF SentAboutMap, Stayers

LEMMA LoseIInv ==
  ASSUME IInv, NEW c \in Clients, Lose(c)
  PROVE  IInv'
<1> USE DEF IInv
<1>1. UNCHANGED <<at, believed, frame, tx, held, newest>>
  BY DEF Lose
<1>2. HeldIsNewest'
  BY <1>1 DEF HeldIsNewest
<1>3. CASE down' = down /\ \E i \in 1 .. Len(up[c]) :
             up' = [up EXCEPT ![c] = RemoveAt(@, i)]
  <2>1. PICK i \in 1 .. Len(up[c]) : up' = [up EXCEPT ![c] = RemoveAt(@, i)]
    BY <1>3
  <2>2. up[c] \in Seq(Packets)
    BY DEF TypeOK
  <2>3. RemoveAt(up[c], i) \in Seq(Packets)
    BY <2>2, RemoveAtSet
  <2>4. up' \in [Clients -> Seq(Packets)]
    BY <2>1, <2>3 DEF TypeOK
  <2> QED BY <1>1, <1>2, <1>3, <2>4 DEF TypeOK, SentAboutMap
<1>4. CASE up' = up /\ \E i \in 1 .. Len(down[c]) :
             down' = [down EXCEPT ![c] = RemoveAt(@, i)]
  <2>1. down' \in [Clients -> Seq(Packets)] /\ SentAboutMap'
    BY <1>1, <1>4, TakenFromDown
  <2> QED BY <1>1, <1>2, <1>4, <2>1 DEF TypeOK
<1> QED BY <1>3, <1>4 DEF Lose

(***************************************************************************)
(* What a stayer keeps is newer than anything it has kept: that is both    *)
(* the property and what makes it inductive.                               *)
(***************************************************************************)
LEMMA ReceiveNewer ==
  ASSUME IInv, NEW c \in Clients, NEW i \in 1 .. Len(down[c]),
         c \in Stayers, Keeps(c, down[c][i])
  PROVE  /\ down[c][i].map = at[c]
         /\ \A p \in Players : newest[c][p] < down[c][i].seq
<1> USE DEF IInv
<1> DEFINE packet == down[c][i]
<1>1. down[c] \in Seq(Packets) /\ packet \in Packets
  BY DEF TypeOK
<1>2. packet \in ToSet(down[c])
  BY <1>1, InSet
<1> HIDE DEF packet
<1>3. packet.map = at[c] /\ packet.seq \in 1 .. MaxSeq
  BY <1>1, <1>2 DEF SentAboutMap, Packets
<1>4. \A p \in Players : newest[c][p] \in Nat /\ newest[c][p] <= held[c].seq
  <2>1. newest[c] \in [Players -> 0 .. MaxSeq]
    BY DEF TypeOK
  <2> QED BY <2>1 DEF HeldIsNewest
<1>5. held[c].seq \in Nat
  <2>1. held[c] \in Packets \/ held[c] = NoPacket
    BY DEF TypeOK
  <2>2. CASE held[c] \in Packets
    BY <2>2 DEF Packets
  <2>3. CASE held[c] = NoPacket
    BY <2>3 DEF NoPacket
  <2> QED BY <2>1, <2>2, <2>3
<1>6. CASE held[c].map = packet.map
  <2>1. packet.seq > held[c].seq
    BY <1>6 DEF Keeps, packet
  <2> QED BY <1>3, <1>4, <1>5, <2>1 DEF packet
<1>7. CASE held[c].map # packet.map
  <2>1. held[c].map = NoMap
    BY <1>3, <1>7 DEF HeldIsNewest
  <2>2. held[c] = NoPacket
    BY <2>1 DEF TypeOK, Packets
  <2>3. held[c].seq = 0
    BY <2>2 DEF NoPacket
  <2> QED BY <1>3, <1>4, <2>3 DEF packet
<1> QED BY <1>6, <1>7

LEMMA ReceiveIInv ==
  ASSUME IInv, NEW c \in Clients, Receive(c)
  PROVE  IInv'
<1> USE DEF IInv
<1>1. PICK i \in 1 .. Len(down[c]) :
        /\ down' = [down EXCEPT ![c] = RemoveAt(@, i)]
        /\ IF Keeps(c, down[c][i])
             THEN /\ held' = [held EXCEPT ![c] = down[c][i]]
                  /\ newest' = [newest EXCEPT ![c][down[c][i].from] =
                                  IF down[c][i].seq > @ THEN down[c][i].seq ELSE @]
             ELSE UNCHANGED <<held, newest>>
  BY DEF Receive
<1> DEFINE packet == down[c][i]
<1>2. UNCHANGED <<at, believed, frame, tx, up>>
  BY DEF Receive
<1>3. down' \in [Clients -> Seq(Packets)] /\ SentAboutMap'
  BY <1>1, <1>2, TakenFromDown
<1>4. down[c] \in Seq(Packets)
  BY DEF TypeOK
<1>5. packet \in Packets
  BY <1>4
<1>6. packet.seq \in 0 .. MaxSeq /\ packet.from \in Players
  BY <1>5 DEF Packets
<1> HIDE DEF packet
<1>7. CASE ~Keeps(c, packet)
  <2>1. UNCHANGED <<held, newest>>
    BY <1>1, <1>7 DEF packet
  <2> QED BY <1>2, <1>3, <2>1 DEF TypeOK, HeldIsNewest
<1>8. CASE Keeps(c, packet)
  <2>1. /\ held' = [held EXCEPT ![c] = packet]
        /\ newest' = [newest EXCEPT ![c][packet.from] =
                        IF packet.seq > @ THEN packet.seq ELSE @]
    BY <1>1, <1>8 DEF packet
  <2>2. /\ held' \in [Clients -> Packets \cup {NoPacket}]
        /\ newest' \in [Clients -> [Players -> 0 .. MaxSeq]]
    <3> DEFINE seq == IF packet.seq > newest[c][packet.from] THEN packet.seq
                      ELSE newest[c][packet.from]
               row == [newest[c] EXCEPT ![packet.from] = seq]
    <3>1. /\ held \in [Clients -> Packets \cup {NoPacket}]
          /\ newest \in [Clients -> [Players -> 0 .. MaxSeq]]
      BY DEF TypeOK
    <3>2. held' \in [Clients -> Packets \cup {NoPacket}]
      BY <1>5, <2>1, <3>1
    <3>3. seq \in 0 .. MaxSeq
      BY <1>6, <3>1
    <3>4. newest' = [newest EXCEPT ![c] = row]
      BY <2>1
    <3> HIDE DEF seq
    <3>5. row \in [Players -> 0 .. MaxSeq]
      BY <3>1, <3>3
    <3> HIDE DEF row
    <3> QED BY <3>1, <3>2, <3>4, <3>5
  <2>3. TypeOK'
    BY <1>2, <1>3, <2>2 DEF TypeOK
  <2>4. HeldIsNewest'
    <3> SUFFICES ASSUME NEW d \in Stayers
                 PROVE  /\ held'[d].map \in {NoMap, at[d]}
                        /\ \A p \in Players : newest'[d][p] <= held'[d].seq
      BY <1>2 DEF HeldIsNewest
    <3>1. CASE d # c
      <4>1. held'[d] = held[d] /\ newest'[d] = newest[d]
        BY <2>1, <3>1 DEF TypeOK, Stayers
      <4> QED BY <4>1 DEF HeldIsNewest
    <3>2. CASE d = c
      <4>1. /\ packet.map = at[c]
            /\ \A p \in Players : newest[c][p] < packet.seq
        BY <1>8, <3>2, ReceiveNewer DEF packet
      <4>2. held'[c] = packet
        BY <2>1 DEF TypeOK
      <4>3. \A p \in Players : newest'[c][p] \in {newest[c][p], packet.seq}
        BY <1>6, <2>1 DEF TypeOK
      <4>4. \A p \in Players : newest[c][p] \in Nat
        BY DEF TypeOK
      <4>5. held'[c].map \in {NoMap, at[c]}
        BY <4>1, <4>2
      <4>6. \A p \in Players : newest'[c][p] <= packet.seq
        BY <1>6, <4>1, <4>3, <4>4
      <4> QED BY <3>2, <4>2, <4>5, <4>6
    <3> QED BY <3>1, <3>2
  <2> QED BY <1>3, <2>3, <2>4
<1> QED BY <1>7, <1>8

LEMMA NextIInv == IInv /\ [Next]_vars => IInv'
<1> SUFFICES ASSUME IInv, [Next]_vars PROVE IInv'
  OBVIOUS
<1>1. CASE \E p \in Players : EnemySync(p) \/ Broadcast(p)
  BY <1>1, EnemySyncIInv, BroadcastIInv
<1>2. CASE \E p \in Players, m \in Maps : Move(p, m)
  BY <1>2, MoveIInv
<1>3. CASE \E p, q \in Players : Learn(p, q)
  BY <1>3, LearnIInv
<1>4. CASE \E c \in Clients : Relay(c) \/ Lose(c) \/ Receive(c)
  BY <1>4, RelayIInv, LoseIInv, ReceiveIInv
<1>5. CASE UNCHANGED vars
  BY <1>5 DEF vars, IInv, TypeOK, SentAboutMap, HeldIsNewest
<1> QED BY <1>1, <1>2, <1>3, <1>4, <1>5 DEF Next

-----------------------------------------------------------------------------
(* The theorems.                                                           *)

LEMMA Invariance == Spec => []IInv
<1> QED BY InitIInv, NextIInv, PTL DEF Spec

(* Frames, numbers and beliefs keep their types.                           *)
THEOREM TypeCorrect == Spec => []TypeOK
<1>1. IInv => TypeOK
  BY DEF IInv
<1> QED BY <1>1, Invariance, PTL

(* A client that stays in its map never applies a frame older than one of  *)
(* the same sender it has applied (accept_objects).                        *)
THEOREM NeverStepsBack == Spec => NoStepBack
<1>1. IInv /\ [Next]_vars =>
        [\A c \in Clients \ Walkers :
           held'[c] # held[c] /\ held'[c].map = at[c]
             => held'[c].seq > newest[c][held'[c].from]]_vars
  <2> SUFFICES ASSUME IInv, Next, NEW c \in Clients \ Walkers, held'[c] # held[c]
               PROVE  held'[c].seq > newest[c][held'[c].from]
    BY DEF vars
  <2>1. PICK d \in Clients : Receive(d)
    <3>1. UNCHANGED held \/ \E d \in Clients : Receive(d)
      BY DEF Next, EnemySync, Broadcast, Move, Learn, Relay, Lose
    <3> QED BY <3>1
  <2>2. PICK i \in 1 .. Len(down[d]) :
          IF Keeps(d, down[d][i])
            THEN held' = [held EXCEPT ![d] = down[d][i]]
            ELSE UNCHANGED held
    BY <2>1 DEF Receive
  <2>3. d = c /\ Keeps(c, down[c][i]) /\ held'[c] = down[c][i]
    BY <2>2 DEF IInv, TypeOK
  <2>4. \A p \in Players : newest[c][p] < down[c][i].seq
    BY <2>2, <2>3, ReceiveNewer DEF Stayers
  <2>5. down[c][i] \in Packets
    <3>1. down[c] \in Seq(Packets)
      BY DEF IInv, TypeOK
    <3> QED BY <2>2, <2>3, <3>1
  <2>6. down[c][i].from \in Players /\ down[c][i].seq \in Nat
    BY <2>5 DEF Packets
  <2>7. \A p \in Players : newest[c][p] \in 0 .. MaxSeq
    <3>1. newest[c] \in [Players -> 0 .. MaxSeq]
      BY DEF IInv, TypeOK
    <3> QED BY <3>1
  <2>8. newest[c][down[c][i].from] \in Nat
    <3>1. newest[c][down[c][i].from] \in 0 .. MaxSeq
      BY <2>6, <2>7
    <3> QED BY <3>1
  <2> QED BY <2>3, <2>4, <2>6, <2>8
<1> QED BY <1>1, Invariance, PTL DEF Spec, NoStepBack

-----------------------------------------------------------------------------
(* The projectiles of one receiver.                                        *)

VARIABLES thrown, flying, near, wire, received, doomed

P == INSTANCE Projectiles WITH frame <- received

USE AdoptedAssumption

(* The inductive invariant: no two entries of the table are for one shot.  *)
Distinct(t) == \A i, j \in 1 .. Len(t) : t[i].id = t[j].id => i = j

TableInv == P!TypeOK /\ Distinct(table)

(* What the compaction makes of the entries kept so far at entry i.        *)
Keep(there, kept, i) ==
  IF i \in P!Cleared(there) THEN kept ELSE Append(kept, table[i])

(* The table as the entries are looked at, one after the other.            *)
KeptInTurn(h, there) ==
  /\ h[0] = <<>>
  /\ \A i \in 1 .. Len(table) : h[i] = Keep(there, h[i - 1], i)
  /\ h[Len(table)] = P!Kept(there)

LEMMA KeptTrace ==
  ASSUME NEW there, table \in Seq(P!Entries)
  PROVE  \E h : KeptInTurn(h, there)
<1> DEFINE n == Len(table)
           Rows == Seq(P!Entries)
           indices == [i \in DOMAIN table |-> i]
           step == [i \in 1 .. n |-> [x \in Rows |-> Keep(there, x, i)]]
           fold == CHOOSE f : f = [T \in SUBSET (DOMAIN indices) |->
                     IF T = {} THEN <<>>
                     ELSE IF indices[P!Max(T)] \in P!Cleared(there)
                          THEN f[T \ {P!Max(T)}]
                          ELSE Append(f[T \ {P!Max(T)}], table[indices[P!Max(T)]])]
           h == [i \in 0 .. n |-> fold[1 .. i]]
<1>1. n \in Nat /\ DOMAIN table = 1 .. n /\ \A i \in 1 .. n : table[i] \in P!Entries
  OBVIOUS
<1>2. step \in [1 .. n -> [Rows -> Rows]]
  <2> SUFFICES ASSUME NEW i \in 1 .. n, NEW x \in Rows PROVE Keep(there, x, i) \in Rows
    OBVIOUS
  <2> QED BY <1>1 DEF Keep
<1>3. P!Kept(there) = fold[DOMAIN indices]
  BY DEF P!Kept, P!FoldLeftDomain, P!FoldLeft, P!MapThenFoldSet
<1>4. fold = [T \in SUBSET (1 .. n) |->
                IF T = {} THEN <<>> ELSE Keep(there, fold[T \ {Max(T)}], Max(T))]
  <2>1. PICK f : FoldsSteps(f, n, Rows, <<>>, step)
    <3>1. <<>> \in Rows
      OBVIOUS
    <3> HIDE DEF n, step, Rows
    <3> QED BY <1>1, <1>2, <3>1, FoldDefined
  <2>2. \A T \in SUBSET (1 .. n) : T # {} =>
          /\ step[Max(T)][f[T \ {Max(T)}]] = Keep(there, f[T \ {Max(T)}], Max(T))
          /\ indices[Max(T)] = Max(T)
    <3> HIDE DEF n
    <3> SUFFICES ASSUME NEW T \in SUBSET (1 .. n), T # {}
                 PROVE  /\ step[Max(T)][f[T \ {Max(T)}]]
                             = Keep(there, f[T \ {Max(T)}], Max(T))
                        /\ indices[Max(T)] = Max(T)
      OBVIOUS
    <3>1. Max(T) \in 1 .. n
      BY <1>1, HighestNumber
    <3> HIDE DEF Rows
    <3>2. f[T \ {Max(T)}] \in Rows
      BY <2>1 DEF FoldsSteps
    <3> QED BY <1>1, <3>1, <3>2
  <2>3. f = [T \in SUBSET (1 .. n) |->
               IF T = {} THEN <<>> ELSE Keep(there, f[T \ {Max(T)}], Max(T))]
    <3> HIDE DEF n, Rows, step
    <3> QED BY <2>1, <2>2 DEF FoldsSteps
  <2>4. DOMAIN indices = 1 .. n
    BY <1>1
  <2>5. \A T : P!Max(T) = Max(T)
    BY DEF P!Max, Max
  <2>6. \E g : g = [T \in SUBSET (DOMAIN indices) |->
                     IF T = {} THEN <<>>
                     ELSE IF indices[P!Max(T)] \in P!Cleared(there)
                          THEN g[T \ {P!Max(T)}]
                          ELSE Append(g[T \ {P!Max(T)}], table[indices[P!Max(T)]])]
    <3> HIDE DEF n, indices
    <3>1. f = [T \in SUBSET (DOMAIN indices) |->
                     IF T = {} THEN <<>>
                     ELSE IF indices[P!Max(T)] \in P!Cleared(there)
                          THEN f[T \ {P!Max(T)}]
                          ELSE Append(f[T \ {P!Max(T)}], table[indices[P!Max(T)]])]
      BY <2>2, <2>3, <2>4, <2>5 DEF Keep
    <3> QED BY <3>1
  <2>7. fold = [T \in SUBSET (DOMAIN indices) |->
                     IF T = {} THEN <<>>
                     ELSE IF indices[P!Max(T)] \in P!Cleared(there)
                          THEN fold[T \ {P!Max(T)}]
                          ELSE Append(fold[T \ {P!Max(T)}], table[indices[P!Max(T)]])]
    <3> HIDE DEF n, indices
    <3> QED BY <2>6
  <2> HIDE DEF n, indices, fold
  <2> QED BY <2>2, <2>4, <2>5, <2>7 DEF Keep
<1> HIDE DEF fold, step
<1>5. h[0] = <<>>
  BY <1>1, <1>4
<1>6. \A i \in 1 .. n : h[i] = Keep(there, h[i - 1], i)
  <2> SUFFICES ASSUME NEW i \in 1 .. n
               PROVE  fold[1 .. i] = Keep(there, fold[1 .. i - 1], i)
    BY <1>1
  <2>1. Max(1 .. i) = i /\ (1 .. i) \ {Max(1 .. i)} = 1 .. i - 1
    BY <1>1, TopOfInterval
  <2>2. 1 .. i \in SUBSET (1 .. n) /\ 1 .. i # {}
    <3>1. 1 \in 1 .. i /\ \A j \in 1 .. i : j \in 1 .. n
      BY <1>1
    <3> QED BY <3>1
  <2> QED BY <1>4, <2>1, <2>2
<1>7. h[n] = P!Kept(there)
  <2>1. DOMAIN indices = 1 .. n
    BY <1>1
  <2> QED BY <1>1, <1>3, <2>1
<1> QED BY <1>5, <1>6, <1>7 DEF KeptInTurn

LEMMA KeptEntries ==
  ASSUME NEW there, table \in Seq(P!Entries), Distinct(table)
  PROVE  /\ P!Kept(there) \in Seq(P!Entries) /\ Len(P!Kept(there)) <= Len(table)
         /\ Distinct(P!Kept(there))
<1>1. PICK h : KeptInTurn(h, there)
  BY KeptTrace
<1> DEFINE n == Len(table)
           From(s, k) == \A j \in 1 .. Len(s) : \E l \in 1 .. k : s[j] = table[l]
           good == {i \in 0 .. n : /\ h[i] \in Seq(P!Entries) /\ Len(h[i]) <= i
                                   /\ Distinct(h[i]) /\ From(h[i], i)}
<1>2. n \in Nat /\ \A i \in 1 .. n : table[i] \in P!Entries
  OBVIOUS
<1>3. 0 \in good
  <2>1. h[0] = <<>> /\ <<>> \in Seq(P!Entries) /\ Len(<<>>) = 0
    BY <1>1 DEF KeptInTurn
  <2>2. Distinct(<<>>) /\ From(<<>>, 0) /\ 0 \in 0 .. n /\ Len(<<>>) <= 0
    BY <1>2 DEF Distinct
  <2> HIDE DEF n, From
  <2> QED BY <2>1, <2>2
<1>4. \A i \in 1 .. n : i - 1 \in good => i \in good
  <2> SUFFICES ASSUME NEW i \in 1 .. n, i - 1 \in good PROVE i \in good
    OBVIOUS
  <2> DEFINE s == h[i - 1]
             t == h[i]
  <2>1. /\ s \in Seq(P!Entries) /\ Len(s) <= i - 1 /\ Distinct(s) /\ From(s, i - 1)
        /\ t = Keep(there, s, i)
    BY <1>1, <1>2 DEF KeptInTurn
  <2>2. t \in Seq(P!Entries) /\ Len(t) <= i /\ Distinct(t) /\ From(t, i)
    <3> HIDE DEF s, t, n
    <3>1. CASE t = s
      <4>1. \A l \in 1 .. i - 1 : l \in 1 .. i
        BY <1>2
      <4>2. Len(t) <= i
        BY <1>2, <2>1, <3>1
      <4> QED BY <2>1, <3>1, <4>1, <4>2
    <3>2. CASE t = Append(s, table[i])
      <4>1. /\ t \in Seq(P!Entries) /\ Len(t) = Len(s) + 1 /\ Len(s) \in Nat
            /\ t[Len(s) + 1] = table[i] /\ \A j \in 1 .. Len(s) : t[j] = s[j]
        <5>1. s \in Seq(P!Entries) /\ table[i] \in P!Entries
          BY <1>2, <2>1
        <5> QED BY <3>2, <5>1
      <4>2. \A j \in 1 .. Len(t) : j \in 1 .. Len(s) \/ j = Len(s) + 1
        BY <4>1
      <4>3. \A j \in 1 .. Len(s) : \E l \in 1 .. i - 1 : t[j] = table[l]
        BY <2>1, <4>1
      <4>4. From(t, i)
        <5>1. \A l \in 1 .. i - 1 : l \in 1 .. i
          BY <1>2
        <5>2. i \in 1 .. i
          BY <1>2
        <5> QED BY <4>1, <4>2, <4>3, <5>1, <5>2
      <4>5. \A j \in 1 .. Len(s) : t[j].id # t[Len(s) + 1].id
        <5> SUFFICES ASSUME NEW j \in 1 .. Len(s) PROVE t[j].id # table[i].id
          BY <4>1
        <5>1. PICK l \in 1 .. i - 1 : t[j] = table[l]
          BY <4>3
        <5>2. l \in 1 .. Len(table) /\ i \in 1 .. Len(table) /\ l # i
          BY <1>2 DEF n
        <5> QED BY <5>1, <5>2 DEF Distinct
      <4>6. Distinct(t)
        <5>1. \A j, l \in 1 .. Len(s) : t[j].id = t[l].id => j = l
          BY <2>1, <4>1 DEF Distinct
        <5> QED BY <4>2, <4>5, <5>1 DEF Distinct
      <4>7. Len(t) <= i
        BY <1>2, <2>1, <4>1
      <4> QED BY <4>1, <4>4, <4>6, <4>7
    <3> QED BY <2>1, <3>1, <3>2 DEF Keep
  <2> QED BY <2>2
<1> HIDE DEF good
<1>5. 0 .. n \subseteq good /\ n \in 0 .. n
  <2> HIDE DEF n
  <2>1. n \in 0 .. n
    BY <1>2
  <2>2. 0 .. n \subseteq good
    BY <1>2, <1>3, <1>4, Counting
  <2> QED BY <2>1, <2>2
<1>6. /\ h[n] \in Seq(P!Entries) /\ Len(h[n]) <= n
      /\ Distinct(h[n]) /\ h[n] = P!Kept(there)
  <2>1. h[n] = P!Kept(there)
    BY <1>1 DEF KeptInTurn
  <2> HIDE DEF n, From
  <2> QED BY <1>5, <2>1 DEF good
<1> QED BY <1>6

LEMMA SameOperators ==
  /\ \A S : P!Cardinality(S) = Cardinality(S) /\ P!SetToSeq(S) = SetToSeq(S)
  /\ \A S : P!IsFiniteSet(S) <=> IsFiniteSet(S)
<1>1. \A S : P!Cardinality(S) = Cardinality(S)
  BY DEF P!Cardinality, Cardinality
<1>2. \A S : P!SetToSeq(S) = SetToSeq(S)
  BY <1>1 DEF P!SetToSeq, SetToSeq, P!IsInjective, IsInjective
<1>3. \A S : P!IsFiniteSet(S) <=> IsFiniteSet(S)
  BY DEF P!IsFiniteSet, IsFiniteSet
<1> QED BY <1>1, <1>2, <1>3

LEMMA LowestOfThree ==
  ASSUME NEW a \in Nat, NEW b \in Nat, NEW c \in Nat
  PROVE  P!Min({a, b, c}) \in Nat /\ P!Min({a, b, c}) <= a
<1>1. \E x \in {a, b, c} : \A y \in {a, b, c} : x <= y
  <2>1. CASE a <= b /\ a <= c
    BY <2>1
  <2>2. CASE b <= a /\ b <= c
    BY <2>2
  <2>3. CASE c <= a /\ c <= b
    BY <2>3
  <2> QED BY <2>1, <2>2, <2>3
<1> QED BY <1>1 DEF P!Min

(* The entries behind those kept, one for each shot taken.                 *)
LEMMA TakenEntries ==
  ASSUME NEW taken \in SUBSET Shots, NEW marker \in [taken -> Markers],
         NEW n, n = Cardinality(taken),
         NEW rows, rows = [i \in 1 .. n |-> [id |-> P!SetToSeq(taken)[i],
                                             marker |-> marker[P!SetToSeq(taken)[i]]]]
  PROVE  /\ n \in Nat /\ rows \in Seq(P!Entries) /\ Len(rows) = n /\ Distinct(rows)
         /\ \A i \in 1 .. n : rows[i].id \in taken
<1> DEFINE order == SetToSeq(taken)
<1>1. IsFiniteSet(taken) /\ n \in Nat
  BY FS_Subset, FS_CardinalityType
<1>2. \E f \in [1 .. n -> taken] : IsInjective(f)
  BY <1>1, FS_CardinalityType DEF ExistsBijection, Bijection, Injection, IsInjective
<1>3. order \in [1 .. n -> taken] /\ IsInjective(order)
  BY <1>2 DEF SetToSeq
<1>4. rows = [i \in 1 .. n |-> [id |-> order[i], marker |-> marker[order[i]]]]
  BY SameOperators
<1> HIDE DEF order
<1>5. \A i \in 1 .. n : /\ order[i] \in taken
                         /\ [id |-> order[i], marker |-> marker[order[i]]] \in P!Entries
  BY <1>3 DEF P!Entries
<1>6. rows \in Seq(P!Entries) /\ Len(rows) = n
  <2>1. \A i \in 1 .. n : rows[i] \in P!Entries
    BY <1>4, <1>5
  <2>2. rows = [i \in 1 .. n |-> rows[i]]
    BY <1>4
  <2>3. rows \in [1 .. n -> P!Entries]
    BY <2>1, <2>2, Zenon
  <2> QED BY <1>1, <2>3, ListIsSeq
<1>7. \A i \in 1 .. n : rows[i].id = order[i]
  BY <1>4
<1>8. Distinct(rows)
  <2>1. \A i, j \in 1 .. n : order[i] = order[j] => i = j
    BY <1>3 DEF IsInjective
  <2> SUFFICES ASSUME NEW i \in 1 .. n, NEW j \in 1 .. n, rows[i].id = rows[j].id
               PROVE  i = j
    BY <1>6 DEF Distinct
  <2>2. order[i] = order[j]
    BY <1>7
  <2> QED BY <2>1, <2>2
<1> QED BY <1>1, <1>5, <1>6, <1>7, <1>8

LEMMA SyncTable ==
  ASSUME TableInv, P!Sync
  PROVE  TableInv'
<1> DEFINE there == live \ doomed
           kept == P!Kept(there)
           fresh == P!Adoptable(kept)
           free == Markers \ live
           n == P!Min({P!Room(kept), P!Cardinality(fresh), P!Cardinality(free)})
           Rows(taken, marker) ==
             [i \in 1 .. n |-> [id |-> P!SetToSeq(taken)[i],
                                marker |-> marker[P!SetToSeq(taken)[i]]]]
<1>1. PICK taken \in P!kSubset(n, fresh) : \E marker \in P!Injection(taken, free) :
        /\ live' = there \cup {marker[s] : s \in taken}
        /\ table' = kept \o Rows(taken, marker)
  BY DEF P!Sync
<1>2. PICK marker \in P!Injection(taken, free) :
        /\ live' = there \cup {marker[s] : s \in taken}
        /\ table' = kept \o Rows(taken, marker)
  BY <1>1
<1>3. /\ doomed' = P!Dropped(there)
      /\ UNCHANGED <<thrown, flying, near, wire, received>>
  BY DEF P!Sync
<1>4. /\ kept \in Seq(P!Entries) /\ Len(kept) <= Len(table) /\ Distinct(kept)
      /\ Len(kept) \in Nat
  BY KeptEntries DEF TableInv, P!TypeOK
<1> DEFINE rows == Rows(taken, marker)
<1> HIDE DEF kept, rows
<1>5. fresh \subseteq Shots /\ \A i \in 1 .. Len(kept) : kept[i].id \notin fresh
  <2>1. received = <<>> \/ \E listed \in SUBSET Shots : received = <<listed>>
    BY DEF TableInv, P!TypeOK, P!Frames, P!NoFrame
  <2>2. P!Listed \subseteq Shots
    BY <2>1 DEF P!Listed, P!NoFrame
  <2>3. DOMAIN kept = 1 .. Len(kept)
    BY <1>4
  <2> QED BY <2>2, <2>3 DEF P!Adoptable
<1> HIDE DEF fresh
<1>6. /\ taken \in SUBSET fresh /\ n = Cardinality(taken)
      /\ marker \in [taken -> Markers]
  BY <1>2, SameOperators DEF P!kSubset, P!Injection
<1>7. n \in Nat /\ n <= ProjectileMax - Len(kept)
  <2>1. P!Cardinality(fresh) \in Nat /\ P!Cardinality(free) \in Nat
    BY <1>5, SameOperators, FS_Subset, FS_CardinalityType
  <2>2. P!Room(kept) = ProjectileMax - Len(kept) /\ P!Room(kept) \in Nat
    BY <1>4 DEF P!Room, TableInv, P!TypeOK
  <2> HIDE DEF free
  <2> QED BY <2>1, <2>2, LowestOfThree
<1> HIDE DEF n
<1>8. /\ rows \in Seq(P!Entries) /\ Len(rows) = n /\ Distinct(rows)
      /\ \A i \in 1 .. n : rows[i].id \in fresh
  BY <1>5, <1>6, TakenEntries DEF rows
<1>9. table' = kept \o rows
  BY <1>2 DEF rows
<1>10. /\ table' \in Seq(P!Entries) /\ Len(table') = Len(kept) + n
       /\ \A i \in 1 .. Len(kept) : table'[i] = kept[i]
       /\ \A i \in Len(kept) + 1 .. Len(kept) + n :
            i - Len(kept) \in 1 .. n /\ table'[i] = rows[i - Len(kept)]
  <2> DEFINE both == kept \o rows
  <2>1. kept \in Seq(P!Entries) /\ rows \in Seq(P!Entries)
    BY <1>4, <1>8
  <2>2. /\ both \in Seq(P!Entries) /\ Len(both) = Len(kept) + Len(rows)
        /\ \A i \in 1 .. Len(kept) : both[i] = kept[i]
        /\ \A i \in Len(kept) + 1 .. Len(kept) + Len(rows) :
             i - Len(kept) \in 1 .. Len(rows) /\ both[i] = rows[i - Len(kept)]
    BY <2>1, ConcatEntries, Zenon
  <2>3. table' = both /\ Len(rows) = n
    BY <1>8, <1>9
  <2> HIDE DEF both
  <2> QED BY <2>2, <2>3
<1>11. Distinct(table')
  <2> SUFFICES ASSUME NEW i \in 1 .. Len(table'), NEW j \in 1 .. Len(table'),
                      table'[i].id = table'[j].id
               PROVE  i = j
    BY DEF Distinct
  <2>1. CASE i <= Len(kept) /\ j <= Len(kept)
    BY <1>4, <1>10, <2>1 DEF Distinct
  <2>2. CASE i <= Len(kept) /\ j > Len(kept)
    <3>1. i \in 1 .. Len(kept) /\ j \in Len(kept) + 1 .. Len(kept) + n
      BY <1>4, <1>7, <1>10, <2>2
    <3> QED BY <1>5, <1>8, <1>10, <3>1
  <2>3. CASE i > Len(kept) /\ j <= Len(kept)
    <3>1. j \in 1 .. Len(kept) /\ i \in Len(kept) + 1 .. Len(kept) + n
      BY <1>4, <1>7, <1>10, <2>3
    <3> QED BY <1>5, <1>8, <1>10, <3>1
  <2>4. CASE i > Len(kept) /\ j > Len(kept)
    <3>1. i \in Len(kept) + 1 .. Len(kept) + n /\ j \in Len(kept) + 1 .. Len(kept) + n
      BY <1>4, <1>7, <1>10, <2>4
    <3>2. /\ i - Len(kept) \in 1 .. Len(rows) /\ table'[i] = rows[i - Len(kept)]
          /\ j - Len(kept) \in 1 .. Len(rows) /\ table'[j] = rows[j - Len(kept)]
      BY <1>8, <1>10, <3>1
    <3>3. i - Len(kept) = j - Len(kept)
      BY <1>8, <3>2 DEF Distinct
    <3> QED BY <1>4, <3>1, <3>3
  <2> QED BY <1>4, <1>10, <2>1, <2>2, <2>3, <2>4
<1>12. live' \in SUBSET Markers /\ doomed' \in SUBSET Markers
  <2>1. live \in SUBSET Markers
    BY DEF TableInv, P!TypeOK
  <2>2. {marker[s] : s \in taken} \subseteq Markers
    BY <1>6
  <2>3. doomed' \subseteq there
    BY <1>3 DEF P!Dropped
  <2> QED BY <1>2, <2>1, <2>2, <2>3
<1>13. Len(table') <= ProjectileMax
  BY <1>4, <1>7, <1>10
<1> QED BY <1>3, <1>10, <1>11, <1>12, <1>13 DEF TableInv, P!TypeOK

LEMMA NextTable ==
  ASSUME TableInv, [P!Next]_(P!vars)
  PROVE  TableInv'
<1>1. CASE P!Sync
  BY <1>1, SyncTable
<1>2. CASE UNCHANGED P!vars
  BY <1>2 DEF P!vars, TableInv, P!TypeOK
<1>3. ASSUME NEW s \in Shots, P!Throw(s) \/ P!Land(s) PROVE TableInv'
  BY <1>3 DEF P!Throw, P!Land, TableInv, P!TypeOK
<1>4. CASE P!Roam
  BY <1>4 DEF P!Roam, TableInv, P!TypeOK
<1>5. CASE P!Broadcast
  BY <1>5 DEF P!Broadcast, TableInv, P!TypeOK, P!Frames
<1>6. CASE P!Deliver \/ P!Lose
  BY <1>6 DEF P!Deliver, P!Lose, TableInv, P!TypeOK, P!Frames
<1>7. ASSUME NEW m \in Markers, P!Die(m) PROVE TableInv'
  BY <1>7 DEF P!Die, TableInv, P!TypeOK
<1> QED BY <1>1, <1>2, <1>3, <1>4, <1>5, <1>6, <1>7 DEF P!Next

LEMMA InitTable ==
  ASSUME P!Init
  PROVE  TableInv
<1>1. <<>> \in Seq(P!Entries) /\ Len(<<>>) = 0
  OBVIOUS
<1> QED BY <1>1 DEF P!Init, TableInv, P!TypeOK, P!Frames, P!NoFrame, Distinct

LEMMA AlwaysTable == P!Spec => []TableInv
<1>1. P!Init => TableInv
  BY InitTable
<1>2. TableInv /\ [P!Next]_(P!vars) => TableInv'
  BY NextTable
<1> QED BY <1>1, <1>2, PTL DEF P!Spec

(* The table of projectiles, and what is on its way to it, keep their      *)
(* types: projectile_sync never fills more than PROJECTILE_MAX entries.    *)
THEOREM TableTypeCorrect == P!Spec => []P!TypeOK
<1>1. TableInv => P!TypeOK
  BY DEF TableInv
<1> QED BY <1>1, AlwaysTable, PTL

(* A shot the owner throws once is there at most once for the receiver:    *)
(* projectile_sync adopts what no kept entry is for, and its compaction    *)
(* doubles no entry.                                                       *)
THEOREM ShotsOnce == P!Spec => []ShownOnce
<1>1. TableInv => ShownOnce
  <2> SUFFICES ASSUME TableInv, NEW s \in Shots
               PROVE  Cardinality(Shown(s)) <= 1
    BY DEF ShownOnce
  <2>1. DOMAIN table = 1 .. Len(table)
    BY DEF TableInv, P!TypeOK
  <2>2. \A m, w \in Shown(s) : m = w
    <3> SUFFICES ASSUME NEW m \in Shown(s), NEW w \in Shown(s) PROVE m = w
      OBVIOUS
    <3>1. PICK i \in 1 .. Len(table) : table[i].marker = m /\ table[i].id = s
      BY <2>1 DEF Shown, EntryOf
    <3>2. PICK j \in 1 .. Len(table) : table[j].marker = w /\ table[j].id = s
      BY <2>1 DEF Shown, EntryOf
    <3> QED BY <3>1, <3>2 DEF TableInv, Distinct
  <2>3. Shown(s) = {} \/ \E m : Shown(s) = {m}
    <3> DEFINE shown == Shown(s)
    <3>1. \A m, w \in shown : m = w
      BY <2>2
    <3> HIDE DEF shown
    <3>2. shown = {} \/ \E m : shown = {m}
      BY <3>1
    <3> QED BY <3>2 DEF shown
  <2>4. Cardinality({}) = 0 /\ \A m : Cardinality({m}) = 1
    BY FS_EmptySet, FS_Singleton
  <2>5. Cardinality(Shown(s)) \in {0, 1}
    BY <2>3, <2>4, Zenon
  <2>6. \A c \in {0, 1} : c <= 1
    OBVIOUS
  <2> QED BY <2>5, <2>6, Zenon
<1> QED BY <1>1, AlwaysTable, PTL
=============================================================================

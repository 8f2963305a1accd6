------------------------- MODULE ProgressionProofs -------------------------
(***************************************************************************)
(* Proofs about Progression, for any number of clients and objects and any *)
(* queue sizes.                                                            *)
(***************************************************************************)
EXTENDS Progression, SeqSetLemmas, WellFoundedInduction

-----------------------------------------------------------------------------
(* Lemmas about the operators of the frame hook.                           *)

USE ProgressionAssumption

(* The events in a queue are those in what is taken and in what is left.   *)
LEMMA EventsSplit ==
  ASSUME NEW s \in Seq(Messages), NEW k \in 0 .. Len(s)
  PROVE  /\ EventsIn(s) = EventsIn(SubSeq(s, 1, k))
                            \cup EventsIn(SubSeq(s, k + 1, Len(s)))
         /\ EventsIn(SubSeq(s, 1, k)) \subseteq Objects
<1>1. /\ ToSet(s) = ToSet(SubSeq(s, 1, k)) \cup ToSet(SubSeq(s, k + 1, Len(s)))
      /\ SubSeq(s, 1, k) \in Seq(Messages)
  BY SplitSet
<1>2. ToSet(SubSeq(s, 1, k)) \subseteq Messages
  BY <1>1, SetOfSeq
<1> QED BY <1>1, <1>2 DEF EventsIn, Messages

(* What a message adds to the events of a queue.                           *)
LEMMA EventsAppend ==
  ASSUME NEW s \in Seq(Messages), NEW m \in Messages
  PROVE  /\ Append(s, m) \in Seq(Messages)
         /\ EventsIn(Append(s, m)) =
              EventsIn(s) \cup (IF m.type = "EVENT" THEN m.what ELSE {})
<1>1. Append(s, m) \in Seq(Messages) /\ ToSet(Append(s, m)) = ToSet(s) \cup {m}
  BY AppendSet
<1> QED BY <1>1 DEF EventsIn

(* A set of positions in a sequence that is not empty has a last one.      *)
LEMMA LastPosition ==
  ASSUME NEW n \in Nat, NEW S \in SUBSET (1 .. n), S # {}
  PROVE  Max(S) \in S
<1> DEFINE T == {n - i : i \in S}
<1>1. \A i \in S : i \in Int /\ n - i \in Nat
  OBVIOUS
<1>2. T \subseteq Nat /\ T # {}
  BY <1>1
<1>3. IsWellFoundedOn(OpToRel(<, Nat), Nat)
  BY NatLessThanWellFounded
<1>4. PICK j \in T : \A k \in T : ~ (<<k, j>> \in OpToRel(<, Nat))
  BY <1>2, <1>3, WFMin
<1>5. \A k \in T : j <= k
  <2>1. \A k \in Nat : k < j => <<k, j>> \in OpToRel(<, Nat)
    BY <1>2 DEF OpToRel
  <2> HIDE DEF T
  <2>2. \A k \in T : k \in Nat /\ j \in Nat /\ ~(k < j)
    BY <1>2, <1>4, <2>1
  <2> QED BY <2>2
<1>6. PICK x \in S : j = n - x
  OBVIOUS
<1>7. \A y \in S : n - x <= n - y
  BY <1>5, <1>6
<1>8. \A y \in S : x >= y
  BY <1>1, <1>7
<1> QED BY <1>8 DEF Max

LEMMA MirrorOf ==
  ASSUME NEW bits \in SUBSET Objects
  PROVE  <<bits>> \in Mirrors /\ Head(<<bits>>) = bits
BY DEF Mirrors

(* The mirror after a frame is the one held before or one just received.   *)
LEMMA MirrorReceived ==
  ASSUME NEW c, NEW s \in Seq(Messages)
  PROVE  MirrorAfter(c, s) \in {held[c]} \cup {<<m.what>> : m \in ToSet(s)}
<1> DEFINE mirrors == {i \in DOMAIN s : s[i].type = "PROGRESS"}
<1>1. CASE mirrors = {}
  BY <1>1 DEF MirrorAfter
<1>2. CASE mirrors # {}
  <2>1. DOMAIN s = 1 .. Len(s) /\ Len(s) \in Nat
    OBVIOUS
  <2>2. Max(mirrors) \in DOMAIN s
    BY <1>2, <2>1, LastPosition
  <2>3. MirrorAfter(c, s) = <<s[Max(mirrors)].what>>
    BY <1>2 DEF MirrorAfter
  <2>4. s[Max(mirrors)] \in ToSet(s)
    BY <2>2 DEF ToSet
  <2> HIDE DEF mirrors
  <2> QED BY <2>3, <2>4
<1> QED BY <1>1, <1>2

-----------------------------------------------------------------------------
(* The inductive invariant.                                                *)

(* Whatever is set, reported, passed on or mirrored was collected by       *)
(* somebody.                                                               *)
OnlyCollected ==
  /\ \A p \in Players :
       /\ score[p] \subseteq collected
       /\ ToSet(up[p]) \subseteq collected
       /\ \A m \in ToSet(down[p]) : m.what \subseteq collected
  /\ published # NoMirror => Head(published) \subseteq collected
  /\ \A c \in Clients : held[c] # NoMirror => Head(held[c]) \subseteq collected

(* What the host reports it has set: no mirror clears it.                  *)
HostReportsSet == ToSet(up[Host]) \subseteq score[Host]

IInv ==
  /\ TypeOK
  /\ OnlyCollected
  /\ HostReportsSet
  /\ NothingLost
  /\ BitsCountedAtHost

LEMMA InitIInv == Init => IInv
<1> SUFFICES ASSUME Init PROVE IInv
  OBVIOUS
<1>1. /\ \A S : <<>> \in Seq(S)
      /\ \A s : s = <<>> => ToSet(s) = {}
  BY DEF ToSet
<1>2. TypeOK
  BY <1>1 DEF Init, TypeOK, Mirrors
<1>3. OnlyCollected /\ HostReportsSet
  BY <1>1 DEF Init, OnlyCollected, HostReportsSet, Players
<1>4. NothingLost /\ BitsCountedAtHost
  BY DEF Init, NothingLost, BitsCountedAtHost, Players
<1> QED BY <1>2, <1>3, <1>4 DEF IInv

LEMMA CollectIInv ==
  ASSUME IInv, NEW p \in Players, NEW o \in Objects, Collect(p, o)
  PROVE  IInv'
<1> USE DEF IInv
<1>1. /\ up[p] \in Seq(Objects)
      /\ Append(up[p], o) \in Seq(Objects)
      /\ ToSet(Append(up[p], o)) = ToSet(up[p]) \cup {o}
  BY AppendSet DEF TypeOK
<1>2. /\ up' \in [Players -> Seq(Objects)]
      /\ \A q \in Players : q # p => up'[q] = up[q] /\ score'[q] = score[q]
      /\ ToSet(up'[p]) = IF o \in score[p] THEN ToSet(up[p])
                         ELSE ToSet(up[p]) \cup {o}
      /\ score'[p] = score[p] \cup {o}
      /\ collected' = collected \cup {o}
  BY <1>1 DEF TypeOK, Collect
<1>3. \A n \in 0 .. MaxCount : OneMore(n) \in 0 .. MaxCount /\ OneMore(n) > 0
  BY DEF OneMore
<1>4. /\ counted' \in [Players -> [Objects -> 0 .. MaxCount]]
      /\ \A q \in Players, x \in Objects :
           q # p \/ x # o => counted'[q][x] = counted[q][x]
      /\ counted'[p][o] > 0
  BY <1>3 DEF TypeOK, Collect
<1>5. TypeOK'
  <2>1. /\ score' \in [Players -> SUBSET Objects]
        /\ standing' \in [Players -> SUBSET Objects]
    BY DEF TypeOK, Collect
  <2> QED BY <1>2, <1>4, <2>1 DEF TypeOK, Collect
<1>6. OnlyCollected'
  BY <1>2 DEF OnlyCollected, Collect
<1>7. HostReportsSet'
  BY <1>2 DEF HostReportsSet, Players
<1>8. NothingLost'
  BY <1>2 DEF NothingLost, OnlyCollected, Collect, Players
<1>9. BitsCountedAtHost'
  BY <1>2, <1>4 DEF BitsCountedAtHost, TypeOK, Players
<1> QED BY <1>5, <1>6, <1>7, <1>8, <1>9

LEMMA HostFrameIInv ==
  ASSUME IInv, HostFrame
  PROVE  IInv'
<1> USE DEF IInv, Players
<1> PICK k \in 0 .. Len(down[Host]) :
      /\ ApplyEvents(Host, EventsIn(Taken(Host, k)))
      /\ score' = [score EXCEPT ![Host] = @ \cup EventsIn(Taken(Host, k))]
      /\ down' = [down EXCEPT ![Host] = SubSeq(@, k + 1, Len(@))]
  BY DEF HostFrame
<1> DEFINE new == EventsIn(Taken(Host, k))
<1>1. /\ EventsIn(down[Host]) = new \cup EventsIn(down'[Host])
      /\ new \subseteq Objects
      /\ down'[Host] \in Seq(Messages)
      /\ ToSet(down[Host]) = ToSet(Taken(Host, k)) \cup ToSet(down'[Host])
  BY EventsSplit, SplitSet DEF TypeOK, Taken
<1>2. new \subseteq collected
  BY <1>1 DEF OnlyCollected, EventsIn
<1>3. /\ \A q \in Players : q # Host => down'[q] = down[q] /\ score'[q] = score[q]
      /\ score'[Host] = score[Host] \cup new
      /\ down' \in [Players -> Seq(Messages)]
      /\ score' \in [Players -> SUBSET Objects]
      /\ published' = <<score'[Host]>>
      /\ UNCHANGED <<up, heard, held, collected>>
  BY <1>1 DEF TypeOK, HostFrame
<1> HIDE DEF new
<1>4. \A n \in 0 .. MaxCount : OneMore(n) \in 0 .. MaxCount /\ OneMore(n) > 0
  BY DEF OneMore
<1>5. /\ counted' \in [Players -> [Objects -> 0 .. MaxCount]]
      /\ remote' \in [Players -> SUBSET Objects]
      /\ standing' \in [Players -> SUBSET Objects]
      /\ \A x \in Objects : counted'[Host][x] =
           IF x \in new \ score[Host] THEN OneMore(counted[Host][x])
           ELSE counted[Host][x]
  <2>1. /\ counted' = [counted EXCEPT ![Host] = [x \in Objects |->
             IF x \in new \ score[Host] THEN OneMore(@[x]) ELSE @[x]]]
        /\ remote' = [remote EXCEPT ![Host] = @ \cup new]
        /\ standing' = [standing EXCEPT ![Host] = @ \ remote[Host]]
    BY DEF ApplyEvents, new
  <2>2. remote' \in [Players -> SUBSET Objects] /\ standing' \in [Players -> SUBSET Objects]
    BY <1>1, <2>1 DEF TypeOK
  <2> DEFINE row == [x \in Objects |-> IF x \in new \ score[Host]
                                          THEN OneMore(counted[Host][x])
                                          ELSE counted[Host][x]]
  <2>3. counted[Host] \in [Objects -> 0 .. MaxCount]
    BY <1>1 DEF TypeOK
  <2>4. row \in [Objects -> 0 .. MaxCount]
    BY <1>4, <2>3
  <2>5. counted' = [counted EXCEPT ![Host] = row]
    BY <2>1
  <2> HIDE DEF row
  <2>6. counted' \in [Players -> [Objects -> 0 .. MaxCount]] /\ counted'[Host] = row
    BY <1>1, <2>4, <2>5 DEF TypeOK
  <2> QED BY <2>2, <2>6 DEF row
<1>6. TypeOK'
  BY <1>3, <1>5 DEF TypeOK, Mirrors
<1>7. OnlyCollected'
  BY <1>1, <1>2, <1>3 DEF OnlyCollected, NoMirror
<1>8. HostReportsSet' /\ NothingLost'
  BY <1>1, <1>3 DEF HostReportsSet, NothingLost
<1>9. BitsCountedAtHost'
  <2>1. score'[Host] = score[Host] \cup new /\ score[Host] \cup new \subseteq Objects
    BY <1>1, <1>3 DEF TypeOK
  <2>2. counted[Host] \in [Objects -> 0 .. MaxCount]
    BY <1>1 DEF TypeOK
  <2>3. \A x \in Objects : counted'[Host][x] > 0 <=> x \in score[Host] \cup new
    BY <1>1, <1>4, <1>5, <2>2 DEF BitsCountedAtHost
  <2> QED BY <2>1, <2>3 DEF BitsCountedAtHost
<1> QED BY <1>6, <1>7, <1>8, <1>9

LEMMA ClientFrameIInv ==
  ASSUME IInv, NEW c \in Clients, ClientFrame(c)
  PROVE  IInv'
<1> USE DEF IInv, Players
<1> PICK k \in 0 .. Len(down[c]) :
      /\ ApplyEvents(c, EventsIn(Taken(c, k)))
      /\ held' = [held EXCEPT ![c] = MirrorAfter(c, Taken(c, k))]
      /\ score' = [score EXCEPT ![c] =
           IF held'[c] = NoMirror THEN @ \cup EventsIn(Taken(c, k))
           ELSE Head(held'[c])]
      /\ down' = [down EXCEPT ![c] = SubSeq(@, k + 1, Len(@))]
  BY DEF ClientFrame
<1> DEFINE new == EventsIn(Taken(c, k))
<1>1. /\ new \subseteq Objects
      /\ Taken(c, k) \in Seq(Messages)
      /\ down'[c] \in Seq(Messages)
      /\ ToSet(down[c]) = ToSet(Taken(c, k)) \cup ToSet(down'[c])
  BY EventsSplit, SplitSet DEF TypeOK, Taken
<1>2. \A m \in ToSet(Taken(c, k)) : m.what \subseteq collected /\ m \in Messages
  BY <1>1, SetOfSeq DEF OnlyCollected
<1>3. new \subseteq collected
  BY <1>2 DEF EventsIn
<1>4. /\ held'[c] \in Mirrors
      /\ held'[c] # NoMirror => Head(held'[c]) \in SUBSET (Objects \cap collected)
  <2>1. held'[c] \in {held[c]} \cup {<<m.what>> : m \in ToSet(Taken(c, k))}
    <3>1. held'[c] = MirrorAfter(c, Taken(c, k))
      BY DEF TypeOK
    <3> QED BY <1>1, <3>1, MirrorReceived
  <2>2. CASE held'[c] = held[c]
    <3>1. held[c] \in Mirrors
      BY DEF TypeOK
    <3>2. held[c] # NoMirror => Head(held[c]) \in SUBSET Objects
      BY <3>1 DEF Mirrors
    <3> QED BY <2>2, <3>1, <3>2 DEF OnlyCollected
  <2>3. ASSUME NEW m \in ToSet(Taken(c, k)), held'[c] = <<m.what>>
        PROVE  /\ held'[c] \in Mirrors
               /\ Head(held'[c]) \in SUBSET (Objects \cap collected)
    <3>1. m.what \in SUBSET Objects /\ m.what \subseteq collected
      BY <1>2 DEF Messages
    <3>2. <<m.what>> \in Mirrors /\ Head(<<m.what>>) = m.what
      BY <3>1, MirrorOf
    <3> HIDE DEF Players
    <3> QED BY <2>3, <3>1, <3>2
  <2> QED BY <2>1, <2>2, <2>3
<1> HIDE DEF new
<1>5. /\ \A q \in Players : q # c => down'[q] = down[q] /\ score'[q] = score[q]
      /\ \A d \in Clients : d # c => held'[d] = held[d]
      /\ held' \in [Clients -> Mirrors]
      /\ score'[c] \in SUBSET (Objects \cap (score[c] \cup collected))
      /\ score' \in [Players -> SUBSET Objects]
      /\ down' \in [Players -> Seq(Messages)]
      /\ UNCHANGED <<up, heard, published, collected>>
  BY <1>1, <1>3, <1>4 DEF TypeOK, ClientFrame, new
<1>6. \A n \in 0 .. MaxCount : OneMore(n) \in 0 .. MaxCount
  BY DEF OneMore
<1>7. /\ counted' \in [Players -> [Objects -> 0 .. MaxCount]]
      /\ remote' \in [Players -> SUBSET Objects]
      /\ standing' \in [Players -> SUBSET Objects]
      /\ counted'[Host] = counted[Host]
  <2>1. /\ counted' = [counted EXCEPT ![c] = [x \in Objects |->
             IF x \in new \ score[c] THEN OneMore(@[x]) ELSE @[x]]]
        /\ remote' = [remote EXCEPT ![c] = @ \cup new]
        /\ standing' = [standing EXCEPT ![c] = @ \ remote[c]]
    BY DEF ApplyEvents, new
  <2> QED BY <1>1, <1>6, <2>1 DEF TypeOK
<1>8. TypeOK'
  BY <1>5, <1>7 DEF TypeOK
<1>9. OnlyCollected'
  BY <1>1, <1>4, <1>5 DEF OnlyCollected
<1>10. HostReportsSet' /\ NothingLost' /\ BitsCountedAtHost'
  BY <1>5, <1>7 DEF HostReportsSet, NothingLost, BitsCountedAtHost
<1> QED BY <1>8, <1>9, <1>10

LEMMA AdjudicateIInv ==
  ASSUME IInv, NEW p \in Players, Adjudicate(p)
  PROVE  IInv'
<1> USE DEF IInv
<1> DEFINE o == Head(up[p])
<1>1. /\ o \in Objects
      /\ Tail(up[p]) \in Seq(Objects)
      /\ ToSet(up[p]) = {o} \cup ToSet(Tail(up[p]))
  BY HeadTailSet DEF TypeOK, Adjudicate
<1>2. Event(o) \in Messages /\ Event(o).what = {o} /\ Event(o).type = "EVENT"
  BY <1>1 DEF Event, Messages
<1>3. /\ up' \in [Players -> Seq(Objects)]
      /\ \A q \in Players :
           up'[q] = IF q = p THEN Tail(up[p]) ELSE up[q]
      /\ down' = [q \in Players |->
           IF q \in Audience(p) THEN Append(down[q], Event(o)) ELSE down[q]]
      /\ UNCHANGED <<score, counted, remote, standing, heard, published, held,
                     collected>>
  BY <1>1 DEF TypeOK, Adjudicate
<1> HIDE DEF o
<1>4. \A q \in Players :
        /\ Append(down[q], Event(o)) \in Seq(Messages)
        /\ ToSet(Append(down[q], Event(o))) = ToSet(down[q]) \cup {Event(o)}
        /\ EventsIn(Append(down[q], Event(o))) = EventsIn(down[q]) \cup {o}
  <2> TAKE q \in Players
  <2>1. down[q] \in Seq(Messages)
    BY DEF TypeOK
  <2> QED BY <1>2, <2>1, AppendSet, EventsAppend
<1>5. TypeOK'
  BY <1>3, <1>4 DEF TypeOK
<1>6. OnlyCollected'
  <2>1. o \in collected
    BY <1>1 DEF OnlyCollected
  <2>2. \A q \in Players :
          /\ score'[q] \subseteq collected
          /\ ToSet(up'[q]) \subseteq collected
    BY <1>1, <1>3, <2>1 DEF OnlyCollected
  <2>3. \A q \in Players : \A m \in ToSet(down'[q]) : m.what \subseteq collected
    <3> SUFFICES ASSUME NEW q \in Players, NEW m \in ToSet(down'[q])
                 PROVE  m.what \subseteq collected
      OBVIOUS
    <3>1. m \in ToSet(down[q]) \/ m = Event(o)
      BY <1>3, <1>4
    <3> QED BY <1>2, <2>1, <3>1 DEF OnlyCollected
  <2> QED BY <1>3, <2>2, <2>3 DEF OnlyCollected
<1>7. HostReportsSet'
  BY <1>1, <1>3 DEF HostReportsSet, Players
<1>8. NothingLost'
  <2>1. ASSUME NEW x \in collected PROVE
          \/ x \in score[Host]
          \/ \E q \in Players : x \in ToSet(up'[q])
          \/ x \in EventsIn(down'[Host])
    <3>1. CASE x \in EventsIn(down[Host])
      BY <1>3, <1>4, <3>1 DEF Players
    <3>2. CASE x = o /\ p = Host
      BY <1>1, <3>2 DEF HostReportsSet
    <3>3. CASE x = o /\ p # Host
      BY <1>3, <1>4, <3>3 DEF Audience, Players
    <3>4. CASE x # o /\ \E q \in Players : x \in ToSet(up[q])
      BY <1>1, <1>3, <3>4
    <3> QED BY <3>1, <3>2, <3>3, <3>4 DEF NothingLost
  <2> QED BY <1>3, <2>1 DEF NothingLost
<1>9. BitsCountedAtHost'
  BY <1>3 DEF BitsCountedAtHost
<1> QED BY <1>5, <1>6, <1>7, <1>8, <1>9

LEMMA BroadcastIInv ==
  ASSUME IInv, BroadcastProgress
  PROVE  IInv'
<1> USE DEF IInv
<1> DEFINE mirror == [type |-> "PROGRESS", what |-> Head(published)]
<1>1. Head(published) \in SUBSET (Objects \cap collected)
  BY DEF TypeOK, Mirrors, OnlyCollected, BroadcastProgress, NoMirror
<1>2. mirror \in Messages /\ mirror.what \subseteq collected
  BY <1>1 DEF Messages
<1>3. mirror.type = "PROGRESS"
  OBVIOUS
<1>4. /\ DOMAIN down' = Players /\ down' = [q \in Players |-> down'[q]]
      /\ \A q \in Players : \/ down'[q] = down[q]
                            \/ q \in Clients /\ down'[q] = Append(down[q], mirror)
      /\ UNCHANGED <<score, counted, remote, standing, up, heard, published,
                     held, collected>>
  BY DEF BroadcastProgress
<1> HIDE DEF mirror
<1>5. \A q \in Players :
        /\ Append(down[q], mirror) \in Seq(Messages)
        /\ ToSet(Append(down[q], mirror)) = ToSet(down[q]) \cup {mirror}
  <2> TAKE q \in Players
  <2>1. down[q] \in Seq(Messages)
    BY DEF TypeOK
  <2> QED BY <1>2, <2>1, AppendSet
<1>6. TypeOK'
  <2>1. \A q \in Players : down[q] \in Seq(Messages)
    BY DEF TypeOK
  <2>2. \A q \in Players : down'[q] \in Seq(Messages)
    <3> TAKE q \in Players
    <3>1. down'[q] = down[q] \/ down'[q] = Append(down[q], mirror)
      BY <1>4
    <3> QED BY <1>5, <2>1, <3>1
  <2>3. down' \in [Players -> Seq(Messages)]
    BY <1>4, <2>2
  <2> QED BY <1>4, <2>3 DEF TypeOK
<1>7. OnlyCollected'
  <2>1. \A q \in Players : \A m \in ToSet(down'[q]) : m.what \subseteq collected
    <3> SUFFICES ASSUME NEW q \in Players, NEW m \in ToSet(down'[q])
                 PROVE  m.what \subseteq collected
      OBVIOUS
    <3>1. ToSet(down'[q]) = ToSet(down[q])
            \/ ToSet(down'[q]) = ToSet(Append(down[q], mirror))
      BY <1>4
    <3>2. m \in ToSet(down[q]) \/ m = mirror
      BY <1>5, <3>1
    <3> QED BY <1>2, <3>2 DEF OnlyCollected
  <2> QED BY <1>4, <2>1 DEF OnlyCollected
<1>8. down'[Host] = down[Host]
  BY <1>4 DEF Players
<1>9. HostReportsSet' /\ NothingLost' /\ BitsCountedAtHost'
  BY <1>4, <1>8 DEF HostReportsSet, NothingLost, BitsCountedAtHost
<1> QED BY <1>6, <1>7, <1>9

LEMMA HearPositionIInv ==
  ASSUME IInv, NEW c \in Clients, HearPosition(c)
  PROVE  IInv'
BY DEF IInv, HearPosition, TypeOK, OnlyCollected, HostReportsSet, NothingLost,
       BitsCountedAtHost

LEMMA LoadMapIInv ==
  ASSUME IInv, NEW p \in Players, LoadMap(p)
  PROVE  IInv'
BY DEF IInv, LoadMap, TypeOK, OnlyCollected, HostReportsSet, NothingLost,
       BitsCountedAtHost

LEMMA NextIInv == IInv /\ [Next]_vars => IInv'
<1> SUFFICES ASSUME IInv, [Next]_vars PROVE IInv'
  OBVIOUS
<1>1. CASE HostFrame
  BY <1>1, HostFrameIInv
<1>2. CASE BroadcastProgress
  BY <1>2, BroadcastIInv
<1>3. CASE \E c \in Clients : ClientFrame(c) \/ HearPosition(c)
  BY <1>3, ClientFrameIInv, HearPositionIInv
<1>4. CASE \E p \in Players : Adjudicate(p) \/ LoadMap(p)
  BY <1>4, AdjudicateIInv, LoadMapIInv
<1>5. CASE \E p \in Players, o \in Objects : Collect(p, o)
  BY <1>5, CollectIInv
<1>6. CASE UNCHANGED vars
  BY <1>6 DEF vars, IInv, TypeOK, OnlyCollected, HostReportsSet, NothingLost,
              BitsCountedAtHost
<1> QED BY <1>1, <1>2, <1>3, <1>4, <1>5, <1>6 DEF Next

-----------------------------------------------------------------------------
(* The theorems.                                                           *)

LEMMA Invariance == Spec => []IInv
<1> QED BY InitIInv, NextIInv, PTL DEF Spec

(* Every record and queue of the players and of the host keeps the shape   *)
(* the frame hook and the network thread rely on.                          *)
THEOREM TypeCorrect == Spec => []TypeOK
<1>1. IInv => TypeOK
  BY DEF IInv
<1> QED BY <1>1, Invariance, PTL

(* What anybody has collected is in the host's save or on its way there,   *)
(* whatever the mirror has cleared meanwhile (progress.c:260).             *)
THEOREM NothingIsLost == Spec => []NothingLost
<1>1. IInv => NothingLost
  BY DEF IInv
<1> QED BY <1>1, Invariance, PTL

(* At the host the bits and the counter agree: what is set has been        *)
(* counted and nothing else has (world_apply.c:253).                       *)
THEOREM HostCountsItsBits == Spec => []BitsCountedAtHost
<1>1. IInv => BitsCountedAtHost
  BY DEF IInv
<1> QED BY <1>1, Invariance, PTL

(* No event counts at the host what it has already counted: the bit is     *)
(* set by then, and no mirror has cleared it (world_apply.c:253-254).      *)
THEOREM HostCountsOnce == Spec => HostEventsCountOnce
<1>1. IInv /\ [Next]_vars =>
        [HostFrame => \A o \in Counts(Host) : counted[Host][o] = 0]_vars
  <2> SUFFICES ASSUME IInv, HostFrame, NEW o \in Counts(Host)
               PROVE  counted[Host][o] = 0
    OBVIOUS
  <2>1. PICK k \in 0 .. Len(down[Host]) :
          ApplyEvents(Host, EventsIn(Taken(Host, k)))
    BY DEF HostFrame
  <2>2. o \in Objects /\ counted'[Host][o] > counted[Host][o]
    BY DEF Counts
  <2>3. counted'[Host][o] =
          IF o \in EventsIn(Taken(Host, k)) \ score[Host]
            THEN OneMore(counted[Host][o]) ELSE counted[Host][o]
    BY <2>1, <2>2 DEF ApplyEvents, IInv, TypeOK, Players
  <2>4. counted[Host][o] \in Nat
    BY <2>2 DEF IInv, TypeOK, Players
  <2>5. o \notin score[Host]
    BY <2>2, <2>3, <2>4
  <2> QED BY <2>2, <2>4, <2>5 DEF IInv, BitsCountedAtHost
<1> QED BY <1>1, Invariance, PTL DEF Spec, HostEventsCountOnce
=============================================================================

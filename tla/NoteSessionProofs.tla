------------------------- MODULE NoteSessionProofs -------------------------
(***************************************************************************)
(* Proofs about the path of a note, for any number of clients, notes, maps *)
(* and levels, any queue sizes and any number of reconnections.            *)
(*                                                                         *)
(* The first part is about NoteRelay, whose inductive invariant is IInv.   *)
(* The second is about NoteSession.  Its invariant SInv is IInv, which the *)
(* session inherits because each of its steps is one of the relay, and a   *)
(* part about the games:                                                   *)
(*   - the record the relay knows is the one the game makes (InStep), and  *)
(*     the host knows the map a member says it is in (HostKnown);          *)
(*   - in each game props, record, save and counter fit together (Fits);   *)
(*   - a mirror, published, on its way or held, has only found notes       *)
(*     (MirrorsFound), or a client's frame would record an undecided one.  *)
(*                                                                         *)
(* A death reloads the map, and the notes on record then stand again and   *)
(* can be picked up again, which NoteRelay's Collect allows.  Fits is      *)
(* therefore relative to two histories of NoteSession: the recorded notes  *)
(* a death put back (back), and those picked up once more (again).         *)
(***************************************************************************)
EXTENDS NoteSession, SeqSetLemmas

-----------------------------------------------------------------------------
(*                       Part one: the relay                               *)
-----------------------------------------------------------------------------
(* The inductive invariant.                                                *)

(* What a player has claimed it has recorded: the relay may skip it.       *)
ClaimsRecorded == \A p \in Online : ToSet(up[p]) \subseteq recorded[p]

(* Only admitted clients have a position, and a client that is connecting  *)
(* has nothing left over from an earlier connection.                       *)
FreshConnections ==
  \A c \in Clients :
    /\ c \notin peers => seen[c] = NoMap
    /\ status[c] \in {"Connecting", "Admitted"} =>
         seen[c] = NoMap /\ states[c] = {} /\ up[c] = <<>>

(* A client in the session is somewhere.                                   *)
PositionKnown == \A c \in Online \cap Clients : at[c] \in Maps

(* Whatever is recorded, claimed or decided was picked up by somebody.     *)
AllFound ==
  /\ registry \subseteq found
  /\ \A p \in Players : recorded[p] \subseteq found /\ ToSet(up[p]) \subseteq found

(* A client outside the session has no record: it was dropped when it left. *)
RecordEmpty == \A c \in Clients \ Online : recorded[c] = {}

IInv ==
  /\ TypeOK
  /\ ClaimsRecorded
  /\ RecordEmpty
  /\ FreshConnections
  /\ PositionKnown
  /\ AllFound
  /\ OnlyDecidedNotes
  /\ HostMissesNone
  /\ CaughtUp

USE NoteRelayAssumption

LEMMA InitIInv == Init => IInv
<1> SUFFICES ASSUME Init PROVE IInv
  OBVIOUS
<1>1. \A s : s = <<>> => s \in Seq(Notes) /\ ToSet(s) = {}
  BY DEF ToSet
<1>2. TypeOK
  BY <1>1 DEF Init, TypeOK, Statuses, Players
<1>3. ClaimsRecorded /\ RecordEmpty /\ FreshConnections /\ PositionKnown
  BY <1>1 DEF Init, ClaimsRecorded, RecordEmpty, FreshConnections, PositionKnown, Online,
              Players
<1>4. AllFound /\ OnlyDecidedNotes /\ HostMissesNone /\ CaughtUp
  BY <1>1 DEF Init, AllFound, OnlyDecidedNotes, HostMissesNone, CaughtUp
<1> QED BY <1>2, <1>3, <1>4 DEF IInv

LEMMA ConnectIInv ==
  ASSUME IInv, NEW c \in Clients, Connect(c)
  PROVE  IInv'
<1> USE DEF Players
<1>1. \A s : s = <<>> => s \in Seq(Notes) /\ ToSet(s) = {}
  BY DEF ToSet
<1>2. TypeOK'
  BY <1>1 DEF IInv, TypeOK, Connect, Statuses, hostVars, history
<1>3. Online' = Online
  BY DEF IInv, TypeOK, Connect, Online
<1>4. c \notin Online
  BY DEF Connect, Online
<1>5. \A p \in Players : p # c => up'[p] = up[p] /\ down'[p] = down[p]
  BY DEF IInv, TypeOK, Connect
<1>6. up'[c] = <<>> /\ down'[c] = <<>> /\ states'[c] = {} /\ seen[c] = NoMap
  BY DEF IInv, TypeOK, Connect, FreshConnections
<1>7. ClaimsRecorded'
  BY <1>3, <1>4, <1>5 DEF IInv, ClaimsRecorded, Connect, Online
<1>11. PositionKnown'
  BY <1>3 DEF IInv, PositionKnown, Connect
<1>8. FreshConnections'
  BY <1>5, <1>6 DEF IInv, TypeOK, FreshConnections, Connect, hostVars
<1>9. AllFound' /\ OnlyDecidedNotes'
  BY <1>1, <1>5, <1>6
     DEF IInv, AllFound, OnlyDecidedNotes, Connect, hostVars, history
<1>10. HostMissesNone' /\ CaughtUp'
  BY <1>3, <1>4, <1>5
     DEF IInv, HostMissesNone, CaughtUp, Connect, hostVars, history, Online
<1>20. RecordEmpty'
  BY <1>3 DEF IInv, RecordEmpty, Connect, hostVars
<1> QED BY <1>2, <1>7, <1>8, <1>9, <1>10, <1>11, <1>20 DEF IInv

LEMMA AdmitIInv ==
  ASSUME IInv, NEW c \in Clients, Admit(c)
  PROVE  IInv'
<1> USE DEF Players
<1>1. TypeOK'
  BY DEF IInv, TypeOK, Admit, Statuses, history
<1>2. Online' = Online /\ c \notin Online
  BY DEF IInv, TypeOK, Admit, Online
<1>3. ClaimsRecorded'
  BY <1>2 DEF IInv, ClaimsRecorded, Admit, history
<1>7. PositionKnown'
  BY <1>2 DEF IInv, PositionKnown, Admit
<1>4. FreshConnections'
  BY DEF IInv, TypeOK, FreshConnections, Admit, history
<1>5. AllFound' /\ OnlyDecidedNotes' /\ HostMissesNone'
  BY DEF IInv, AllFound, OnlyDecidedNotes, HostMissesNone, Admit, history
<1>6. CaughtUp'
  BY <1>2 DEF IInv, CaughtUp, Admit, history
<1>20. RecordEmpty'
  BY <1>2 DEF IInv, RecordEmpty, Admit
<1> QED BY <1>1, <1>3, <1>4, <1>5, <1>6, <1>7, <1>20 DEF IInv

LEMMA RefuseIInv ==
  ASSUME IInv, NEW c \in Clients, Refuse(c)
  PROVE  IInv'
<1> USE DEF Players
<1>1. TypeOK'
  BY DEF IInv, TypeOK, Refuse, Statuses, hostVars, history
<1>2. Online' = Online
  BY DEF IInv, TypeOK, Refuse, Online
<1>3. ClaimsRecorded' /\ CaughtUp' /\ PositionKnown'
  BY <1>2 DEF IInv, ClaimsRecorded, PositionKnown, CaughtUp, Refuse, hostVars, history
<1>4. FreshConnections'
  BY DEF IInv, TypeOK, FreshConnections, Refuse, hostVars, history
<1>5. AllFound' /\ OnlyDecidedNotes' /\ HostMissesNone'
  BY DEF IInv, AllFound, OnlyDecidedNotes, HostMissesNone, Refuse, hostVars,
         history
<1>20. RecordEmpty'
  BY <1>2 DEF IInv, RecordEmpty, Refuse
<1> QED BY <1>1, <1>3, <1>4, <1>5, <1>20 DEF IInv

LEMMA WelcomeIInv ==
  ASSUME IInv, NEW c \in Clients, Welcome(c)
  PROVE  IInv'
<1> USE DEF Players
<1> PICK m \in Maps : at' = [at EXCEPT ![c] = m]
  BY DEF Welcome
<1> PICK S \in SUBSET Notes : /\ recorded' = [recorded EXCEPT ![c] = S]
                             /\ found' = found \cup S
  BY DEF Welcome
<1>1. \A s : s = <<>> => ToSet(s) = {}
  BY DEF ToSet
<1>2. TypeOK'
  BY DEF IInv, TypeOK, Welcome, Statuses, hostVars
<1>3. Online' = Online \cup {c}
  BY DEF IInv, TypeOK, Welcome, Online, Statuses
<1>4. seen[c] = NoMap /\ up[c] = <<>> /\ states[c] = {} /\ Host # c
  BY DEF IInv, FreshConnections, Welcome
<1>5. \A p \in Players : p # c => recorded'[p] = recorded[p]
  BY DEF IInv, TypeOK
<1>6. ClaimsRecorded'
  BY <1>1, <1>3, <1>4, <1>5
     DEF IInv, TypeOK, ClaimsRecorded, Welcome, Online, hostVars
<1>11. PositionKnown'
  BY <1>3 DEF IInv, TypeOK, PositionKnown
<1>7. FreshConnections'
  BY DEF IInv, TypeOK, FreshConnections, Welcome, hostVars
<1>8. AllFound'
  BY DEF IInv, TypeOK, AllFound, Welcome, hostVars
<1>9. OnlyDecidedNotes' /\ HostMissesNone'
  BY <1>4, <1>5 DEF IInv, OnlyDecidedNotes, HostMissesNone, Welcome, hostVars
<1>10. CaughtUp'
  BY <1>3, <1>4, <1>5 DEF IInv, CaughtUp, Welcome, hostVars, Online
<1>20. RecordEmpty'
  BY <1>3, <1>5 DEF IInv, RecordEmpty, TypeOK
<1> QED BY <1>2, <1>6, <1>7, <1>8, <1>9, <1>10, <1>11, <1>20 DEF IInv

LEMMA CollectIInv ==
  ASSUME IInv, NEW p \in Players, NEW n \in Notes, Collect(p, n)
  PROVE  IInv'
<1> USE DEF Players
<1>1. /\ up[p] \in Seq(Notes)
      /\ up' = [up EXCEPT ![p] = Append(up[p], n)]
      /\ recorded' = [recorded EXCEPT ![p] = recorded[p] \cup {n}]
      /\ found' = found \cup {n}
  BY DEF IInv, TypeOK, Collect
<1>2. /\ Append(up[p], n) \in Seq(Notes)
      /\ ToSet(Append(up[p], n)) = ToSet(up[p]) \cup {n}
  BY <1>1, AppendSet
<1>3. TypeOK'
  BY <1>1, <1>2 DEF IInv, TypeOK, Collect, hostVars
<1>4. Online' = Online
  BY DEF Collect, Online
<1>5. /\ up'[p] = Append(up[p], n) /\ recorded'[p] = recorded[p] \cup {n}
      /\ \A q \in Players : q # p => up'[q] = up[q] /\ recorded'[q] = recorded[q]
  BY <1>1 DEF IInv, TypeOK
<1>6. ClaimsRecorded'
  BY <1>2, <1>4, <1>5 DEF IInv, ClaimsRecorded, Online
<1>11. PositionKnown'
  BY <1>4 DEF IInv, PositionKnown, Collect
<1>7. FreshConnections'
  BY <1>5 DEF IInv, FreshConnections, Collect, hostVars, Online
<1>8. AllFound'
  BY <1>1, <1>2, <1>5 DEF IInv, AllFound, Collect, hostVars
<1>9. OnlyDecidedNotes' /\ HostMissesNone'
  BY <1>5 DEF IInv, OnlyDecidedNotes, HostMissesNone, Collect, hostVars
<1>10. CaughtUp'
  BY <1>4, <1>5 DEF IInv, CaughtUp, Collect, hostVars, Online
<1>20. RecordEmpty'
  BY <1>4, <1>5 DEF IInv, RecordEmpty, Collect, Online
<1> QED BY <1>3, <1>6, <1>7, <1>8, <1>9, <1>10, <1>11, <1>20 DEF IInv

LEMMA MoveIInv ==
  ASSUME IInv, NEW c \in Clients, NEW m \in Maps, Move(c, m)
  PROVE  IInv'
<1>1. TypeOK'
  BY DEF IInv, TypeOK, Move, hostVars, history
<1>2. Online' = Online
  BY DEF Move, Online
<1>3. PositionKnown'
  BY <1>2 DEF IInv, TypeOK, PositionKnown, Move
<1>20. RecordEmpty'
  BY <1>2 DEF IInv, RecordEmpty, Move
<1> QED BY <1>1, <1>2, <1>3, <1>20
     DEF IInv, Move, hostVars, history, ClaimsRecorded, FreshConnections,
         AllFound, OnlyDecidedNotes, HostMissesNone, CaughtUp

(* A frame moves a prefix of the inbox into the record.                    *)
LEMMA FrameIInv ==
  ASSUME IInv, NEW p \in Players, Frame(p)
  PROVE  IInv'
<1> USE DEF Players
<1> PICK k \in 0 .. Len(down[p]), S \in SUBSET found :
         /\ recorded' = [recorded EXCEPT ![p] =
                           recorded[p] \cup ToSet(SubSeq(down[p], 1, k)) \cup S]
         /\ down' = [down EXCEPT ![p] = SubSeq(down[p], k + 1, Len(down[p]))]
  BY DEF Frame
<1> DEFINE got == ToSet(SubSeq(down[p], 1, k))
           rest == SubSeq(down[p], k + 1, Len(down[p]))
<1>1. down[p] \in Seq(Notes) /\ k \in 0 .. Len(down[p])
  BY DEF IInv, TypeOK
<1>2. /\ recorded' = [recorded EXCEPT ![p] = recorded[p] \cup got \cup S]
      /\ down' = [down EXCEPT ![p] = rest]
  OBVIOUS
<1>3. /\ SubSeq(down[p], 1, k) \in Seq(Notes)
      /\ rest \in Seq(Notes)
      /\ ToSet(down[p]) = got \cup ToSet(rest)
  BY <1>1, SplitSet
<1>4. got \subseteq Notes
  BY <1>3, SetOfSeq
<1> HIDE DEF got, rest
<1>5. /\ down'[p] = rest /\ recorded'[p] = recorded[p] \cup got \cup S
      /\ \A q \in Players : q # p => /\ down'[q] = down[q]
                                     /\ recorded'[q] = recorded[q]
  BY <1>2 DEF IInv, TypeOK
<1>6. TypeOK'
  BY <1>2, <1>3, <1>4 DEF IInv, TypeOK, Frame, hostVars, history
<1>7. Online' = Online
  BY DEF Frame, Online
<1>8. ClaimsRecorded'
  BY <1>5, <1>7 DEF IInv, ClaimsRecorded, Frame, Online
<1>9. FreshConnections' /\ PositionKnown'
  BY <1>7 DEF IInv, FreshConnections, PositionKnown, Frame, hostVars
<1>10. got \subseteq registry
  BY <1>3 DEF IInv, OnlyDecidedNotes
<1>11. AllFound'
  BY <1>5, <1>10 DEF IInv, AllFound, Frame, hostVars, history
<1>12. OnlyDecidedNotes' /\ HostMissesNone'
  BY <1>3, <1>5 DEF IInv, OnlyDecidedNotes, HostMissesNone, Frame, hostVars
<1>13. CaughtUp'
  BY <1>3, <1>5, <1>7 DEF IInv, CaughtUp, Frame, hostVars, history, Online
<1>20. RecordEmpty'
  BY <1>5, <1>7 DEF IInv, RecordEmpty, Frame, Online
<1> QED BY <1>6, <1>8, <1>9, <1>11, <1>12, <1>13, <1>20 DEF IInv

(* The first claim on a note is decided and sent to everybody it has to    *)
(* reach; the claimant, who is skipped, has recorded it already.           *)
LEMMA AdjudicateIInv ==
  ASSUME IInv, NEW p \in Players, Adjudicate(p)
  PROVE  IInv'
<1> USE DEF Players
<1> DEFINE n == Head(up[p])
           told == {q \in Players : n \notin registry /\ q \in Audience(p)}
<1>1. /\ up[p] \in Seq(Notes) /\ up[p] # <<>>
      /\ \A q \in Players : down[q] \in Seq(Notes)
  BY DEF IInv, TypeOK, Adjudicate
<1>2. /\ registry' = registry \cup {n}
      /\ down' = [q \in Players |->
                   IF q \in told THEN Append(down[q], n) ELSE down[q]]
      /\ up' = [up EXCEPT ![p] = Tail(up[p])]
  BY DEF Adjudicate
<1>3. /\ n \in Notes /\ Tail(up[p]) \in Seq(Notes)
      /\ ToSet(up[p]) = {n} \cup ToSet(Tail(up[p]))
  BY <1>1, HeadTailSet
<1>4. \A q \in Players :
        /\ Append(down[q], n) \in Seq(Notes)
        /\ ToSet(Append(down[q], n)) = ToSet(down[q]) \cup {n}
  BY <1>1, <1>3, AppendSet
<1> HIDE DEF n
<1>5. TypeOK'
  BY <1>1, <1>2, <1>3, <1>4 DEF IInv, TypeOK, Adjudicate, history
<1>6. Online' = Online
  BY DEF Adjudicate, Online
<1>7. /\ ToSet(up'[p]) \subseteq ToSet(up[p])
      /\ \A q \in Players : q # p => up'[q] = up[q]
  BY <1>2, <1>3 DEF IInv, TypeOK
<1>8. \A q \in Players :
        ToSet(down'[q]) = ToSet(down[q]) \cup (IF q \in told THEN {n} ELSE {})
  BY <1>2, <1>4
<1>9. ClaimsRecorded'
  BY <1>6, <1>7 DEF IInv, ClaimsRecorded, Adjudicate, Online
<1>10. FreshConnections' /\ PositionKnown'
  BY <1>1, <1>6, <1>7 DEF IInv, FreshConnections, PositionKnown, Adjudicate
<1>11. AllFound'
  BY <1>2, <1>3, <1>7 DEF IInv, AllFound, Adjudicate, history
<1>12. OnlyDecidedNotes'
  BY <1>2, <1>8 DEF IInv, OnlyDecidedNotes
<1>13. HostMissesNone'
  <2>1. n \in registry \/ p = Host \/ Host \in told
    BY DEF Audience
  <2>2. p = Host => n \in recorded[Host]
    BY <1>3 DEF IInv, ClaimsRecorded, Online
  <2> QED BY <1>2, <1>8, <2>1, <2>2 DEF IInv, HostMissesNone, Adjudicate
<1>14. CaughtUp'
  <2> SUFFICES ASSUME NEW c \in peers \cap Online, seen[c] # NoMap
               PROVE  /\ registry' \ missed[c] \subseteq
                           recorded[c] \cup ToSet(down'[c])
                      /\ missed[c] \cap NotesIn(seen[c]) = {}
    BY <1>6 DEF CaughtUp, Adjudicate, history
  <2>1. c \in Clients
    BY DEF IInv, TypeOK
  <2>2. n \in registry \/ p = c \/ c \in told
    BY <2>1 DEF Audience
  <2>3. p = c => n \in recorded[c]
    BY <1>3 DEF IInv, ClaimsRecorded
  <2> QED BY <1>2, <1>8, <2>1, <2>2, <2>3 DEF IInv, CaughtUp
<1>20. RecordEmpty'
  BY <1>6 DEF IInv, RecordEmpty, Adjudicate
<1> QED BY <1>5, <1>9, <1>10, <1>11, <1>12, <1>13, <1>14, <1>20 DEF IInv

LEMMA SendStateIInv ==
  ASSUME IInv, NEW c \in Clients, SendState(c)
  PROVE  IInv'
<1>1. TypeOK'
  <2>1. at[c] \in Maps \cup {NoMap}
    BY DEF IInv, TypeOK
  <2>2. at[c] \in Maps
    BY DEF IInv, PositionKnown, SendState, Online
  <2> QED BY <2>2 DEF IInv, TypeOK, SendState, hostVars, history
<1>2. Online' = Online /\ c \in Online
  BY DEF SendState, Online
<1>3. FreshConnections'
  BY DEF IInv, TypeOK, FreshConnections, SendState, hostVars
<1>20. RecordEmpty'
  BY <1>2 DEF IInv, RecordEmpty, SendState
<1> QED BY <1>1, <1>2, <1>3, <1>20
     DEF IInv, SendState, hostVars, history, ClaimsRecorded, AllFound,
         OnlyDecidedNotes, HostMissesNone, CaughtUp, PositionKnown

(* A position: the map's notes follow, unless it is the map last seen.     *)
LEMMA ReceiveStateIInv ==
  ASSUME IInv, NEW c \in Clients, NEW m \in Maps, ReceiveState(c, m)
  PROVE  IInv'
<1> USE DEF Players
<1> DEFINE snapshot == registry \cap NotesIn(m)
<1>1. PICK s \in Seq(Notes) :
        /\ down' = [down EXCEPT ![c] = down[c] \o s]
        /\ ToSet(s) = IF seen[c] = m THEN {} ELSE snapshot
  <2>1. CASE seen[c] = m
    <3>1. down[c] \in Seq(Notes)
      BY DEF IInv, TypeOK
    <3>2. <<>> \in Seq(Notes) /\ down[c] \o <<>> = down[c] /\ ToSet(<<>>) = {}
      BY <3>1 DEF ToSet
    <3>3. down' = [down EXCEPT ![c] = down[c]]
      BY <2>1 DEF ReceiveState, IInv, TypeOK
    <3> QED BY <2>1, <3>2, <3>3
  <2>2. CASE seen[c] # m
    <3>1. PICK s \in SetToSeqs(snapshot) : down' = [down EXCEPT ![c] = down[c] \o s]
      BY <2>2 DEF ReceiveState
    <3>2. IsFiniteSet(snapshot) /\ snapshot \subseteq Notes
      BY FS_Subset DEF NotesIn, IInv, TypeOK
    <3>3. s \in Seq(snapshot) /\ ToSet(s) = snapshot
      BY <3>2, OrderSet
    <3>4. s \in Seq(Notes)
      BY <3>2, <3>3
    <3> QED BY <2>2, <3>1, <3>3, <3>4
  <2> QED BY <2>1, <2>2
<1>2. down[c] \in Seq(Notes)
  BY DEF IInv, TypeOK
<1>3. down[c] \o s \in Seq(Notes) /\ ToSet(down[c] \o s) = ToSet(down[c]) \cup ToSet(s)
  BY <1>2, ConcatSet
<1>4. /\ ToSet(down'[c]) = ToSet(down[c]) \cup ToSet(s)
      /\ \A q \in Players : q # c => down'[q] = down[q]
  BY <1>1, <1>3 DEF IInv, TypeOK
<1>5. /\ seen' = [seen EXCEPT ![c] = m]
      /\ missed' = [missed EXCEPT ![c] =
                      IF seen[c] = NoMap THEN registry \ NotesIn(m)
                                         ELSE missed[c] \ NotesIn(m)]
      /\ states' \in {states, [states EXCEPT ![c] = states[c] \ {m}]}
      /\ c \in peers /\ m \in states[c]
  BY DEF ReceiveState
<1>6. Online' = Online
  BY DEF ReceiveState, Online
<1>7. TypeOK'
  <2>1. down' \in [Players -> Seq(Notes)]
    BY <1>1, <1>3 DEF IInv, TypeOK
  <2>2. seen' \in [Clients -> Maps \cup {NoMap}]
    BY <1>5 DEF IInv, TypeOK
  <2>4. [states EXCEPT ![c] = states[c] \ {m}] \in [Clients -> SUBSET Maps]
    BY DEF IInv, TypeOK
  <2>5. states' \in [Clients -> SUBSET Maps]
    BY <1>5, <2>4 DEF IInv, TypeOK
  <2>3. missed' \in [Clients -> SUBSET Notes]
    BY <1>5 DEF IInv, TypeOK
  <2> QED BY <2>1, <2>2, <2>3, <2>5 DEF IInv, TypeOK, ReceiveState
<1>8. ClaimsRecorded'
  BY <1>6 DEF IInv, ClaimsRecorded, ReceiveState
<1>9. FreshConnections'
  BY <1>5 DEF IInv, TypeOK, FreshConnections, ReceiveState
<1>10. AllFound' /\ PositionKnown'
  BY <1>6 DEF IInv, AllFound, PositionKnown, ReceiveState
<1>11. OnlyDecidedNotes' /\ HostMissesNone'
  BY <1>1, <1>4 DEF IInv, OnlyDecidedNotes, HostMissesNone, ReceiveState
<1>12. CaughtUp'
  <2> SUFFICES ASSUME NEW d \in peers \cap Online, seen'[d] # NoMap
               PROVE  /\ registry \ missed'[d] \subseteq
                           recorded[d] \cup ToSet(down'[d])
                      /\ missed'[d] \cap NotesIn(seen'[d]) = {}
    BY <1>6 DEF CaughtUp, ReceiveState
  <2>1. d \in Clients
    BY DEF IInv, TypeOK
  <2>2. CASE d # c
    BY <1>4, <1>5, <2>1, <2>2 DEF IInv, TypeOK, CaughtUp
  <2>3. CASE d = c /\ seen[c] = NoMap
    BY <1>1, <1>4, <1>5, <2>3 DEF IInv, TypeOK
  <2>4. CASE d = c /\ seen[c] # NoMap
    <3>1. /\ seen'[c] = m /\ missed'[c] = missed[c] \ NotesIn(m)
          /\ registry \ missed[c] \subseteq recorded[c] \cup ToSet(down[c])
          /\ missed[c] \cap NotesIn(seen[c]) = {}
      BY <1>5, <2>4 DEF IInv, TypeOK, CaughtUp
    <3> QED BY <1>1, <1>4, <2>4, <3>1
  <2> QED BY <2>2, <2>3, <2>4
<1>20. RecordEmpty'
  BY <1>6 DEF IInv, RecordEmpty, ReceiveState
<1> QED BY <1>7, <1>8, <1>9, <1>10, <1>11, <1>12, <1>20 DEF IInv

LEMMA LoseIInv ==
  ASSUME IInv, NEW c \in Clients, Lose(c)
  PROVE  IInv'
<1> USE DEF Players
<1> PICK s \in Prefixes(up[c]) : up' = [up EXCEPT ![c] = s]
  BY DEF Lose
<1>1. up[c] \in Seq(Notes)
  BY DEF IInv, TypeOK
<1>2. s \in Seq(Notes) /\ ToSet(s) \subseteq ToSet(up[c])
  BY <1>1, PrefixSet
<1>3. <<>> \in Seq(Notes) /\ ToSet(<<>>) = {}
  BY DEF ToSet
<1>4. TypeOK'
  BY <1>2, <1>3 DEF IInv, TypeOK, Lose, Statuses, hostVars, history
<1>5. Online' = Online \ {c}
  BY DEF IInv, TypeOK, Lose, Online
<1>6. \A p \in Players : p # c => /\ up'[p] = up[p] /\ down'[p] = down[p]
                                /\ recorded'[p] = recorded[p]
  BY DEF IInv, TypeOK, Lose
<1>7. up'[c] = s /\ down'[c] = <<>> /\ recorded'[c] = {}
  BY DEF IInv, TypeOK, Lose
<1>8. ClaimsRecorded'
  BY <1>5, <1>6 DEF IInv, ClaimsRecorded, Online
<1>9. FreshConnections'
  BY <1>6 DEF IInv, TypeOK, FreshConnections, Lose, hostVars
<1>10. AllFound'
  BY <1>2, <1>6, <1>7 DEF IInv, AllFound, Lose, hostVars, history
<1>11. OnlyDecidedNotes' /\ HostMissesNone'
  BY <1>3, <1>6, <1>7 DEF IInv, OnlyDecidedNotes, HostMissesNone, Lose, hostVars
<1>12. CaughtUp'
  BY <1>5, <1>6 DEF IInv, CaughtUp, Lose, hostVars, history, Online
<1>13. PositionKnown'
  BY <1>5 DEF IInv, TypeOK, PositionKnown, Lose
<1>20. RecordEmpty'
  BY <1>5, <1>6, <1>7 DEF IInv, RecordEmpty, Online
<1> QED BY <1>4, <1>8, <1>9, <1>10, <1>11, <1>12, <1>13, <1>20 DEF IInv

LEMMA DropIInv ==
  ASSUME IInv, NEW c \in Clients, Drop(c)
  PROVE  IInv'
<1> USE DEF Players
<1> PICK s \in Prefixes(down[c]) : down' = [down EXCEPT ![c] = s]
  BY DEF Drop
<1>1. down[c] \in Seq(Notes)
  BY DEF IInv, TypeOK
<1>2. s \in Seq(Notes) /\ ToSet(s) \subseteq ToSet(down[c])
  BY <1>1, PrefixSet
<1>3. <<>> \in Seq(Notes) /\ ToSet(<<>>) = {}
  BY DEF ToSet
<1>4. TypeOK'
  BY <1>2, <1>3 DEF IInv, TypeOK, Drop
<1>5. Online' = Online
  BY DEF Drop, Online
<1>6. \A p \in Players : p # c => up'[p] = up[p] /\ down'[p] = down[p]
  BY DEF IInv, TypeOK, Drop
<1>7. up'[c] = <<>> /\ down'[c] = s
  BY DEF IInv, TypeOK, Drop
<1>8. ClaimsRecorded'
  BY <1>3, <1>5, <1>6, <1>7 DEF IInv, ClaimsRecorded, Drop, Online
<1>9. FreshConnections'
  BY <1>6, <1>7 DEF IInv, TypeOK, FreshConnections, Drop
<1>10. AllFound' /\ PositionKnown'
  BY <1>3, <1>5, <1>6, <1>7 DEF IInv, AllFound, PositionKnown, Drop
<1>11. OnlyDecidedNotes' /\ HostMissesNone'
  BY <1>2, <1>6, <1>7 DEF IInv, OnlyDecidedNotes, HostMissesNone, Drop
<1>12. CaughtUp'
  <2> SUFFICES ASSUME NEW d \in (peers \cap Online) \ {c}, seen[d] # NoMap
               PROVE  /\ registry \ missed[d] \subseteq
                           recorded[d] \cup ToSet(down[d])
                      /\ missed[d] \cap NotesIn(seen[d]) = {}
    BY <1>5, <1>6 DEF IInv, TypeOK, CaughtUp, Drop
  <2> QED BY DEF IInv, CaughtUp
<1>20. RecordEmpty'
  BY <1>5 DEF IInv, RecordEmpty, Drop
<1> QED BY <1>4, <1>8, <1>9, <1>10, <1>11, <1>12, <1>20 DEF IInv

LEMMA NextIInv == IInv /\ [Next]_vars => IInv'
<1> SUFFICES ASSUME IInv, [Next]_vars PROVE IInv'
  OBVIOUS
<1>1. CASE UNCHANGED vars
  BY <1>1 DEF vars, IInv, TypeOK, ClaimsRecorded, RecordEmpty,
     FreshConnections, PositionKnown, AllFound, OnlyDecidedNotes, HostMissesNone, CaughtUp, Online
<1>2. ASSUME NEW c \in Clients,
             \/ Connect(c) \/ Admit(c) \/ Refuse(c) \/ Welcome(c)
             \/ SendState(c) \/ Lose(c) \/ Drop(c)
             \/ \E m \in Maps : Move(c, m) \/ ReceiveState(c, m)
      PROVE  IInv'
  BY <1>2, ConnectIInv, AdmitIInv, RefuseIInv, WelcomeIInv, SendStateIInv,
     LoseIInv, DropIInv, MoveIInv, ReceiveStateIInv
<1>3. ASSUME NEW p \in Players,
             \/ Frame(p) \/ Adjudicate(p)
             \/ \E n \in Notes : Collect(p, n)
      PROVE  IInv'
  BY <1>3, FrameIInv, AdjudicateIInv, CollectIInv
<1> QED BY <1>1, <1>2, <1>3 DEF Next

LEMMA Invariance == Spec => []IInv
BY InitIInv, NextIInv, PTL DEF Spec

-----------------------------------------------------------------------------
(* The state of the relay is always of its type.                           *)
THEOREM TypeCorrect == Spec => []TypeOK
<1>1. IInv => TypeOK
  BY DEF IInv
<1> QED BY <1>1, Invariance, PTL

(***************************************************************************)
(* Whatever the order claims, positions, departures and frames come in, a  *)
(* member the host has a position for is short only of notes decided       *)
(* before its first position, in maps it has not been seen in since        *)
(* (relay_event, send_map_snapshot).                                       *)
(***************************************************************************)
THEOREM MembersCaughtUp == Spec => []CaughtUp
<1>1. IInv => CaughtUp
  BY DEF IInv
<1> QED BY <1>1, Invariance, PTL

(* The host's own game is handed every note its transport has decided      *)
(* (relay_event into the host's inbox).                                    *)
THEOREM HostCaughtUp == Spec => []HostMissesNone
<1>1. IInv => HostMissesNone
  BY DEF IInv
<1> QED BY <1>1, Invariance, PTL

(* Nothing undecided is ever on its way to a player, so a client may apply *)
(* what it is sent unconditionally (service_client, on_event).             *)
THEOREM SentIsDecided == Spec => []OnlyDecidedNotes
<1>1. IInv => OnlyDecidedNotes
  BY DEF IInv
<1> QED BY <1>1, Invariance, PTL

-----------------------------------------------------------------------------
(* The transport implements the shared ledger.                             *)

LEMMA FindStep ==
  ASSUME IInv, NEW p \in Players, NEW S \in SUBSET Notes,
         recorded' = [recorded EXCEPT ![p] = recorded[p] \cup S],
         found' = found \cup S, registry' = registry
  PROVE  SN!Next
BY DEF SN!Next, SN!Find

LEMMA LedgerStep == IInv /\ [Next]_vars => [SN!Next]_(SN!vars)
<1> SUFFICES ASSUME IInv, [Next]_vars PROVE SN!Next \/ UNCHANGED SN!vars
  OBVIOUS
<1> USE DEF SN!vars
<1>1. CASE UNCHANGED vars
  BY <1>1 DEF vars
<1>2. ASSUME NEW c \in Clients, Connect(c) \/ Admit(c) \/ Refuse(c)
                                \/ SendState(c) \/ Drop(c)
      PROVE  UNCHANGED SN!vars
  BY <1>2 DEF Connect, Admit, Refuse, SendState, Drop, hostVars, history
<1>3. ASSUME NEW c \in Clients, NEW m \in Maps,
             Move(c, m) \/ ReceiveState(c, m)
      PROVE  UNCHANGED SN!vars
  BY <1>3 DEF Move, ReceiveState, hostVars, history
<1>4. ASSUME NEW c \in Clients, Welcome(c) PROVE SN!Next
  (* A client that is not in the session yet has no record. *)
  <2>1. PICK S \in SUBSET Notes : /\ recorded' = [recorded EXCEPT ![c] = S]
                                  /\ found' = found \cup S
    BY <1>4 DEF Welcome
  <2>2. c \in Players /\ recorded[c] = {}
    BY <1>4 DEF IInv, RecordEmpty, Welcome, Players, Online
  <2>3. registry' = registry
    BY <1>4 DEF Welcome, hostVars
  <2> QED BY <2>1, <2>2, <2>3, FindStep
<1>5. ASSUME NEW p \in Players, NEW n \in Notes, Collect(p, n) PROVE SN!Next
  <2>1. /\ recorded' = [recorded EXCEPT ![p] = recorded[p] \cup {n}]
        /\ found' = found \cup {n} /\ registry' = registry
    BY <1>5 DEF Collect, hostVars
  <2>2. {n} \in SUBSET Notes
    OBVIOUS
  <2> QED BY <2>1, <2>2, FindStep
<1>6. ASSUME NEW p \in Players, Frame(p) PROVE SN!Next
  <2>1. PICK k \in 0 .. Len(down[p]), S \in SUBSET found :
          recorded' = [recorded EXCEPT ![p] =
                         recorded[p] \cup ToSet(SubSeq(down[p], 1, k)) \cup S]
    BY <1>6 DEF Frame
  <2> DEFINE got == ToSet(SubSeq(down[p], 1, k))
             heard == got \cup S
  <2>2. down[p] \in Seq(Notes) /\ k \in 0 .. Len(down[p])
    BY DEF IInv, TypeOK
  <2>3. got \subseteq ToSet(down[p]) /\ got \subseteq Notes
    BY <2>2, SplitSet, SetOfSeq
  <2>4. heard \subseteq found /\ heard \subseteq Notes
    BY <2>3 DEF IInv, TypeOK, OnlyDecidedNotes, AllFound
  <2>5. recorded' = [recorded EXCEPT ![p] = recorded[p] \cup heard]
    BY <2>1
  <2> HIDE DEF got, heard
  <2>6. UNCHANGED <<found, registry>>
    BY <1>6 DEF Frame, hostVars, history
  <2>7. SN!Hear(p, heard)
    BY <2>4, <2>5, <2>6 DEF SN!Hear
  <2> QED BY <2>4, <2>7 DEF SN!Next
<1>7. ASSUME NEW p \in Players, Adjudicate(p)
      PROVE  SN!Next \/ UNCHANGED SN!vars
  <2> DEFINE n == Head(up[p])
  <2>1. up[p] \in Seq(Notes) /\ up[p] # <<>>
    BY <1>7 DEF IInv, TypeOK, Adjudicate
  <2>2. n \in ToSet(up[p]) /\ n \in Notes
    BY <2>1, HeadTailSet
  <2>3. registry' = registry \cup {n} /\ UNCHANGED <<found, recorded>>
    BY <1>7 DEF Adjudicate, history
  <2> HIDE DEF n
  <2>4. n \in found
    BY <2>2 DEF IInv, AllFound
  <2>5. CASE n \in registry
    BY <2>3, <2>5
  <2>6. CASE n \notin registry
    BY <2>2, <2>3, <2>4, <2>6 DEF SN!Next, SN!Decide
  <2> QED BY <2>5, <2>6
<1>8. ASSUME NEW c \in Clients, Lose(c) PROVE SN!Next
  BY <1>8 DEF Lose, hostVars, history, SN!Next, SN!Forget, Players
<1> QED BY <1>1, <1>2, <1>3, <1>4, <1>5, <1>6, <1>7, <1>8 DEF Next

(***************************************************************************)
(* Every step of the transport is a step of the ledger or leaves it alone: *)
(* a note is decided once (adjudicate), is never forgotten by the host,    *)
(* and reaches a record only by pickup or from the ledger.                 *)
(***************************************************************************)
THEOREM Refinement == Spec => ImplementsSharedNotes
<1>1. Init => SN!Init
  BY DEF Init, SN!Init
<1> QED BY <1>1, LedgerStep, Invariance, PTL DEF Spec, SN!Spec, ImplementsSharedNotes

-----------------------------------------------------------------------------
(*                       Part two: the session                             *)
-----------------------------------------------------------------------------
(* The games of the session.                                               *)

(* A world whose props, record and save fit together: the recorded notes   *)
(* in front of the player are some of stood, those a death put back.       *)
Sound(w, stood) ==
  /\ w \in W!World
  /\ w.alive \subseteq NotesIn(w.map)
  /\ w.alive \cap w.taken = {}
  /\ w.alive \cap w.marked \subseteq stood
  /\ ~w.cubes => w.alive = {} /\ (w.swept # w.map \/ NotesIn(w.map) \subseteq stood)
  /\ w.cubes => \/ w.swept = w.map
                \/ w.swept = NoMap /\ w.marked \subseteq w.taken

(* A world out of a session: what is recorded was picked up.               *)
Apart(w) == w.swept = NoMap /\ w.marked \subseteq w.taken

(* A note gone from the map is in the save or on record.                   *)
Accounted(w) == w.cubes => NotesIn(w.map) \subseteq w.alive \cup w.taken \cup w.marked

(* The counter has each note at most once beyond what is allowed, and once *)
(* more if it is of twice, the recorded notes picked up again.             *)
Marked(w, n) == IF n \in w.marked THEN 1 ELSE 0
Again(twice, n) == IF n \in twice THEN 1 ELSE 0

Within(w, allowed, twice) ==
  \A n \in Notes :
    /\ w.credit[n] <= allowed[n] + Marked(w, n) + Again(twice, n)
    /\ n \in w.taken => n \in w.marked \/ allowed[n] >= 1
    /\ n \in twice => n \in w.taken

(* With no recount due, the counter covers the record but for some notes.  *)
Here(w, S) == {n \in S : LevelOf[MapOf[n]] = LevelOf[w.map]}
Total(w) == SumFunctionOnSet(w.credit, Notes)
Covers(w, but) == ~w.recount => Total(w) >= Cardinality(Here(w, w.marked \ but))

LEMMA HereFinite ==
  ASSUME NEW w, NEW S \in SUBSET Notes
  PROVE  /\ Here(w, S) \in SUBSET Notes /\ IsFiniteSet(Here(w, S))
         /\ Cardinality(Here(w, S)) \in Nat
<1>1. Here(w, S) \in SUBSET Notes
  BY DEF Here
<1> QED BY <1>1, NoteRelayAssumption, FS_Subset, FS_CardinalityType

LEMMA HereMonotone ==
  ASSUME NEW w, NEW v, v.map = w.map, NEW S \in SUBSET Notes, NEW R \in SUBSET S
  PROVE  /\ Cardinality(Here(v, R)) \in Nat
         /\ Cardinality(Here(v, R)) <= Cardinality(Here(w, S))
<1>1. Here(v, R) \subseteq Here(w, S)
  BY DEF Here
<1>2. R \in SUBSET Notes
  OBVIOUS
<1> QED BY <1>1, <1>2, HereFinite, FS_Subset

LEMMA HereUnion ==
  ASSUME NEW w, NEW R \in SUBSET Notes, NEW S \in SUBSET Notes
  PROVE  Cardinality(Here(w, R \cup S)) <= Cardinality(Here(w, R)) + Cardinality(Here(w, S))
<1> DEFINE A == Here(w, R)
           B == Here(w, S)
<1>1. Here(w, R \cup S) = A \cup B
  BY DEF Here
<1>2. IsFiniteSet(A) /\ IsFiniteSet(B) /\ Cardinality(A) \in Nat /\ Cardinality(B) \in Nat
  BY HereFinite
<1> HIDE DEF A, B
<1>3. /\ Cardinality(A \cup B) = Cardinality(A) + Cardinality(B) - Cardinality(A \cap B)
      /\ Cardinality(A \cap B) \in Nat
  BY <1>2, FS_Union, FS_Intersection, FS_CardinalityType
<1>4. Cardinality(A \cup B) <= Cardinality(A) + Cardinality(B)
  BY <1>2, <1>3
<1> QED BY <1>1, <1>4 DEF A, B

LEMMA CounterIsTotal ==
  ASSUME NEW w \in W!World
  PROVE  W!Counter(w) = Total(w)
<1>1. DOMAIN w.credit = Notes
  BY DEF W!World
<1>2. W!Counter(w) = SumFunctionOnSet(w.credit, DOMAIN w.credit)
  BY DEF W!Counter, W!FoldFunction, W!FoldFunctionOnSet, W!MapThenFoldSet,
         SumFunctionOnSet, FoldFunctionOnSet, MapThenFoldSet
<1> QED BY <1>1, <1>2 DEF Total

LEMMA TotalType ==
  ASSUME NEW w \in W!World
  PROVE  Total(w) \in Nat
<1>1. w.credit \in [Notes -> Nat] /\ IsFiniteSet(Notes)
  BY NoteRelayAssumption DEF W!World
<1>2. PICK h : Sums(w.credit, Notes, h) /\ Total(w) = h[Notes]
  BY <1>1, SumDef DEF Total
<1> QED BY <1>2 DEF Sums

(* Counting the notes of D once more.                                      *)
LEMMA CountedOnceMore ==
  ASSUME NEW w \in W!World, NEW v \in W!World, NEW D \in SUBSET Notes,
         \A n \in Notes : v.credit[n] = IF n \in D THEN w.credit[n] + 1
                                                   ELSE w.credit[n]
  PROVE  Total(v) = Total(w) + Cardinality(D)
<1> USE NoteRelayAssumption
<1> DEFINE one == [n \in Notes |-> IF n \in D THEN 1 ELSE 0]
<1>1. w.credit \in [Notes -> Nat] /\ v.credit \in [Notes -> Nat]
  BY DEF W!World
<1>2. one \in [Notes -> Nat]
  OBVIOUS
<1>3. \A n \in Notes : v.credit[n] = w.credit[n] + one[n]
  BY <1>1
<1>4. SumFunctionOnSet(one, Notes) = Cardinality(D)
  BY <1>2, SumOnes
<1> HIDE DEF one
<1> DEFINE f == w.credit
           g == v.credit
<1>5. Total(v) = Total(w) + Cardinality(D)
  <2>1. f \in [Notes -> Nat] /\ g \in [Notes -> Nat] /\ \A x \in Notes : g[x] = f[x] + one[x]
    BY <1>1, <1>3
  <2> HIDE DEF f, g
  <2>2. SumFunctionOnSet(g, Notes) = SumFunctionOnSet(f, Notes) + SumFunctionOnSet(one, Notes)
    BY <1>2, <2>1, SumPlus
  <2> QED BY <1>4, <2>2 DEF f, g, Total
<1> QED BY <1>5

LEMMA OnceIsCounted ==
  ASSUME NEW w \in W!World, NEW D \in SUBSET Notes, w.credit = W!Once(D)
  PROVE  Total(w) = Cardinality(D)
<1> USE NoteRelayAssumption
<1>1. /\ w.credit \in [Notes -> Nat]
      /\ \A n \in Notes : w.credit[n] = IF n \in D THEN 1 ELSE 0
  BY DEF W!World, W!Once
<1> QED BY <1>1, SumOnes DEF Total

-----------------------------------------------------------------------------
(* What the steps of a game and of a frame do to a world.                  *)

LEMMA EnterFields ==
  ASSUME NEW w \in W!World, NEW m \in Maps
  PROVE  LET v == W!EnterMap(w, m) IN
         /\ v \in W!World
         /\ v.map = m /\ v.cubes = FALSE /\ v.alive = {}
         /\ v.taken = w.taken /\ v.marked = w.marked /\ v.swept = w.swept
         /\ \/ LevelOf[m] = LevelOf[w.map]
               /\ v.credit = w.credit /\ v.recount = w.recount
            \/ v.credit = W!Once(w.taken \cap W!NotesOfLevel(LevelOf[m]))
               /\ v.recount = TRUE
<1> DEFINE new == LevelOf[m] # LevelOf[w.map]
           once == W!Once(w.taken \cap W!NotesOfLevel(LevelOf[m]))
           credit == IF new THEN once ELSE w.credit
           v == W!EnterMap(w, m)
<1>1. once \in [Notes -> Nat]
  BY DEF W!Once
<1>2. v = [w EXCEPT !.map = m, !.cubes = FALSE, !.alive = {}, !.credit = credit,
                    !.recount = w.recount \/ new]
  BY Zenon DEF W!EnterMap
<1>3. credit \in [Notes -> Nat] /\ (w.recount \/ new) \in BOOLEAN
  BY <1>1 DEF W!World
<1> HIDE DEF v, credit
<1>4. /\ v \in W!World
      /\ v.map = m /\ v.cubes = FALSE /\ v.alive = {}
      /\ v.taken = w.taken /\ v.marked = w.marked /\ v.swept = w.swept
      /\ v.credit = credit /\ v.recount = (w.recount \/ new)
  BY <1>2, <1>3 DEF W!World
<1>5. w.recount \in BOOLEAN
  BY DEF W!World
<1> HIDE DEF once
<1>6. CASE new
  BY <1>4, <1>6 DEF once, credit, v
<1>7. CASE ~new
  BY <1>4, <1>5, <1>7 DEF credit, v
<1> QED BY <1>6, <1>7

LEMMA PickUpFields ==
  ASSUME NEW w \in W!World, NEW n \in Notes
  PROVE  LET v == W!PickUp(w, n) IN
         /\ v \in W!World
         /\ v.map = w.map /\ v.cubes = w.cubes /\ v.swept = w.swept
         /\ v.recount = w.recount
         /\ v.alive = w.alive \ {n} /\ v.taken = w.taken \cup {n}
         /\ v.marked = w.marked \cup {n}
         /\ \A k \in Notes : v.credit[k] = IF k \in {n} THEN w.credit[k] + 1
                                                        ELSE w.credit[k]
<1> DEFINE credit == [w.credit EXCEPT ![n] = w.credit[n] + 1]
           v == W!PickUp(w, n)
<1>1. /\ credit \in [Notes -> Nat]
      /\ \A k \in Notes : credit[k] = IF k \in {n} THEN w.credit[k] + 1
                                                   ELSE w.credit[k]
  BY DEF W!World
<1>2. v = [w EXCEPT !.alive = w.alive \ {n}, !.taken = w.taken \cup {n},
                    !.marked = w.marked \cup {n}, !.credit = credit]
  BY Zenon DEF W!PickUp
<1> HIDE DEF v, credit
<1>3. /\ v \in W!World
      /\ v.map = w.map /\ v.cubes = w.cubes /\ v.swept = w.swept
      /\ v.recount = w.recount
      /\ v.alive = w.alive \ {n} /\ v.taken = w.taken \cup {n}
      /\ v.marked = w.marked \cup {n} /\ v.credit = credit
  BY <1>1, <1>2 DEF W!World
<1> QED BY <1>1, <1>3 DEF v

LEMMA LoadFields ==
  ASSUME NEW w \in W!World
  PROVE  LET v == W!LoadCubes(w) IN
         /\ v \in W!World /\ v.cubes = TRUE
         /\ v.alive = NotesIn(w.map) \ w.taken
         /\ v.map = w.map /\ v.taken = w.taken /\ v.marked = w.marked
         /\ v.swept = w.swept /\ v.credit = w.credit /\ v.recount = w.recount
BY DEF W!LoadCubes, W!World, W!NotesIn, NotesIn

(* The events of a frame.                                                  *)
LEMMA EventsFields ==
  ASSUME NEW w \in W!World, NEW batch \in SUBSET Notes
  PROVE  LET v == W!ApplyEvents(w, batch) IN
         /\ v \in W!World
         /\ v.map = w.map /\ v.cubes = w.cubes /\ v.taken = w.taken
         /\ v.swept = w.swept /\ v.recount = w.recount
         /\ v.marked = w.marked \cup batch /\ v.alive = w.alive \ batch
         /\ \A n \in Notes :
              v.credit[n] = IF n \in Here(w, batch \ w.marked)
                              THEN w.credit[n] + 1 ELSE w.credit[n]
<1> DEFINE v == W!ApplyEvents(w, batch)
           counted == (batch \ w.marked) \cap W!NotesOfLevel(LevelOf[w.map])
           credit == [n \in Notes |-> IF n \in counted THEN w.credit[n] + 1
                                                       ELSE w.credit[n]]
<1>1. v = [w EXCEPT !.marked = w.marked \cup batch, !.credit = credit,
                    !.alive = w.alive \ batch]
  BY Zenon DEF W!ApplyEvents
<1>2. credit \in [Notes -> Nat]
  BY DEF W!World
<1>3. counted = Here(w, batch \ w.marked)
  BY DEF W!NotesOfLevel, Here
<1>4. \A n \in Notes : credit[n] = IF n \in Here(w, batch \ w.marked)
                                     THEN w.credit[n] + 1 ELSE w.credit[n]
  BY <1>3
<1> HIDE DEF credit, v
<1>5. /\ v \in W!World
      /\ v.map = w.map /\ v.cubes = w.cubes /\ v.taken = w.taken
      /\ v.swept = w.swept /\ v.recount = w.recount
      /\ v.marked = w.marked \cup batch
      /\ v.alive = w.alive \ batch
      /\ v.credit = credit
  BY <1>1, <1>2 DEF W!World
<1> QED BY <1>4, <1>5 DEF v

LEMMA SameCardinality == \A S : W!Cardinality(S) = Cardinality(S)
BY DEF W!Cardinality, Cardinality

LEMMA RecountFields ==
  ASSUME NEW w \in W!World
  PROVE  LET v == W!RunPendingRecount(w) IN
         /\ v \in W!World /\ v.recount = FALSE
         /\ v.map = w.map /\ v.cubes = w.cubes /\ v.taken = w.taken
         /\ v.swept = w.swept /\ v.marked = w.marked /\ v.alive = w.alive
         /\ w.recount = FALSE => v.credit = w.credit
         /\ w.recount = TRUE => Total(v) >= Cardinality(Here(w, w.marked))
         /\ \/ v.credit = w.credit
            \/ v.credit = W!Once(Here(w, w.marked))
<1> DEFINE v == W!RunPendingRecount(w)
           here == w.marked \cap W!NotesOfLevel(LevelOf[w.map])
           larger == Cardinality(here) > W!Counter(w)
           credit == IF larger THEN W!Once(here) ELSE w.credit
<1>1. here = Here(w, w.marked)
  BY DEF Here, W!NotesOfLevel, W!World
<1>2. W!Counter(w) = Total(w) /\ Total(w) \in Nat
  BY CounterIsTotal, TotalType
<1>3. here \in SUBSET Notes /\ W!Once(here) \in [Notes -> Nat]
  BY DEF W!World, W!Once
<1>4. Cardinality(here) \in Nat
  <2>1. w.marked \in SUBSET Notes
    BY DEF W!World
  <2> QED BY <1>1, <2>1, HereFinite
<1>5. credit \in [Notes -> Nat]
  BY <1>3 DEF W!World
<1> USE SameCardinality
<1>6. /\ w.recount => v = [w EXCEPT !.recount = FALSE, !.credit = credit]
      /\ ~w.recount => v = w
  BY DEF W!RunPendingRecount
<1>7. w.recount \in BOOLEAN
  BY DEF W!World
<1> HIDE DEF v, here, credit, larger
<1>8. CASE w.recount = FALSE
  BY <1>6, <1>8 DEF v
<1>9. CASE w.recount = TRUE
  <2>1. /\ v \in W!World /\ v.recount = FALSE
        /\ v.map = w.map /\ v.cubes = w.cubes /\ v.taken = w.taken
        /\ v.swept = w.swept /\ v.marked = w.marked /\ v.alive = w.alive
        /\ v.credit = credit
    BY <1>5, <1>6, <1>9 DEF W!World
  <2>2. CASE larger
    <3>1. v.credit = W!Once(here)
      BY <2>1, <2>2 DEF credit
    <3>2. Total(v) = Cardinality(here)
      BY <1>3, <2>1, <3>1, OnceIsCounted
    <3> QED BY <1>1, <1>4, <1>9, <2>1, <3>1, <3>2 DEF v
  <2>3. CASE ~larger
    <3>1. v.credit = w.credit
      BY <2>1, <2>3 DEF credit
    <3>2. Total(v) = Total(w)
      BY <3>1 DEF Total
    <3>3. Total(v) >= Cardinality(here)
      BY <1>2, <1>4, <2>3, <3>2 DEF larger
    <3> QED BY <1>1, <1>9, <2>1, <3>1, <3>3 DEF v
  <2> QED BY <2>2, <2>3
<1> QED BY <1>7, <1>8, <1>9

LEMMA SweepFields ==
  ASSUME NEW w \in W!World
  PROVE  LET v == W!RunArrivalSweep(w) IN
         /\ v \in W!World
         /\ v.map = w.map /\ v.cubes = w.cubes /\ v.taken = w.taken
         /\ v.marked = w.marked /\ v.credit = w.credit /\ v.recount = w.recount
         /\ v.swept = IF w.cubes THEN w.map ELSE w.swept
         /\ v.alive \subseteq w.alive /\ w.alive \subseteq v.alive \cup w.marked
         /\ w.cubes /\ w.map # w.swept => v.alive \cap w.marked = {}
BY DEF W!RunArrivalSweep, W!World

LEMMA MirrorFields ==
  ASSUME NEW w \in W!World, NEW mirror \in Mirrors, w.alive \subseteq NotesIn(w.map)
  PROVE  LET v == W!MirrorNotes(w, mirror) IN
         /\ v \in W!World
         /\ v.map = w.map /\ v.cubes = w.cubes /\ v.taken = w.taken
         /\ v.swept = w.swept /\ v.credit = w.credit /\ v.recount = w.recount
         /\ w.marked \subseteq v.marked /\ v.marked \subseteq w.marked \cup mirror.bits
         /\ mirror = W!NoMirror => v.marked = w.marked
         /\ v.alive \subseteq w.alive /\ w.alive \subseteq v.alive \cup v.marked
         /\ v.alive \cap v.marked \subseteq w.marked
<1>1. mirror.bits \subseteq Notes
  BY DEF Mirrors, W!Mirror, W!NoMirror
<1>2. CASE mirror.map = w.map /\ w.cubes
  <2>1. W!MirrorNotes(w, mirror) =
          [w EXCEPT !.marked = w.marked \cup (mirror.bits \cap NotesIn(w.map)),
                    !.alive = w.alive \ mirror.bits]
    BY <1>2, Zenon DEF W!MirrorNotes, W!NotesIn, NotesIn
  <2>2. mirror = W!NoMirror => mirror.bits = {}
    BY DEF W!NoMirror
  <2> DEFINE v == W!MirrorNotes(w, mirror)
  <2>3. /\ v \in W!World
        /\ v.marked = w.marked \cup (mirror.bits \cap NotesIn(w.map))
        /\ v.alive = w.alive \ mirror.bits
    BY <1>1, <2>1 DEF W!World, NotesIn
  <2>4. /\ v.map = w.map /\ v.cubes = w.cubes /\ v.taken = w.taken
        /\ v.swept = w.swept /\ v.credit = w.credit /\ v.recount = w.recount
    BY <2>1 DEF W!World
  <2> HIDE DEF v
  <2>5. /\ v.alive \subseteq w.alive /\ w.alive \subseteq v.alive \cup v.marked
        /\ v.alive \cap v.marked \subseteq w.marked
        /\ w.marked \subseteq v.marked /\ v.marked \subseteq w.marked \cup mirror.bits
        /\ mirror = W!NoMirror => v.marked = w.marked
    BY <2>2, <2>3
  <2> QED BY <2>3, <2>4, <2>5 DEF v
<1>3. CASE ~(mirror.map = w.map /\ w.cubes)
  <2>1. W!MirrorNotes(w, mirror) = w
    BY <1>3, Zenon DEF W!MirrorNotes
  <2> QED BY <2>1
<1> QED BY <1>2, <1>3

-----------------------------------------------------------------------------
(* A game keeps fitting together, whatever happens to it.                  *)

Fits(w, allowed, but, stood, twice) ==
  Sound(w, stood) /\ Within(w, allowed, twice) /\ Covers(w, but)

LEMMA EnterFits ==
  ASSUME NEW w, NEW m \in Maps, NEW allowed \in [Notes -> Nat], NEW but,
         NEW stood, NEW twice, Fits(w, allowed, but, stood, twice), w.cubes
  PROVE  LET v == W!EnterMap(w, m) IN
         /\ Fits(v, allowed, but, IF m = w.map THEN NotesIn(m) ELSE {}, twice)
         /\ Accounted(v)
         /\ v.map = m /\ v.marked = w.marked /\ v.taken = w.taken
         /\ Apart(w) => Apart(v)
<1> DEFINE v == W!EnterMap(w, m)
           once == W!Once(w.taken \cap W!NotesOfLevel(LevelOf[m]))
<1>1. w \in W!World
  BY DEF Fits, Sound
<1>2. /\ v \in W!World
      /\ v.map = m /\ v.cubes = FALSE /\ v.alive = {}
      /\ v.taken = w.taken /\ v.marked = w.marked /\ v.swept = w.swept
      /\ \/ LevelOf[m] = LevelOf[w.map]
            /\ v.credit = w.credit /\ v.recount = w.recount
         \/ v.credit = once /\ v.recount = TRUE
  BY <1>1, EnterFields
<1>3. \A n \in Notes : once[n] = 0 \/ (once[n] = 1 /\ n \in w.taken)
  BY DEF W!Once
<1> HIDE DEF v, once
<1>4. Sound(v, IF m = w.map THEN NotesIn(m) ELSE {})
  BY <1>2, NoteRelayAssumption DEF Fits, Sound
<1>5. Within(v, allowed, twice)
  <2> SUFFICES ASSUME NEW n \in Notes
               PROVE  /\ v.credit[n] <= allowed[n] + Marked(v, n) + Again(twice, n)
                      /\ n \in v.taken => n \in v.marked \/ allowed[n] >= 1
                      /\ n \in twice => n \in v.taken
    BY DEF Within
  <2>1. /\ w.credit[n] \in Nat /\ allowed[n] \in Nat
        /\ w.credit[n] <= allowed[n] + Marked(w, n) + Again(twice, n)
        /\ n \in w.taken => n \in w.marked \/ allowed[n] >= 1
        /\ n \in twice => n \in w.taken
    BY <1>1 DEF Fits, Within, W!World
  <2> QED BY <1>2, <1>3, <2>1 DEF Marked, Again
<1>6. Covers(v, but)
  BY <1>2 DEF Fits, Covers, Total, Here
<1> QED BY <1>2, <1>4, <1>5, <1>6 DEF v, Fits, Apart, Accounted

LEMMA PickUpFits ==
  ASSUME NEW w, NEW n \in Notes, NEW allowed \in [Notes -> Nat], NEW but,
         NEW stood, NEW twice, Fits(w, allowed, but, stood, twice), n \in w.alive
  PROVE  LET v == W!PickUp(w, n) IN
         /\ Fits(v, allowed, but, stood \ {n}, twice \cup ({n} \cap w.marked))
         /\ v.map = w.map /\ v.marked = w.marked \cup {n} /\ v.taken = w.taken \cup {n}
         /\ Apart(w) => Apart(v)
         /\ Accounted(w) => Accounted(v)
<1> DEFINE v == W!PickUp(w, n)
           now == twice \cup ({n} \cap w.marked)
<1>1. w \in W!World /\ n \notin w.taken
  BY DEF Fits, Sound
<1>2. /\ v \in W!World
      /\ v.map = w.map /\ v.cubes = w.cubes /\ v.swept = w.swept
      /\ v.recount = w.recount
      /\ v.alive = w.alive \ {n} /\ v.taken = w.taken \cup {n}
      /\ v.marked = w.marked \cup {n}
      /\ \A k \in Notes : v.credit[k] = IF k \in {n} THEN w.credit[k] + 1
                                                     ELSE w.credit[k]
  BY <1>1, PickUpFields
<1> HIDE DEF v
<1>3. Sound(v, stood \ {n})
  BY <1>2 DEF Fits, Sound
<1>4. Within(v, allowed, now)
  <2> SUFFICES ASSUME NEW k \in Notes
               PROVE  /\ v.credit[k] <= allowed[k] + Marked(v, k) + Again(now, k)
                      /\ k \in v.taken => k \in v.marked \/ allowed[k] >= 1
                      /\ k \in now => k \in v.taken
    BY DEF Within
  <2>1. /\ w.credit[k] \in Nat /\ allowed[k] \in Nat
        /\ w.credit[k] <= allowed[k] + Marked(w, k) + Again(twice, k)
        /\ k \in w.taken => k \in w.marked \/ allowed[k] >= 1
        /\ k \in twice => k \in w.taken
    BY <1>1 DEF Fits, Within, W!World
  <2> QED BY <1>1, <1>2, <2>1 DEF Marked, Again
<1>5. Covers(v, but)
  <2> SUFFICES ASSUME ~v.recount
               PROVE  Total(v) >= Cardinality(Here(v, v.marked \ but))
    BY DEF Covers
  <2> DEFINE R == w.marked \ but
  <2>1. Total(v) = Total(w) + 1
    <3>1. {n} \in SUBSET Notes /\ Cardinality({n}) = 1
      BY FS_Singleton
    <3> QED BY <1>1, <1>2, <3>1, CountedOnceMore
  <2>2. Total(w) >= Cardinality(Here(w, R)) /\ Total(w) \in Nat
    BY <1>1, <1>2, TotalType DEF Fits, Covers
  <2>3. R \in SUBSET Notes /\ {n} \in SUBSET Notes
    BY <1>1 DEF W!World
  <2>4. Cardinality(Here(w, R)) \in Nat /\ Cardinality(Here(w, {n})) \in Nat
    BY <2>3, HereFinite
  <2>5. Cardinality(Here(w, {n})) <= 1
    <3>1. Here(w, {n}) \subseteq {n} /\ IsFiniteSet({n}) /\ Cardinality({n}) = 1
      BY FS_Singleton DEF Here
    <3> QED BY <3>1, FS_Subset
  <2>6. v.marked \ but \in SUBSET (R \cup {n}) /\ R \cup {n} \in SUBSET Notes
    BY <1>2, <2>3
  <2> HIDE DEF R
  <2>7. /\ Cardinality(Here(w, R \cup {n})) <= Cardinality(Here(w, R)) + Cardinality(Here(w, {n}))
        /\ Cardinality(Here(w, R \cup {n})) \in Nat
    BY <2>3, <2>6, HereUnion, HereFinite
  <2>8. /\ Cardinality(Here(v, v.marked \ but)) \in Nat
        /\ Cardinality(Here(v, v.marked \ but)) <= Cardinality(Here(w, R \cup {n}))
    BY <1>2, <2>6, HereMonotone
  <2> QED BY <2>1, <2>2, <2>4, <2>5, <2>7, <2>8
<1>6. Accounted(w) => Accounted(v)
  BY <1>2 DEF Accounted
<1>7. Apart(w) => Apart(v)
  BY <1>2 DEF Apart
<1> QED BY <1>2, <1>3, <1>4, <1>5, <1>6, <1>7 DEF v, Fits

(* What a death has put back, once the map is there (Settle).              *)
StoodAtFrame(x, stood) == IF x.cubes THEN stood ELSE stood \cap x.marked
Settled(x, v, stood) ==
  IF v.cubes THEN StoodAtFrame(x, stood) \cap v.alive ELSE stood

(* The world the frame hook finds, with or without a map just loaded.      *)
LEMMA AtFrameFields ==
  ASSUME NEW x, NEW allowed, NEW but, NEW stood, NEW twice,
         Fits(x, allowed, but, stood, twice), NEW w \in AtFrame(x)
  PROVE  /\ w \in W!World
         /\ w.map = x.map /\ w.taken = x.taken /\ w.marked = x.marked
         /\ w.swept = x.swept /\ w.credit = x.credit /\ w.recount = x.recount
         /\ w.alive \subseteq NotesIn(w.map) /\ w.alive \cap w.taken = {}
         /\ ~w.cubes => w.alive = {} /\ (w.swept # w.map \/ NotesIn(w.map) \subseteq stood)
         /\ \/ w.alive \cap w.marked \subseteq StoodAtFrame(x, stood)
            \/ w.cubes /\ w.map # w.swept
         /\ Accounted(x) => Accounted(w)
<1>1. CASE w = x
  BY <1>1 DEF Fits, Sound, StoodAtFrame
<1>2. CASE ~x.cubes /\ w = W!LoadCubes(x)
  <2>1. x \in W!World
    BY DEF Fits, Sound
  <2>2. /\ w \in W!World /\ w.cubes = TRUE
        /\ w.alive = NotesIn(x.map) \ x.taken
        /\ w.map = x.map /\ w.taken = x.taken /\ w.marked = x.marked
        /\ w.swept = x.swept /\ w.credit = x.credit /\ w.recount = x.recount
    BY <1>2, <2>1, LoadFields
  <2> QED BY <1>2, <2>2 DEF Fits, Sound, Accounted, StoodAtFrame
<1> QED BY <1>1, <1>2 DEF AtFrame

(* A frame in a session.                                                   *)
LEMMA FrameFits ==
  ASSUME NEW x, NEW allowed \in [Notes -> Nat], NEW but, NEW stood,
         NEW twice, Fits(x, allowed, but, stood, twice),
         NEW w \in AtFrame(x), NEW batch \in SUBSET Notes, NEW mirror \in Mirrors
  PROVE  LET v == W!WorldApply(w, batch, mirror) IN
         /\ Fits(v, allowed, but \cup (v.marked \ (x.marked \cup batch)),
                 Settled(x, v, stood), twice)
         /\ v.map = x.map /\ v.taken = x.taken
         /\ x.marked \cup batch \subseteq v.marked
         /\ v.marked \subseteq x.marked \cup batch \cup mirror.bits
         /\ mirror = W!NoMirror => v.marked = x.marked \cup batch
         /\ Accounted(x) => Accounted(v)
<1> DEFINE a == W!ApplyEvents(w, batch)
           r == W!RunPendingRecount(a)
           s == W!RunArrivalSweep(r)
           v == W!MirrorNotes(s, mirror)
           heard == x.marked \cup batch
           kept == v.marked \ (but \cup (v.marked \ heard))
<1>1. /\ w \in W!World
      /\ w.map = x.map /\ w.taken = x.taken /\ w.marked = x.marked
      /\ w.swept = x.swept /\ w.credit = x.credit /\ w.recount = x.recount
      /\ w.alive \subseteq NotesIn(w.map) /\ w.alive \cap w.taken = {}
      /\ ~w.cubes => w.alive = {} /\ (w.swept # w.map \/ NotesIn(w.map) \subseteq stood)
      /\ \/ w.alive \cap w.marked \subseteq StoodAtFrame(x, stood)
         \/ w.cubes /\ w.map # w.swept
      /\ Accounted(x) => Accounted(w)
  BY AtFrameFields
<1>2. /\ a \in W!World
      /\ a.map = w.map /\ a.cubes = w.cubes /\ a.taken = w.taken
      /\ a.swept = w.swept /\ a.recount = w.recount
      /\ a.marked = heard /\ a.alive = w.alive \ batch
      /\ \A n \in Notes :
           a.credit[n] = IF n \in Here(w, batch \ w.marked)
                           THEN w.credit[n] + 1 ELSE w.credit[n]
  <2>1. w \in W!World /\ w.marked = x.marked
    BY <1>1
  <2>2. /\ a \in W!World
        /\ a.map = w.map /\ a.cubes = w.cubes /\ a.taken = w.taken
        /\ a.swept = w.swept /\ a.recount = w.recount
        /\ a.marked = w.marked \cup batch /\ a.alive = w.alive \ batch
        /\ \A n \in Notes :
             a.credit[n] = IF n \in Here(w, batch \ w.marked)
                             THEN w.credit[n] + 1 ELSE w.credit[n]
    <3> HIDE DEF heard, r, s, v, kept
    <3> QED BY <2>1, EventsFields, Zenon
  <2> QED BY <2>1, <2>2
<1> HIDE DEF a
<1>3. /\ r \in W!World /\ r.recount = FALSE
      /\ r.map = a.map /\ r.cubes = a.cubes /\ r.taken = a.taken
      /\ r.swept = a.swept /\ r.marked = a.marked /\ r.alive = a.alive
      /\ a.recount = FALSE => r.credit = a.credit
      /\ a.recount = TRUE => Total(r) >= Cardinality(Here(a, a.marked))
      /\ \/ r.credit = a.credit
         \/ r.credit = W!Once(Here(a, a.marked))
  BY <1>2, RecountFields
<1> HIDE DEF r
<1>4. /\ s \in W!World
      /\ s.map = r.map /\ s.cubes = r.cubes /\ s.taken = r.taken
      /\ s.marked = r.marked /\ s.credit = r.credit /\ s.recount = r.recount
      /\ s.swept = IF r.cubes THEN r.map ELSE r.swept
      /\ s.alive \subseteq r.alive /\ r.alive \subseteq s.alive \cup r.marked
      /\ r.cubes /\ r.map # r.swept => s.alive \cap r.marked = {}
  BY <1>3, SweepFields
<1> HIDE DEF s
<1>5. s.alive \subseteq NotesIn(s.map)
  BY <1>1, <1>2, <1>3, <1>4
<1>6. /\ v \in W!World
      /\ v.map = s.map /\ v.cubes = s.cubes /\ v.taken = s.taken
      /\ v.swept = s.swept /\ v.credit = s.credit /\ v.recount = s.recount
      /\ s.marked \subseteq v.marked /\ v.marked \subseteq s.marked \cup mirror.bits
      /\ mirror = W!NoMirror => v.marked = s.marked
      /\ v.alive \subseteq s.alive /\ s.alive \subseteq v.alive \cup v.marked
      /\ v.alive \cap v.marked \subseteq s.marked
  BY <1>4, <1>5, MirrorFields
<1> HIDE DEF v
<1>7. x \in W!World /\ heard \in SUBSET Notes
  BY DEF Fits, Sound, W!World
<1>8. v.map = x.map /\ v.taken = x.taken /\ heard \subseteq v.marked
  BY <1>1, <1>2, <1>3, <1>4, <1>6
<1> HIDE DEF heard
<1>9. v.alive \cap v.marked \subseteq StoodAtFrame(x, stood)
  <2>1. v.alive \cap v.marked \subseteq heard
    BY <1>2, <1>3, <1>4, <1>6
  <2>2. CASE w.cubes /\ w.map # w.swept
    BY <1>2, <1>3, <1>4, <1>6, <2>1, <2>2
  <2>3. CASE w.alive \cap w.marked \subseteq StoodAtFrame(x, stood)
    BY <1>1, <1>2, <1>3, <1>4, <1>6, <2>1, <2>3 DEF heard
  <2> QED BY <1>1, <2>2, <2>3
<1>10. Sound(v, Settled(x, v, stood))
  <2>1. v.alive \subseteq NotesIn(v.map) /\ v.alive \cap v.taken = {}
    BY <1>1, <1>2, <1>3, <1>4, <1>6
  <2>2. ~v.cubes => v.alive = {} /\ (v.swept # v.map \/ NotesIn(v.map) \subseteq stood)
    BY <1>1, <1>2, <1>3, <1>4, <1>6
  <2>3. v.cubes => v.swept = v.map
    BY <1>3, <1>4, <1>6
  <2> QED BY <1>6, <1>9, <2>1, <2>2, <2>3 DEF Sound, Settled
<1>11. Within(v, allowed, twice)
  <2> SUFFICES ASSUME NEW n \in Notes
               PROVE  /\ v.credit[n] <= allowed[n] + Marked(v, n) + Again(twice, n)
                      /\ n \in v.taken => n \in v.marked \/ allowed[n] >= 1
                      /\ n \in twice => n \in v.taken
    BY DEF Within
  <2>1. /\ x.credit[n] \in Nat /\ allowed[n] \in Nat /\ v.credit[n] = r.credit[n]
        /\ x.credit[n] <= allowed[n] + Marked(x, n) + Again(twice, n)
        /\ n \in x.taken => n \in x.marked \/ allowed[n] >= 1
        /\ n \in twice => n \in x.taken
    BY <1>4, <1>6, <1>7 DEF Fits, Within, W!World
  <2>2. n \in x.marked \/ n \in batch => n \in v.marked
    BY <1>8 DEF heard
  <2>3. CASE r.credit = a.credit
    <3>1. \/ v.credit[n] = x.credit[n]
          \/ v.credit[n] = x.credit[n] + 1 /\ n \in batch /\ n \notin x.marked
      BY <1>1, <1>2, <2>1, <2>3 DEF Here
    <3> QED BY <1>8, <2>1, <2>2, <3>1 DEF Marked, Again
  <2>4. CASE r.credit = W!Once(Here(a, a.marked))
    <3>1. v.credit[n] = 0 \/ (v.credit[n] = 1 /\ n \in v.marked)
      BY <1>2, <1>8, <2>1, <2>4 DEF W!Once, Here
    <3> QED BY <1>8, <2>1, <2>2, <3>1 DEF Marked, Again
  <2> QED BY <1>3, <2>3, <2>4
<1>12. Covers(v, but \cup (v.marked \ heard))
  <2>1. Total(v) = Total(r)
    BY <1>4, <1>6 DEF Total
  <2>2. kept \in SUBSET heard /\ kept \in SUBSET ((x.marked \ but) \cup (batch \ x.marked))
    BY DEF heard
  <2> HIDE DEF kept
  <2>3. CASE w.recount = TRUE
    <3>1. /\ Cardinality(Here(v, kept)) \in Nat
          /\ Cardinality(Here(v, kept)) <= Cardinality(Here(a, heard))
      BY <1>1, <1>2, <1>7, <1>8, <2>2, HereMonotone
    <3>2. Total(r) >= Cardinality(Here(a, heard)) /\ Total(r) \in Nat
      BY <1>2, <1>3, <2>3, TotalType
    <3>3. Cardinality(Here(a, heard)) \in Nat
      BY <1>7, HereFinite
    <3>4. Total(v) >= Cardinality(Here(v, kept))
      BY <2>1, <3>1, <3>2, <3>3
    <3> QED BY <3>4 DEF Covers, kept
  <2>4. CASE w.recount = FALSE
    <3> DEFINE old == x.marked \ but
               new == batch \ x.marked
    <3>1. old \in SUBSET Notes /\ new \in SUBSET Notes
      BY <1>7 DEF W!World
    <3>2. Total(r) = Total(w) + Cardinality(Here(w, new))
      <4>1. Total(a) = Total(w) + Cardinality(Here(w, new))
        <5>1. Here(w, new) \in SUBSET Notes
          BY <3>1, HereFinite
        <5>2. \A n \in Notes :
                a.credit[n] = IF n \in Here(w, new) THEN w.credit[n] + 1
                                                    ELSE w.credit[n]
          BY <1>1, <1>2 DEF new
        <5> HIDE DEF new
        <5> QED BY <1>1, <1>2, <5>1, <5>2, CountedOnceMore
      <4>2. Total(r) = Total(a)
        BY <1>2, <1>3, <2>4 DEF Total
      <4> QED BY <4>1, <4>2
    <3>3. Total(w) >= Cardinality(Here(w, old)) /\ Total(w) \in Nat
      BY <1>1, <2>4, TotalType DEF Fits, Covers, Total, Here
    <3> HIDE DEF old, new
    <3>4. /\ Cardinality(Here(w, old \cup new)) <= Cardinality(Here(w, old)) + Cardinality(Here(w, new))
          /\ Cardinality(Here(w, old \cup new)) \in Nat
          /\ Cardinality(Here(w, old)) \in Nat /\ Cardinality(Here(w, new)) \in Nat
      BY <3>1, HereUnion, HereFinite
    <3>5. old \cup new \in SUBSET Notes /\ kept \in SUBSET (old \cup new)
      BY <2>2, <3>1 DEF old, new
    <3>6. /\ Cardinality(Here(v, kept)) \in Nat
          /\ Cardinality(Here(v, kept)) <= Cardinality(Here(w, old \cup new))
      BY <1>1, <1>8, <3>5, HereMonotone
    <3>7. Total(v) >= Cardinality(Here(v, kept))
      BY <2>1, <3>2, <3>3, <3>4, <3>6
    <3> QED BY <3>7 DEF Covers, kept
  <2>5. w.recount \in BOOLEAN
    BY <1>1 DEF W!World
  <2> QED BY <2>3, <2>4, <2>5
<1>13. Accounted(x) => Accounted(v)
  BY <1>1, <1>2, <1>3, <1>4, <1>6, <1>8 DEF Accounted, heard
<1>14. /\ v.marked \subseteq heard \cup mirror.bits
       /\ mirror = W!NoMirror => v.marked = heard
  BY <1>2, <1>3, <1>4, <1>6
<1>15. v = W!WorldApply(w, batch, mirror)
  BY DEF v, s, r, a, W!WorldApply
<1> QED BY <1>8, <1>10, <1>11, <1>12, <1>13, <1>14, <1>15 DEF Fits, heard

(* A frame out of a session.                                               *)
LEMMA AloneFits ==
  ASSUME NEW x, NEW allowed, NEW but, NEW stood, NEW twice,
         Fits(x, allowed, but, stood, twice), Apart(x), NEW w \in AtFrame(x)
  PROVE  /\ Fits(w, allowed, but, Settled(x, w, stood), twice) /\ Apart(w)
         /\ w.map = x.map /\ w.marked = x.marked /\ w.taken = x.taken
<1>1. /\ w \in W!World
      /\ w.map = x.map /\ w.taken = x.taken /\ w.marked = x.marked
      /\ w.swept = x.swept /\ w.credit = x.credit /\ w.recount = x.recount
      /\ w.alive \subseteq NotesIn(w.map) /\ w.alive \cap w.taken = {}
      /\ ~w.cubes => w.alive = {} /\ (w.swept # w.map \/ NotesIn(w.map) \subseteq stood)
  BY AtFrameFields
<1>2. Apart(w) /\ w.alive \cap w.marked = {}
  BY <1>1 DEF Apart
<1>3. Sound(w, Settled(x, w, stood))
  BY <1>1, <1>2 DEF Sound, Apart, Settled
<1>4. Within(w, allowed, twice) /\ Covers(w, but)
  BY <1>1 DEF Fits, Within, Marked, Covers, Total, Here
<1> QED BY <1>1, <1>2, <1>3, <1>4 DEF Fits

(* The record is dropped, and every note may be counted once more.         *)
LEMMA ResetFits ==
  ASSUME NEW w, NEW allowed \in [Notes -> Nat], NEW more \in [Notes -> Nat],
         NEW but, NEW stood, NEW twice, Fits(w, allowed, but, stood, twice),
         \A n \in Notes : more[n] = allowed[n] + 1
  PROVE  LET v == W!WorldReset(w) IN
         /\ Fits(v, more, {}, stood, twice) /\ Apart(v) /\ v.marked = {}
<1> DEFINE v == W!WorldReset(w)
<1>1. /\ v \in W!World /\ v.marked = {} /\ v.swept = NoMap
      /\ v.map = w.map /\ v.cubes = w.cubes /\ v.alive = w.alive
      /\ v.taken = w.taken /\ v.credit = w.credit /\ v.recount = w.recount
  BY DEF Fits, Sound, W!WorldReset, W!World
<1> HIDE DEF v
<1>2. Sound(v, stood) /\ Apart(v)
  <2>1. w \in W!World /\ NoMap \notin Maps
    BY NoteRelayAssumption DEF Fits, Sound
  <2>2. v.swept # v.map
    BY <1>1, <2>1 DEF W!World
  <2> QED BY <1>1, <2>2 DEF Fits, Sound, Apart
<1>3. Within(v, more, twice)
  <2> SUFFICES ASSUME NEW n \in Notes
               PROVE  /\ v.credit[n] <= more[n] + Marked(v, n) + Again(twice, n)
                      /\ more[n] >= 1
                      /\ n \in twice => n \in v.taken
    BY DEF Within
  <2>1. /\ w.credit[n] \in Nat /\ allowed[n] \in Nat
        /\ w.credit[n] <= allowed[n] + Marked(w, n) + Again(twice, n)
        /\ n \in twice => n \in w.taken
    BY DEF Fits, Sound, Within, W!World
  <2> QED BY <1>1, <2>1 DEF Marked, Again
<1>4. Covers(v, {})
  <2>1. Here(v, v.marked \ {}) = {}
    BY <1>1 DEF Here
  <2>2. Total(v) \in Nat /\ Cardinality(Here(v, v.marked \ {})) = 0
    BY <1>1, <2>1, TotalType, FS_EmptySet
  <2> QED BY <2>2 DEF Covers
<1> QED BY <1>1, <1>2, <1>3, <1>4 DEF v, Fits

(* A game just started.                                                    *)
LEMMA FreshFits ==
  ASSUME NEW m \in Maps, NEW save \in SUBSET Notes, NEW allowed \in [Notes -> Nat],
         \A n \in save : allowed[n] >= 1
  PROVE  LET v == W!FreshWorld(m, save) IN
         /\ Fits(v, allowed, {}, {}, {}) /\ Apart(v) /\ Accounted(v)
         /\ v.marked = {} /\ v.taken = save
<1> DEFINE v == W!FreshWorld(m, save)
           once == W!Once(save \cap W!NotesOfLevel(LevelOf[m]))
<1>1. /\ once \in [Notes -> Nat]
      /\ \A n \in Notes : once[n] = 0 \/ (once[n] = 1 /\ n \in save)
  BY DEF W!Once
<1>2. v = [map |-> m, cubes |-> FALSE, alive |-> {}, taken |-> save,
           marked |-> {}, credit |-> once, swept |-> NoMap, recount |-> FALSE]
  BY Zenon DEF W!FreshWorld
<1> HIDE DEF v, once
<1>3. v \in W!World
  BY <1>1, <1>2 DEF W!World
<1>4. Sound(v, {}) /\ Apart(v) /\ Accounted(v) /\ v.marked = {} /\ v.taken = save
  BY <1>2, <1>3, NoteRelayAssumption DEF Sound, Apart, Accounted
<1>5. Within(v, allowed, {})
  BY <1>1, <1>2 DEF Within, Marked, Again
<1>6. Covers(v, {})
  <2>1. Here(v, v.marked \ {}) = {}
    BY <1>4 DEF Here
  <2>2. Total(v) \in Nat /\ Cardinality(Here(v, v.marked \ {})) = 0
    BY <1>3, <2>1, TotalType, FS_EmptySet
  <2> QED BY <2>2 DEF Covers
<1> QED BY <1>4, <1>5, <1>6 DEF v, Fits

(* Another save is loaded: the record stays, the counter is made up anew.  *)
LEMMA AdoptFits ==
  ASSUME NEW w, NEW m \in Maps, NEW S \in SUBSET Notes, NEW more \in [Notes -> Nat],
         NEW but, NEW stood, Sound(w, stood), w.cubes,
         \A n \in S : more[n] >= 1,
         NEW v, v = W!LoadSave(w, m, S),
         NEW there, m = w.map => NotesIn(m) \subseteq there
  PROVE  /\ Fits(v, more, but, there, {})
         /\ v.map = m /\ v.marked = w.marked
<1> DEFINE once == W!Once(S \cap W!NotesOfLevel(LevelOf[m]))
<1>1. w \in W!World
  BY DEF Sound
<1>2. /\ once \in [Notes -> Nat]
      /\ \A n \in Notes : once[n] = 0 \/ (once[n] = 1 /\ n \in S)
  BY DEF W!Once
<1>3. v = [w EXCEPT !.map = m, !.cubes = FALSE, !.alive = {}, !.taken = S,
                    !.credit = once, !.recount = TRUE]
  BY Zenon DEF W!LoadSave
<1> HIDE DEF once
<1>4. /\ v \in W!World
      /\ v.map = m /\ v.cubes = FALSE /\ v.alive = {} /\ v.taken = S
      /\ v.marked = w.marked /\ v.swept = w.swept /\ v.credit = once
      /\ v.recount = TRUE
  BY <1>1, <1>2, <1>3 DEF W!World
<1>5. Sound(v, there)
  BY <1>4, NoteRelayAssumption DEF Sound
<1>6. Within(v, more, {})
  BY <1>2, <1>4 DEF Within, Marked, Again
<1>7. Covers(v, but)
  BY <1>4 DEF Covers
<1> QED BY <1>4, <1>5, <1>6, <1>7 DEF Fits

-----------------------------------------------------------------------------
(* The inductive invariant of the session.                                 *)

(* How often a note may be counted before its record counts it.            *)
Allowed(p) ==
  [n \in Notes |-> dropped[p] + (IF n \in saves[p] THEN 1 ELSE 0)]

GameFits(p) == Fits(worlds[p], Allowed(p), silent[p], back[p], again[p])

GamesFit == \A p \in Players : GameFits(p)

(* What the relay knows of a game in the session is what the game is.      *)
InStep ==
  /\ \A p \in Online : recorded[p] = worlds[p].marked
  /\ \A c \in Online \cap Clients : at[c] = worlds[c].map

(* A game out of the session has recorded what was picked up in it alone.  *)
OutApart == \A c \in Clients \ Online : Apart(worlds[c]) /\ silent[c] = {}

(* The mirror tells of no note that nobody has found.                      *)
HostKnown == Accounted(worlds[Host]) /\ worlds[Host].taken \subseteq found

MirrorsFound ==
  /\ published.bits \subseteq found
  /\ \A c \in Clients :
       /\ held[c].bits \subseteq found
       /\ posted[c] # <<>> => posted[c][1].mirror.bits \subseteq found

GamesInv == GamesFit /\ InStep /\ OutApart /\ HostKnown
SessionInv == SessionTypeOK /\ GamesInv /\ MirrorsFound
SInv == IInv /\ SessionInv

USE NoteRelayAssumption, SessionAssumption

LEMMA AllowedType ==
  ASSUME SessionTypeOK
  PROVE  \A p \in Players : Allowed(p) \in [Notes -> Nat]
BY DEF SessionTypeOK, Allowed

LEMMA SessionInitInv == SessionInit => Init /\ SInv
<1> SUFFICES ASSUME SessionInit PROVE Init /\ SInv
  OBVIOUS
<1> USE DEF Players
<1>1. Init /\ IInv /\ Online = {Host}
  BY InitIInv DEF SessionInit, Init, Online
<1>2. /\ found = saves[Host] /\ recorded = [p \in Players |-> {}]
      /\ saves \in [Players -> SUBSET Notes]
      /\ back = [p \in Players |-> {}] /\ again = [p \in Players |-> {}]
      /\ published = W!NoMirror /\ posted = [c \in Clients |-> <<>>]
      /\ held = [c \in Clients |-> W!NoMirror]
      /\ silent = [p \in Players |-> {}] /\ dropped = [p \in Players |-> 0]
  BY DEF SessionInit
<1>3. PICK start \in [Players -> Maps] :
        worlds = [p \in Players |-> W!FreshWorld(start[p], saves[p])]
  BY DEF SessionInit
<1>4. ASSUME NEW p \in Players
      PROVE  /\ GameFits(p) /\ worlds[p] \in W!World
             /\ Apart(worlds[p]) /\ Accounted(worlds[p])
             /\ worlds[p].marked = {} /\ worlds[p].taken = saves[p]
  <2>1. /\ start[p] \in Maps /\ saves[p] \in SUBSET Notes
        /\ Allowed(p) \in [Notes -> Nat] /\ \A n \in saves[p] : Allowed(p)[n] >= 1
    BY <1>2 DEF Allowed
  <2>2. /\ worlds[p] = W!FreshWorld(start[p], saves[p])
        /\ silent[p] = {} /\ back[p] = {} /\ again[p] = {}
    BY <1>2, <1>3
  <2> QED BY <2>1, <2>2, FreshFits DEF GameFits, Fits, Sound
<1>5. SessionTypeOK
  <2>1. \A p \in Players : worlds[p] \in W!World
    BY <1>4
  <2>2. worlds \in [Players -> W!World]
    BY <1>3, <2>1
  <2> QED BY <1>2, <2>2 DEF SessionTypeOK, Mirrors
<1>6. GamesInv
  BY <1>1, <1>2, <1>4 DEF GamesInv, GamesFit, InStep, OutApart, HostKnown
<1>7. MirrorsFound
  BY <1>2 DEF MirrorsFound, W!NoMirror
<1> QED BY <1>1, <1>5, <1>6, <1>7 DEF SInv, SessionInv

(* A step the games do not notice.                                         *)
LEMMA QuietGames ==
  ASSUME GamesInv, Online' = Online,
         UNCHANGED <<worlds, silent, dropped, recorded, at, found, lifeVars>>
  PROVE  GamesInv'
<1>1. \A p : Allowed(p)' = Allowed(p)
  BY DEF Allowed, lifeVars
<1>2. GamesFit'
  BY <1>1 DEF GamesInv, GamesFit, GameFits, Players, lifeVars
<1>3. InStep' /\ OutApart' /\ HostKnown'
  BY DEF GamesInv, InStep, OutApart, HostKnown
<1> QED BY <1>2, <1>3 DEF GamesInv

(* A step that leaves the mirrors alone.                                   *)
LEMMA QuietMirrors ==
  ASSUME MirrorsFound, found \subseteq found', UNCHANGED <<published, posted, held>>
  PROVE  MirrorsFound'
BY DEF MirrorsFound

LEMMA RelayStepInv ==
  ASSUME SInv, [Next]_vars,
         UNCHANGED <<worlds, mirrorVars, lifeVars, recorded, at, found>>,
         Online' = Online
  PROVE  SInv'
<1>1. IInv'
  BY NextIInv DEF SInv
<1>2. SessionTypeOK'
  BY DEF SInv, SessionInv, SessionTypeOK, mirrorVars, lifeVars
<1>3. GamesInv' /\ MirrorsFound'
  BY QuietGames, QuietMirrors DEF SInv, SessionInv, mirrorVars
<1> QED BY <1>1, <1>2, <1>3 DEF SInv, SessionInv

-----------------------------------------------------------------------------
(* Each step of the session is one of the relay, and keeps the invariant.  *)

OthersLife(q) == saves'[q] = saves[q] /\ back'[q] = back[q] /\ again'[q] = again[q]

(* One game changes: what has to hold of it.                               *)
LEMMA OneGame ==
  ASSUME SInv, NEW p \in Players, NEW v,
         worlds' = [worlds EXCEPT ![p] = v],
         Online' = Online, found \subseteq found',
         Fits(v, Allowed(p)', silent'[p], back'[p], again'[p]), UNCHANGED dropped,
         \A q \in Players : q # p => silent'[q] = silent[q],
         \A q \in Players : q # p => OthersLife(q),
         \A q \in Players : q # p => recorded'[q] = recorded[q],
         \A c \in Clients : c # p => at'[c] = at[c],
         p \in Online => recorded'[p] = v.marked,
         p \in Online \cap Clients => at'[p] = v.map,
         p \notin Online => Apart(v) /\ silent'[p] = {},
         p = Host => Accounted(v) /\ v.taken \subseteq found'
  PROVE  worlds' \in [Players -> W!World] /\ GamesInv'
<1> USE DEF Players, Online
<1>1. /\ worlds'[p] = v /\ \A q \in Players : q # p => worlds'[q] = worlds[q]
      /\ worlds \in [Players -> W!World] /\ v \in W!World
  BY DEF SInv, SessionInv, SessionTypeOK, Fits, Sound
<1>2. worlds' \in [Players -> W!World]
  BY <1>1
<1>4. GamesFit'
  <2> SUFFICES ASSUME NEW q \in Players
               PROVE  Fits(worlds'[q], Allowed(q)', silent'[q], back'[q], again'[q])
    BY DEF GamesFit, GameFits
  <2>1. CASE q = p
    BY <1>1, <2>1
  <2>2. CASE q # p
    <3>1. OthersLife(q) /\ silent'[q] = silent[q] /\ worlds'[q] = worlds[q]
      BY <1>1, <2>2
    <3>2. Allowed(q)' = Allowed(q)
      BY <3>1 DEF Allowed, OthersLife
    <3> QED BY <3>1, <3>2 DEF SInv, SessionInv, GamesInv, GamesFit, GameFits, OthersLife
  <2> QED BY <2>1, <2>2
<1>5. InStep' /\ OutApart'
  BY <1>1 DEF SInv, SessionInv, GamesInv, InStep, OutApart
<1>6. HostKnown'
  BY <1>1 DEF SInv, SessionInv, GamesInv, HostKnown
<1> QED BY <1>2, <1>4, <1>5, <1>6 DEF GamesInv

LEMMA WalkToStep ==
  ASSUME SInv, NEW p \in Players, NEW m \in Maps, WalkTo(p, m)
  PROVE  [Next]_vars /\ SInv'
<1> USE DEF Players
<1> DEFINE v == W!EnterMap(worlds[p], m)
           stood == IF m = worlds[p].map THEN NotesIn(m) ELSE {}
<1>1. /\ worlds[p].cubes
      /\ worlds' = [worlds EXCEPT ![p] = v]
      /\ at' = IF p \in Clients \cap Online THEN [at EXCEPT ![p] = m] ELSE at
      /\ back' = [back EXCEPT ![p] = stood]
      /\ UNCHANGED <<hostVars, status, recorded, up, down, states, history, mirrorVars,
                     saves, again>>
  BY DEF WalkTo, Reload
<1>2. /\ Fits(worlds[p], Allowed(p), silent[p], back[p], again[p])
      /\ Allowed(p) \in [Notes -> Nat] /\ Allowed(p)' = Allowed(p)
  BY <1>1, AllowedType DEF SInv, SessionInv, GamesInv, GamesFit, GameFits, Allowed, mirrorVars
<1>3. /\ Fits(v, Allowed(p), silent[p], stood, again[p]) /\ Accounted(v)
      /\ v.map = m /\ v.marked = worlds[p].marked /\ v.taken = worlds[p].taken
      /\ Apart(worlds[p]) => Apart(v)
  BY <1>1, <1>2, EnterFits
<1> HIDE DEF v, stood
<1>4. [Next]_vars
  <2>1. CASE p \in Clients \cap Online
    <3>1. status[p] = "Connected" /\ at[p] = worlds[p].map
      BY <2>1 DEF Online, SInv, SessionInv, GamesInv, InStep, IInv
    <3>2. CASE at[p] # m
      <4>1. Move(p, m)
        BY <1>1, <2>1, <3>1, <3>2 DEF Move
      <4> QED BY <2>1, <4>1 DEF Next
    <3>3. CASE at[p] = m
      <4>1. at' = at
        BY <1>1, <2>1, <3>3 DEF SInv, IInv, TypeOK
      <4> QED BY <1>1, <4>1 DEF vars, hostVars, history
    <3> QED BY <3>2, <3>3
  <2>2. CASE p \notin Clients \cap Online
    BY <1>1, <2>2 DEF vars, hostVars, history
  <2> QED BY <2>1, <2>2
<1>5. Online' = Online /\ found' = found /\ at \in [Clients -> Maps \cup {NoMap}]
      /\ back' \in [Players -> SUBSET Notes] /\ back'[p] = stood
      /\ \A q \in Players : q # p => OthersLife(q)
  BY <1>1 DEF Online, history, SInv, IInv, TypeOK, SessionInv, SessionTypeOK, stood,
              NotesIn, OthersLife
<1>6. worlds' \in [Players -> W!World] /\ GamesInv'
  <2>1. \A c \in Clients : c # p => at'[c] = at[c]
    BY <1>1, <1>5
  <2>2. p \in Online => recorded'[p] = v.marked
    BY <1>1, <1>3 DEF SInv, SessionInv, GamesInv, InStep
  <2>3. p \in Online \cap Clients => at'[p] = v.map
    BY <1>1, <1>3, <1>5
  <2>4. p \notin Online => Apart(v) /\ silent'[p] = {}
    BY <1>1, <1>3 DEF SInv, SessionInv, GamesInv, OutApart, mirrorVars, Online
  <2>5. p = Host => Accounted(v) /\ v.taken \subseteq found'
    BY <1>3, <1>5 DEF SInv, SessionInv, GamesInv, HostKnown
  <2>6. Fits(v, Allowed(p)', silent'[p], back'[p], again'[p])
    BY <1>1, <1>2, <1>3, <1>5 DEF mirrorVars
  <2> QED BY <1>1, <1>5, <2>1, <2>2, <2>3, <2>4, <2>5, <2>6, OneGame DEF mirrorVars
<1>7. SessionTypeOK' /\ MirrorsFound'
  BY <1>1, <1>5, <1>6, QuietMirrors DEF SInv, SessionInv, SessionTypeOK, mirrorVars
<1>8. IInv'
  BY <1>4, NextIInv DEF SInv
<1> QED BY <1>4, <1>6, <1>7, <1>8 DEF SInv, SessionInv

LEMMA PickUpStep ==
  ASSUME SInv, NEW p \in Players, NEW n \in Notes, PickUp(p, n)
  PROVE  [Next]_vars /\ SInv'
<1> USE DEF Players
<1> DEFINE v == W!PickUp(worlds[p], n)
           twice == again[p] \cup ({n} \cap worlds[p].marked)
<1>1. /\ n \in worlds[p].alive
      /\ worlds' = [worlds EXCEPT ![p] = v]
      /\ p \in Online => /\ Len(up[p]) < MaxClaims
                          /\ recorded' = [recorded EXCEPT ![p] = recorded[p] \cup {n}]
                          /\ found' = found \cup {n}
                          /\ up' = [up EXCEPT ![p] = Append(up[p], n)]
      /\ p \notin Online => UNCHANGED <<recorded, found, up>>
      /\ UNCHANGED <<hostVars, status, at, down, states, missed, mirrorVars, saves>>
      /\ again' = [again EXCEPT ![p] = twice] /\ back' = [back EXCEPT ![p] = back[p] \ {n}]
  BY DEF PickUp
<1>2. /\ Fits(worlds[p], Allowed(p), silent[p], back[p], again[p])
      /\ Allowed(p) \in [Notes -> Nat] /\ Allowed(p)' = Allowed(p)
  BY <1>1, AllowedType DEF SInv, SessionInv, GamesInv, GamesFit, GameFits, Allowed, mirrorVars
<1>3. /\ Fits(v, Allowed(p), silent[p], back[p] \ {n}, twice)
      /\ v.map = worlds[p].map /\ v.marked = worlds[p].marked \cup {n}
      /\ v.taken = worlds[p].taken \cup {n}
      /\ Apart(worlds[p]) => Apart(v)
      /\ Accounted(worlds[p]) => Accounted(v)
  BY <1>1, <1>2, PickUpFits
<1> HIDE DEF v, twice
<1>4. [Next]_vars
  <2>1. CASE p \in Online
    <3>1. n \in NotesIn(worlds[p].map)
      BY <1>1, <1>2 DEF Fits, Sound
    <3>2. recorded[p] = worlds[p].marked /\ (p \in Clients => at[p] = worlds[p].map)
      BY <2>1 DEF SInv, SessionInv, GamesInv, InStep
    <3>3. Collect(p, n)
      BY <1>1, <2>1, <3>1, <3>2 DEF Collect, NotesIn
    <3> QED BY <3>3 DEF Next
  <2>2. CASE p \notin Online
    BY <1>1, <2>2 DEF vars, hostVars
  <2> QED BY <2>1, <2>2
<1>5. /\ Online' = Online /\ found \subseteq found'
      /\ recorded \in [Players -> SUBSET Notes]
      /\ back' \in [Players -> SUBSET Notes] /\ back'[p] = back[p] \ {n}
      /\ again' \in [Players -> SUBSET Notes] /\ again'[p] = twice
      /\ \A q \in Players : q # p => OthersLife(q)
  BY <1>1 DEF Online, SInv, IInv, TypeOK, SessionInv, SessionTypeOK, twice, OthersLife
<1>6. worlds' \in [Players -> W!World] /\ GamesInv'
  <2>1. \A q \in Players : q # p => recorded'[q] = recorded[q]
    BY <1>1, <1>5
  <2>2. p \in Online => recorded'[p] = v.marked
    BY <1>1, <1>3, <1>5 DEF SInv, SessionInv, GamesInv, InStep
  <2>3. p \in Online \cap Clients => at'[p] = v.map
    BY <1>1, <1>3 DEF SInv, SessionInv, GamesInv, InStep
  <2>4. p \notin Online => Apart(v) /\ silent'[p] = {}
    BY <1>1, <1>3 DEF SInv, SessionInv, GamesInv, OutApart, mirrorVars, Online
  <2>5. p = Host => Accounted(v) /\ v.taken \subseteq found'
    BY <1>1, <1>3 DEF SInv, SessionInv, GamesInv, HostKnown, Online
  <2>6. Fits(v, Allowed(p)', silent'[p], back'[p], again'[p])
    BY <1>1, <1>2, <1>3, <1>5 DEF mirrorVars
  <2> QED BY <1>1, <1>5, <2>1, <2>2, <2>3, <2>4, <2>5, <2>6, OneGame DEF mirrorVars
<1>7. SessionTypeOK' /\ MirrorsFound'
  BY <1>1, <1>5, <1>6, QuietMirrors DEF SInv, SessionInv, SessionTypeOK, mirrorVars
<1>8. IInv'
  BY <1>4, NextIInv DEF SInv
<1> QED BY <1>4, <1>6, <1>7, <1>8 DEF SInv, SessionInv

LEMMA SettleBack ==
  ASSUME SessionTypeOK, NEW p \in Players, Settle(p)
  PROVE  /\ back' \in [Players -> SUBSET Notes]
         /\ back'[p] = Settled(worlds[p], worlds'[p], back[p])
         /\ \A q \in Players : q # p => back'[q] = back[q]
BY DEF SessionTypeOK, Settle, Settled, StoodAtFrame

LEMMA AloneFrameStep ==
  ASSUME SInv, NEW c \in Clients, AloneFrame(c)
  PROVE  [Next]_vars /\ SInv'
<1> USE DEF Players
<1>1. PICK w \in AtFrame(worlds[c]) : worlds' = [worlds EXCEPT ![c] = w]
  BY DEF AloneFrame
<1>2. /\ c \notin Online /\ UNCHANGED vars /\ UNCHANGED mirrorVars
      /\ UNCHANGED <<saves, again>>
  BY DEF AloneFrame, relayVars
<1>3. /\ Fits(worlds[c], Allowed(c), silent[c], back[c], again[c])
      /\ Apart(worlds[c]) /\ silent[c] = {}
  BY <1>2 DEF SInv, SessionInv, GamesInv, GamesFit, GameFits, OutApart
<1>4. Fits(w, Allowed(c), silent[c], Settled(worlds[c], w, back[c]), again[c]) /\ Apart(w)
  BY <1>3, AloneFits
<1>5. Online' = Online /\ found' = found /\ c # Host
  BY <1>2 DEF vars, Online
<1>9. /\ back' \in [Players -> SUBSET Notes]
      /\ back'[c] = Settled(worlds[c], w, back[c])
      /\ \A q \in Players : q # c => back'[q] = back[q]
  <2>1. worlds'[c] = w /\ Settle(c)
    BY <1>1 DEF AloneFrame, SInv, SessionInv, SessionTypeOK
  <2> QED BY <2>1, SettleBack DEF SInv, SessionInv
<1>6. worlds' \in [Players -> W!World] /\ GamesInv'
  <2>1. Allowed(c)' = Allowed(c) /\ \A q \in Players : q # c => OthersLife(q)
    BY <1>2, <1>9 DEF Allowed, OthersLife, mirrorVars
  <2>2. Fits(w, Allowed(c)', silent'[c], back'[c], again'[c])
    BY <1>2, <1>4, <1>9, <2>1 DEF mirrorVars
  <2> QED BY <1>1, <1>2, <1>3, <1>4, <1>5, <2>1, <2>2, OneGame DEF vars, mirrorVars
<1>7. SessionTypeOK' /\ MirrorsFound'
  BY <1>2, <1>5, <1>6, <1>9, QuietMirrors DEF SInv, SessionInv, SessionTypeOK, mirrorVars
<1>8. IInv'
  BY <1>2, NextIInv DEF SInv
<1> QED BY <1>2, <1>6, <1>7, <1>8 DEF SInv, SessionInv

(* What a frame takes from the channel is of the notes, and decided.       *)
LEMMA BatchKnown ==
  ASSUME SInv, NEW p \in Players, NEW k \in 0 .. Len(down[p])
  PROVE  /\ ToSet(SubSeq(down[p], 1, k)) \in SUBSET Notes
         /\ ToSet(SubSeq(down[p], 1, k)) \subseteq found
<1>1. down[p] \in Seq(Notes)
  BY DEF SInv, IInv, TypeOK
<1>2. /\ SubSeq(down[p], 1, k) \in Seq(Notes)
      /\ ToSet(SubSeq(down[p], 1, k)) \subseteq ToSet(down[p])
  BY <1>1, SplitSet
<1>3. ToSet(SubSeq(down[p], 1, k)) \in SUBSET Notes
  BY <1>2, SetOfSeq
<1> QED BY <1>2, <1>3 DEF SInv, IInv, OnlyDecidedNotes, AllFound

(* A frame of one of the games.                                            *)
FrameOf(x, batch, mirror, v) ==
  /\ batch \in SUBSET Notes /\ mirror \in Mirrors
  /\ \E w \in AtFrame(x) : v = W!WorldApply(w, batch, mirror)

Follows(x, v) ==
  v.map = x.map /\ v.taken = x.taken /\ (Accounted(x) => Accounted(v))

NowSilent(p, batch, v) == silent[p] \cup (v.marked \ (worlds[p].marked \cup batch))

LEMMA GameFrame ==
  ASSUME SInv, NEW p \in Players, NEW batch, NEW mirror, NEW v,
         FrameOf(worlds[p], batch, mirror, v)
  PROVE  /\ Fits(v, Allowed(p), NowSilent(p, batch, v),
                 Settled(worlds[p], v, back[p]), again[p])
         /\ Follows(worlds[p], v)
         /\ worlds[p].marked \cup batch \subseteq v.marked
         /\ v.marked \subseteq worlds[p].marked \cup batch \cup mirror.bits
         /\ mirror = W!NoMirror => v.marked = worlds[p].marked \cup batch
<1> PICK w \in AtFrame(worlds[p]) : v = W!WorldApply(w, batch, mirror)
  BY DEF FrameOf
<1> DEFINE x == worlds[p]
           allowed == Allowed(p)
           but == silent[p]
           stood == back[p]
           twice == again[p]
           y == W!WorldApply(w, batch, mirror)
<1>1. Fits(x, allowed, but, stood, twice) /\ allowed \in [Notes -> Nat] /\ w \in AtFrame(x)
  BY AllowedType DEF SInv, SessionInv, GamesInv, GamesFit, GameFits
<1>4. batch \in SUBSET Notes /\ mirror \in Mirrors
  BY DEF FrameOf
<1> HIDE DEF x, allowed, but, stood, twice
<1>2. /\ Fits(y, allowed, but \cup (y.marked \ (x.marked \cup batch)), Settled(x, y, stood), twice)
      /\ y.map = x.map /\ y.taken = x.taken
      /\ x.marked \cup batch \subseteq y.marked
      /\ y.marked \subseteq x.marked \cup batch \cup mirror.bits
      /\ mirror = W!NoMirror => y.marked = x.marked \cup batch
      /\ Accounted(x) => Accounted(y)
  BY <1>1, <1>4, FrameFits, ZenonT(60)
<1>3. v = y
  OBVIOUS
<1> HIDE DEF y
<1> QED BY <1>2, <1>3 DEF x, allowed, but, stood, twice, NowSilent, Follows

LEMMA HostFrameStep ==
  ASSUME SInv, HostFrame
  PROVE  [Next]_vars /\ SInv'
<1> USE DEF Players
<1>1. PICK w \in AtFrame(worlds[Host]), k \in 0 .. Len(down[Host]) :
        /\ k <= FrameQueue
        /\ worlds' = [worlds EXCEPT ![Host] =
             W!WorldApply(w, ToSet(SubSeq(down[Host], 1, k)), W!NoMirror)]
        /\ down' = [down EXCEPT ![Host] = SubSeq(down[Host], k + 1, Len(down[Host]))]
  BY DEF HostFrame
<1> DEFINE batch == ToSet(SubSeq(down[Host], 1, k))
           v == W!WorldApply(w, batch, W!NoMirror)
<1>2. /\ recorded' = [recorded EXCEPT ![Host] = worlds'[Host].marked]
      /\ published' = W!PublishedMirror(worlds'[Host])
      /\ UNCHANGED <<hostVars, status, at, up, states, history, posted, held,
                     silent, dropped, saves, again>>
      /\ Settle(Host)
  BY DEF HostFrame
<1>3. batch \in SUBSET Notes /\ batch \subseteq found
  BY BatchKnown
<1>4. W!NoMirror \in Mirrors
  BY DEF Mirrors
<1> HIDE DEF batch
<1>5. /\ worlds' = [worlds EXCEPT ![Host] = v]
      /\ FrameOf(worlds[Host], batch, W!NoMirror, v)
  BY <1>1, <1>3, <1>4 DEF FrameOf, batch
<1> HIDE DEF v
<1>6. /\ Fits(v, Allowed(Host), NowSilent(Host, batch, v),
               Settled(worlds[Host], v, back[Host]), again[Host])
      /\ v.map = worlds[Host].map /\ v.taken = worlds[Host].taken
      /\ v.marked = worlds[Host].marked \cup batch
      /\ Accounted(worlds[Host]) => Accounted(v)
  <2>1. /\ Fits(v, Allowed(Host), NowSilent(Host, batch, v),
                Settled(worlds[Host], v, back[Host]), again[Host])
        /\ Follows(worlds[Host], v)
        /\ v.marked = worlds[Host].marked \cup batch
    BY <1>5, GameFrame
  <2> QED BY <2>1 DEF Follows
<1>7. /\ Online' = Online /\ found' = found /\ Host \in Online /\ Host \notin Clients
      /\ recorded \in [Players -> SUBSET Notes] /\ worlds'[Host] = v
      /\ recorded[Host] = worlds[Host].marked
  BY <1>2, <1>5 DEF Online, history, SInv, IInv, TypeOK, SessionInv, SessionTypeOK,
                    GamesInv, InStep
<1>20. /\ back' \in [Players -> SUBSET Notes]
       /\ back'[Host] = Settled(worlds[Host], v, back[Host])
       /\ \A q \in Players : q # Host => OthersLife(q)
  BY <1>2, <1>7, SettleBack DEF SInv, SessionInv, OthersLife
<1>8. Fits(v, Allowed(Host)', silent'[Host], back'[Host], again'[Host])
  <2>1. NowSilent(Host, batch, v) = silent[Host]
    BY <1>6 DEF NowSilent
  <2>2. Allowed(Host)' = Allowed(Host)
    BY <1>2 DEF Allowed
  <2> QED BY <1>2, <1>6, <1>20, <2>1, <2>2
<1>9. [Next]_vars
  <2>1. recorded' = [recorded EXCEPT ![Host] = recorded[Host] \cup batch \cup {}]
    BY <1>2, <1>6, <1>7
  <2>2. {} \in SUBSET found
    OBVIOUS
  <2>3. Frame(Host)
    BY <1>1, <1>2, <1>7, <2>1, <2>2 DEF Frame, batch
  <2> QED BY <2>3 DEF Next
<1>10. worlds' \in [Players -> W!World] /\ GamesInv'
  <2>1. \A q \in Players : q # Host => recorded'[q] = recorded[q] /\ silent'[q] = silent[q]
    BY <1>2, <1>7
  <2>2. recorded'[Host] = v.marked
    BY <1>2, <1>7
  <2>3. Accounted(v) /\ v.taken \subseteq found'
    BY <1>6, <1>7 DEF SInv, SessionInv, GamesInv, HostKnown
  <2> QED BY <1>2, <1>5, <1>7, <1>8, <1>20, <2>1, <2>2, <2>3, OneGame
<1>11. published' \in Mirrors /\ published'.bits \subseteq found'
  <2>1. /\ published' = [map |-> v.map, bits |-> IF v.cubes THEN NotesIn(v.map) \ v.alive ELSE {}]
        /\ v \in W!World
    BY <1>2, <1>7, <1>8 DEF W!PublishedMirror, W!NotesIn, NotesIn, Fits, Sound
  <2>2. published' \in W!Mirror
    BY <2>1 DEF W!Mirror, W!World, W!NotesIn, NotesIn
  <2>3. v.marked \subseteq found /\ v.taken \subseteq found /\ Accounted(v)
    BY <1>3, <1>6, <1>7 DEF SInv, SessionInv, GamesInv, HostKnown, IInv, AllFound
  <2> QED BY <1>7, <2>1, <2>2, <2>3 DEF Mirrors, Accounted
<1>12. SessionTypeOK'
  BY <1>2, <1>7, <1>10, <1>11, <1>20 DEF SInv, SessionInv, SessionTypeOK
<1>13. MirrorsFound'
  BY <1>2, <1>7, <1>11 DEF SInv, SessionInv, MirrorsFound
<1>14. IInv'
  BY <1>9, NextIInv DEF SInv
<1> QED BY <1>9, <1>10, <1>12, <1>13, <1>14 DEF SInv, SessionInv

(* The events behind a mirror move up.                                     *)
LEMMA PostAhead ==
  ASSUME NEW s \in Seq(Post), s # <<>>, NEW k \in Nat, k <= s[1].ahead
  PROVE  LET t == [s EXCEPT ![1].ahead = s[1].ahead - k] IN
         /\ t \in Seq(Post) /\ t # <<>> /\ t[1].mirror = s[1].mirror
<1> DEFINE post == [s[1] EXCEPT !.ahead = s[1].ahead - k]
           t == [s EXCEPT ![1] = post]
<1>1. s[1] \in Post /\ 1 \in 1 .. Len(s)
  OBVIOUS
<1>2. post \in Post /\ post.mirror = s[1].mirror
  <2>1. s[1].ahead - k \in Nat
    BY <1>1 DEF Post
  <2> QED BY <1>1, <2>1 DEF Post
<1> HIDE DEF post
<1>3. t \in Seq(Post) /\ Len(t) = Len(s) /\ t[1] = post
  BY <1>1, <1>2
<1> QED BY <1>1, <1>2, <1>3 DEF post

LEMMA ClientFrameStep ==
  ASSUME SInv, NEW c \in Clients, ClientFrame(c)
  PROVE  [Next]_vars /\ SInv'
<1> USE DEF Players
<1>1. PICK w \in AtFrame(worlds[c]), k \in 0 .. Len(down[c]) :
        /\ k <= FrameQueue
        /\ posted[c] # <<>> => k <= posted[c][1].ahead
        /\ LET batch == ToSet(SubSeq(down[c], 1, k))
               before == W!WorldApply(w, batch, W!NoMirror)
               after == W!WorldApply(w, batch, held[c])
           IN /\ worlds' = [worlds EXCEPT ![c] = after]
              /\ silent' = [silent EXCEPT ![c] =
                              silent[c] \cup (after.marked \ before.marked)]
        /\ down' = [down EXCEPT ![c] = SubSeq(down[c], k + 1, Len(down[c]))]
        /\ posted' = IF posted[c] = <<>> THEN posted
                     ELSE [posted EXCEPT ![c][1].ahead = posted[c][1].ahead - k]
  BY DEF ClientFrame
<1> DEFINE batch == ToSet(SubSeq(down[c], 1, k))
           u == W!WorldApply(w, batch, W!NoMirror)
           v == W!WorldApply(w, batch, held[c])
           heard == worlds[c].marked \cup batch
<1>2. /\ recorded' = [recorded EXCEPT ![c] = worlds'[c].marked]
      /\ c \in Online
      /\ UNCHANGED <<hostVars, status, at, up, states, history, published, held,
                     dropped, saves, again>>
      /\ Settle(c)
  BY DEF ClientFrame
<1>3. batch \in SUBSET Notes /\ batch \subseteq found
  BY BatchKnown
<1>4. W!NoMirror \in Mirrors /\ held[c] \in Mirrors
  BY DEF SInv, SessionInv, SessionTypeOK, Mirrors
<1>5. /\ worlds' = [worlds EXCEPT ![c] = v]
      /\ silent' = [silent EXCEPT ![c] = silent[c] \cup (v.marked \ u.marked)]
      /\ FrameOf(worlds[c], batch, W!NoMirror, u)
      /\ FrameOf(worlds[c], batch, held[c], v)
  BY <1>1, <1>3, <1>4 DEF FrameOf
<1> HIDE DEF batch, u, v
<1>6. u.marked = heard
  BY <1>5, GameFrame
<1>7. /\ Fits(v, Allowed(c), NowSilent(c, batch, v),
               Settled(worlds[c], v, back[c]), again[c])
      /\ v.map = worlds[c].map
      /\ heard \subseteq v.marked /\ v.marked \subseteq heard \cup held[c].bits
  <2>1. /\ Fits(v, Allowed(c), NowSilent(c, batch, v),
                Settled(worlds[c], v, back[c]), again[c])
        /\ Follows(worlds[c], v)
        /\ heard \subseteq v.marked /\ v.marked \subseteq heard \cup held[c].bits
    BY <1>5, GameFrame
  <2> QED BY <2>1 DEF Follows
<1>8. /\ Online' = Online /\ found' = found /\ c # Host
      /\ recorded \in [Players -> SUBSET Notes] /\ worlds'[c] = v
      /\ silent \in [Players -> SUBSET Notes]
      /\ recorded[c] = worlds[c].marked /\ at[c] = worlds[c].map
      /\ v.marked \subseteq Notes
  BY <1>2, <1>5, <1>7 DEF Online, history, SInv, IInv, TypeOK, SessionInv, SessionTypeOK,
                    GamesInv, InStep, Fits, Sound, W!World
<1>9. [Next]_vars
  <2> DEFINE S == v.marked \ heard
  <2>1. S \in SUBSET found
    BY <1>7 DEF SInv, SessionInv, MirrorsFound
  <2>2. recorded' = [recorded EXCEPT ![c] = recorded[c] \cup batch \cup S]
    <3>1. v.marked = recorded[c] \cup batch \cup S
      BY <1>7, <1>8
    <3> QED BY <1>2, <1>8, <3>1
  <2> HIDE DEF S
  <2>3. Frame(c)
    BY <1>1, <1>2, <1>8, <2>1, <2>2 DEF Frame, batch
  <2> QED BY <2>3 DEF Next
<1>20. /\ back' \in [Players -> SUBSET Notes]
       /\ back'[c] = Settled(worlds[c], v, back[c])
       /\ \A q \in Players : q # c => OthersLife(q)
  BY <1>2, <1>8, SettleBack DEF SInv, SessionInv, OthersLife
<1>10. worlds' \in [Players -> W!World] /\ GamesInv'
  <2>1. silent'[c] = NowSilent(c, batch, v)
    BY <1>5, <1>6, <1>8 DEF NowSilent
  <2>2. \A q \in Players : q # c => recorded'[q] = recorded[q] /\ silent'[q] = silent[q]
    BY <1>2, <1>5, <1>8
  <2>3. recorded'[c] = v.marked
    BY <1>2, <1>8
  <2>4. Fits(v, Allowed(c)', silent'[c], back'[c], again'[c])
    <3>1. Allowed(c)' = Allowed(c)
      BY <1>2 DEF Allowed
    <3> QED BY <1>2, <1>7, <1>20, <2>1, <3>1
  <2> HIDE DEF heard, v
  <2>5. /\ worlds' = [worlds EXCEPT ![c] = v] /\ Online' = Online
        /\ found \subseteq found' /\ UNCHANGED <<dropped, at>>
    BY <1>2, <1>5, <1>8
  <2>6. /\ \A d \in Clients : d # c => at'[d] = at[d]
        /\ at'[c] = v.map
    BY <1>7, <1>8, <2>5
  <2>7. c \in Players /\ c \in Online /\ c # Host
    BY <1>2, <1>8 DEF Players, Online
  <2>8. \A q \in Players : q # c => OthersLife(q)
    BY <1>20
  <2> QED BY <2>2, <2>3, <2>4, <2>5, <2>6, <2>7, <2>8, OneGame
<1>11. /\ posted' \in [Clients -> Seq(Post)]
       /\ \A d \in Clients : posted'[d] # <<>> =>
            posted[d] # <<>> /\ posted'[d][1].mirror = posted[d][1].mirror
  <2>1. posted \in [Clients -> Seq(Post)]
    BY DEF SInv, SessionInv, SessionTypeOK
  <2>2. CASE posted[c] = <<>>
    BY <1>1, <2>1, <2>2
  <2>3. CASE posted[c] # <<>>
    <3> DEFINE t == [posted[c] EXCEPT ![1].ahead = posted[c][1].ahead - k]
    <3>1. t \in Seq(Post) /\ t # <<>> /\ t[1].mirror = posted[c][1].mirror
      BY <1>1, <2>1, <2>3, PostAhead
    <3>2. posted' = [posted EXCEPT ![c] = t]
      BY <1>1, <2>3
    <3> HIDE DEF t
    <3> QED BY <2>1, <2>3, <3>1, <3>2
  <2> QED BY <2>2, <2>3
<1>12. SessionTypeOK'
  <2>1. silent' \in [Players -> SUBSET Notes]
    BY <1>5, <1>8
  <2> QED BY <1>2, <1>10, <1>11, <1>20, <2>1 DEF SInv, SessionInv, SessionTypeOK
<1>13. MirrorsFound'
  BY <1>2, <1>8, <1>11 DEF SInv, SessionInv, MirrorsFound
<1>14. IInv'
  BY <1>9, NextIInv DEF SInv
<1> QED BY <1>9, <1>10, <1>12, <1>13, <1>14 DEF SInv, SessionInv

LEMMA BroadcastStep ==
  ASSUME SInv, BroadcastMirror
  PROVE  [Next]_vars /\ SInv'
<1>1. /\ UNCHANGED vars /\ UNCHANGED <<worlds, published, held, silent, dropped, lifeVars>>
      /\ posted' = [c \in Clients |->
            IF Linked(c) /\ posted[c] = <<>>
              THEN <<[mirror |-> published, ahead |-> Len(down[c])]>>
              ELSE posted[c]]
  BY DEF BroadcastMirror, relayVars
<1>2. Online' = Online /\ UNCHANGED <<recorded, at, found>>
  BY <1>1 DEF vars, Online
<1>3. posted' \in [Clients -> Seq(Post)]
  <2>1. \A c \in Clients : Len(down[c]) \in Nat /\ posted[c] \in Seq(Post)
    BY DEF SInv, IInv, TypeOK, SessionInv, SessionTypeOK, Players
  <2>2. \A c \in Clients : [mirror |-> published, ahead |-> Len(down[c])] \in Post
    BY <2>1 DEF SInv, SessionInv, SessionTypeOK, Post
  <2> QED BY <1>1, <2>1, <2>2
<1>4. SessionTypeOK'
  BY <1>1, <1>3 DEF SInv, SessionInv, SessionTypeOK, lifeVars
<1>5. MirrorsFound'
  BY <1>1, <1>2 DEF SInv, SessionInv, MirrorsFound
<1>6. GamesInv'
  BY <1>1, <1>2, QuietGames DEF SInv, SessionInv
<1>7. IInv'
  BY <1>1, NextIInv DEF SInv
<1> QED BY <1>1, <1>4, <1>5, <1>6, <1>7 DEF SInv, SessionInv

LEMMA ReceiveMirrorStep ==
  ASSUME SInv, NEW c \in Clients, ReceiveMirror(c)
  PROVE  [Next]_vars /\ SInv'
<1>1. /\ UNCHANGED vars /\ UNCHANGED <<worlds, published, silent, dropped, lifeVars>>
      /\ posted[c] # <<>>
      /\ held' = [held EXCEPT ![c] = posted[c][1].mirror]
      /\ posted' = [posted EXCEPT ![c] = <<>>]
  BY DEF ReceiveMirror, relayVars
<1>2. Online' = Online /\ UNCHANGED <<recorded, at, found>>
  BY <1>1 DEF vars, Online
<1>3. posted[c][1].mirror \in Mirrors
  <2>1. posted[c] \in Seq(Post)
    BY DEF SInv, SessionInv, SessionTypeOK
  <2>2. posted[c][1] \in Post
    BY <1>1, <2>1
  <2> QED BY <2>2 DEF Post
<1>4. SessionTypeOK'
  BY <1>1, <1>3 DEF SInv, SessionInv, SessionTypeOK, lifeVars
<1>5. MirrorsFound'
  BY <1>1, <1>2 DEF SInv, SessionInv, MirrorsFound, SessionTypeOK
<1>6. GamesInv'
  BY <1>1, <1>2, QuietGames DEF SInv, SessionInv
<1>7. IInv'
  BY <1>1, NextIInv DEF SInv
<1> QED BY <1>1, <1>4, <1>5, <1>6, <1>7 DEF SInv, SessionInv

(* A channel emptied of its mirror.                                        *)
LEMMA PostLost ==
  ASSUME SInv, NEW c \in Clients, found \subseteq found',
         posted' \in {posted, [posted EXCEPT ![c] = <<>>]},
         UNCHANGED <<published, held>>
  PROVE  posted' \in [Clients -> Seq(Post)] /\ MirrorsFound'
<1>1. posted \in [Clients -> Seq(Post)] /\ <<>> \in Seq(Post)
  BY DEF SInv, SessionInv, SessionTypeOK
<1>2. posted' \in [Clients -> Seq(Post)]
  BY <1>1
<1>3. \A d \in Clients : posted'[d] # <<>> => posted'[d] = posted[d]
  BY <1>1
<1> QED BY <1>2, <1>3 DEF SInv, SessionInv, MirrorsFound

LEMMA JoinStep ==
  ASSUME SInv, NEW c \in Clients, Join(c)
  PROVE  [Next]_vars /\ SInv'
<1>1. /\ Connect(c) /\ posted' = [posted EXCEPT ![c] = <<>>]
      /\ UNCHANGED <<worlds, published, held, silent, dropped, lifeVars>>
  BY DEF Join
<1>2. Online' = Online /\ UNCHANGED <<recorded, at, found>>
  BY <1>1 DEF Connect, Online, history, SInv, IInv, TypeOK
<1>3. [Next]_vars
  BY <1>1 DEF Next
<1>4. posted' \in [Clients -> Seq(Post)] /\ MirrorsFound'
  BY <1>1, <1>2, PostLost
<1>5. SessionTypeOK'
  BY <1>1, <1>4 DEF SInv, SessionInv, SessionTypeOK, lifeVars
<1>6. GamesInv'
  BY <1>1, <1>2, QuietGames DEF SInv, SessionInv
<1>7. IInv'
  BY <1>3, NextIInv DEF SInv
<1> QED BY <1>3, <1>4, <1>5, <1>6, <1>7 DEF SInv, SessionInv

LEMMA DropMemberStep ==
  ASSUME SInv, NEW c \in Clients, DropMember(c)
  PROVE  [Next]_vars /\ SInv'
<1>1. /\ Drop(c) /\ posted' \in {posted, [posted EXCEPT ![c] = <<>>]}
      /\ UNCHANGED <<worlds, published, held, silent, dropped, lifeVars>>
  BY DEF DropMember
<1>2. Online' = Online /\ UNCHANGED <<recorded, at, found>>
  BY <1>1 DEF Drop, Online
<1>3. [Next]_vars
  BY <1>1 DEF Next
<1>4. posted' \in [Clients -> Seq(Post)] /\ MirrorsFound'
  BY <1>1, <1>2, PostLost
<1>5. SessionTypeOK'
  BY <1>1, <1>4 DEF SInv, SessionInv, SessionTypeOK, lifeVars
<1>6. GamesInv'
  BY <1>1, <1>2, QuietGames DEF SInv, SessionInv
<1>7. IInv'
  BY <1>3, NextIInv DEF SInv
<1> QED BY <1>3, <1>4, <1>5, <1>6, <1>7 DEF SInv, SessionInv

LEMMA EnrolStep ==
  ASSUME SInv, NEW c \in Clients, Enrol(c)
  PROVE  [Next]_vars /\ SInv'
<1> USE DEF Players
<1>1. /\ status[c] = "Admitted" /\ status' = [status EXCEPT ![c] = "Connected"]
      /\ at' = [at EXCEPT ![c] = worlds[c].map]
      /\ recorded' = [recorded EXCEPT ![c] = worlds[c].marked]
      /\ found' = found \cup worlds[c].marked
      /\ UNCHANGED <<hostVars, up, down, states, missed>>
      /\ UNCHANGED worlds /\ UNCHANGED mirrorVars /\ UNCHANGED lifeVars
  BY DEF Enrol
<1>2. worlds[c].map \in Maps /\ worlds[c].marked \in SUBSET Notes
  BY DEF SInv, SessionInv, SessionTypeOK, W!World
<1>3. [Next]_vars
  <2>1. Welcome(c)
    BY <1>1, <1>2 DEF Welcome
  <2> QED BY <2>1 DEF Next
<1>4. /\ Online' = Online \cup {c} /\ found \subseteq found' /\ c # Host
      /\ recorded'[c] = worlds[c].marked /\ at'[c] = worlds[c].map
      /\ \A q \in Players : q # c => recorded'[q] = recorded[q]
      /\ \A d \in Clients : d # c => at'[d] = at[d]
  BY <1>1 DEF Online, SInv, IInv, TypeOK
<1>5. GamesInv'
  <2>1. \A p : Allowed(p)' = Allowed(p)
    BY <1>1 DEF Allowed, mirrorVars, lifeVars
  <2>2. GamesFit'
    BY <1>1, <2>1 DEF SInv, SessionInv, GamesInv, GamesFit, GameFits, mirrorVars, lifeVars
  <2>3. InStep'
    BY <1>1, <1>4 DEF SInv, SessionInv, GamesInv, InStep, Online
  <2>4. OutApart' /\ HostKnown'
    BY <1>1, <1>4 DEF SInv, SessionInv, GamesInv, OutApart, HostKnown, mirrorVars
  <2> QED BY <2>2, <2>3, <2>4 DEF GamesInv
<1>6. SessionTypeOK' /\ MirrorsFound'
  BY <1>1, <1>4, QuietMirrors DEF SInv, SessionInv, SessionTypeOK, mirrorVars, lifeVars
<1>7. IInv'
  BY <1>3, NextIInv DEF SInv
<1> QED BY <1>3, <1>5, <1>6, <1>7 DEF SInv, SessionInv

LEMMA LeaveStep ==
  ASSUME SInv, NEW c \in Clients, Leave(c)
  PROVE  [Next]_vars /\ SInv'
<1> USE DEF Players
<1> DEFINE v == IF status[c] = "Connected" THEN W!WorldReset(worlds[c]) ELSE worlds[c]
           times == IF status[c] = "Connected" THEN dropped[c] + 1 ELSE dropped[c]
<1>1. /\ Lose(c)
      /\ worlds' = [worlds EXCEPT ![c] = v]
      /\ silent' = [silent EXCEPT ![c] = {}]
      /\ dropped' = [dropped EXCEPT ![c] = times]
      /\ posted' = [posted EXCEPT ![c] = <<>>]
      /\ UNCHANGED <<published, held, lifeVars>>
  BY DEF Leave
<1>2. [Next]_vars
  BY <1>1 DEF Next
<1>3. /\ status' = [status EXCEPT ![c] = "Offline"]
      /\ at' = [at EXCEPT ![c] = NoMap]
      /\ recorded' = [recorded EXCEPT ![c] = {}]
      /\ found' = found
  BY <1>1 DEF Lose, history
<1>4. /\ Online' = Online \ {c} /\ c # Host
      /\ status[c] = "Connected" <=> c \in Online
      /\ \A q \in Players : q # c => recorded'[q] = recorded[q] /\ silent'[q] = silent[q]
                                     /\ dropped'[q] = dropped[q]
      /\ \A d \in Clients : d # c => at'[d] = at[d]
      /\ silent'[c] = {} /\ dropped'[c] = times
      /\ UNCHANGED <<saves, back, again>>
  BY <1>1, <1>3 DEF Online, SInv, IInv, TypeOK, SessionInv, SessionTypeOK, lifeVars
<1>5. dropped \in [Players -> Nat] /\ times \in Nat
  BY DEF SInv, SessionInv, SessionTypeOK
<1>6. /\ Fits(worlds[c], Allowed(c), silent[c], back[c], again[c])
      /\ Allowed(c) \in [Notes -> Nat]
  BY AllowedType DEF SInv, SessionInv, GamesInv, GamesFit, GameFits
<1>7. Fits(v, Allowed(c)', {}, back[c], again[c]) /\ Apart(v)
  <2>1. CASE status[c] = "Connected"
    <3>1. Allowed(c)' \in [Notes -> Nat] /\ \A n \in Notes : Allowed(c)'[n] = Allowed(c)[n] + 1
      BY <1>4, <1>5, <2>1 DEF Allowed
    <3>2. /\ Fits(W!WorldReset(worlds[c]), Allowed(c)', {}, back[c], again[c])
          /\ Apart(W!WorldReset(worlds[c]))
      BY <1>6, <3>1, ResetFits
    <3> QED BY <2>1, <3>2
  <2>2. CASE status[c] # "Connected"
    <3>1. Allowed(c)' = Allowed(c)
      BY <1>4, <2>2 DEF Allowed
    <3>2. Apart(worlds[c]) /\ silent[c] = {}
      BY <1>4, <2>2 DEF SInv, SessionInv, GamesInv, OutApart
    <3> QED BY <1>6, <2>2, <3>1, <3>2
  <2> QED BY <2>1, <2>2
<1> HIDE DEF v, times
<1>8. /\ worlds'[c] = v /\ \A q \in Players : q # c => worlds'[q] = worlds[q]
      /\ v \in W!World /\ worlds' \in [Players -> W!World]
  BY <1>1, <1>7 DEF SInv, SessionInv, SessionTypeOK, Fits, Sound
<1>9. GamesInv'
  <2>1. GamesFit'
    <3> SUFFICES ASSUME NEW q \in Players
                 PROVE  Fits(worlds'[q], Allowed(q)', silent'[q], back'[q], again'[q])
      BY DEF GamesFit, GameFits
    <3>1. CASE q = c
      BY <1>4, <1>7, <1>8, <3>1
    <3>2. CASE q # c
      <4>1. Allowed(q)' = Allowed(q)
        BY <1>4, <3>2 DEF Allowed
      <4> QED BY <1>4, <1>8, <3>2, <4>1 DEF SInv, SessionInv, GamesInv, GamesFit, GameFits
    <3> QED BY <3>1, <3>2
  <2>2. InStep'
    BY <1>4, <1>8 DEF SInv, SessionInv, GamesInv, InStep, Online
  <2>3. OutApart'
    BY <1>4, <1>7, <1>8 DEF SInv, SessionInv, GamesInv, OutApart
  <2>4. HostKnown'
    BY <1>3, <1>4, <1>8 DEF SInv, SessionInv, GamesInv, HostKnown
  <2> QED BY <2>1, <2>2, <2>3, <2>4 DEF GamesInv
<1>10. posted' \in [Clients -> Seq(Post)] /\ MirrorsFound'
  BY <1>1, <1>3, PostLost
<1>11. SessionTypeOK'
  BY <1>1, <1>4, <1>5, <1>8, <1>10 DEF SInv, SessionInv, SessionTypeOK
<1>12. IInv'
  BY <1>2, NextIInv DEF SInv
<1> QED BY <1>2, <1>9, <1>10, <1>11, <1>12 DEF SInv, SessionInv

LEMMA AdoptStep ==
  ASSUME SInv, NEW c \in Clients, Adopt(c)
  PROVE  [Next]_vars /\ SInv'
<1> USE DEF Players
<1>1. PICK m \in Maps, S \in SUBSET worlds[Host].taken :
        /\ worlds' = [worlds EXCEPT ![c] = W!LoadSave(worlds[c], m, S)]
        /\ at' = [at EXCEPT ![c] = m]
        /\ saves' = [saves EXCEPT ![c] = saves[c] \cup S]
        /\ back' = [back EXCEPT ![c] = IF m = worlds[c].map THEN NotesIn(m) ELSE {}]
  BY DEF Adopt, Reload
<1> DEFINE v == W!LoadSave(worlds[c], m, S)
           stood == IF m = worlds[c].map THEN NotesIn(m) ELSE {}
<1>2. /\ c \in Online /\ worlds[c].cubes /\ again' = [again EXCEPT ![c] = {}]
      /\ UNCHANGED <<hostVars, status, recorded, up, down, states, history, mirrorVars>>
  BY DEF Adopt
<1>3. S \in SUBSET Notes
  BY DEF SInv, SessionInv, SessionTypeOK, W!World
<1>4. /\ Online' = Online /\ found' = found /\ c # Host /\ at'[c] = m
      /\ recorded' = recorded /\ silent' = silent /\ dropped' = dropped
      /\ \A d \in Clients : d # c => at'[d] = at[d]
      /\ saves' \in [Players -> SUBSET Notes] /\ S \subseteq saves'[c]
      /\ back' \in [Players -> SUBSET Notes] /\ back'[c] = stood
      /\ again' \in [Players -> SUBSET Notes] /\ again'[c] = {}
      /\ \A q \in Players : q # c => OthersLife(q)
  BY <1>1, <1>2, <1>3
     DEF Online, history, mirrorVars, SInv, IInv, TypeOK, SessionInv, SessionTypeOK, NotesIn,
         OthersLife
<1>5. /\ Allowed(c)' \in [Notes -> Nat]
      /\ \A n \in S : Allowed(c)'[n] >= 1
  <2>1. dropped'[c] \in Nat
    BY <1>4 DEF SInv, SessionInv, SessionTypeOK
  <2> QED BY <1>3, <1>4, <2>1 DEF Allowed
<1>6. /\ Fits(worlds[c], Allowed(c), silent[c], back[c], again[c])
      /\ Allowed(c) \in [Notes -> Nat]
  BY AllowedType DEF SInv, SessionInv, GamesInv, GamesFit, GameFits
<1>7. /\ Fits(v, Allowed(c)', silent[c], stood, {})
      /\ v.map = m /\ v.marked = worlds[c].marked
  <2> DEFINE more == Allowed(c)'
  <2>1. Sound(worlds[c], back[c]) /\ more \in [Notes -> Nat] /\ \A n \in S : more[n] >= 1
    BY <1>5, <1>6 DEF Fits
  <2> HIDE DEF more
  <2>2. v = W!LoadSave(worlds[c], m, S) /\ (m = worlds[c].map => NotesIn(m) \subseteq stood)
    OBVIOUS
  <2> HIDE DEF v, stood
  <2>3. /\ Fits(v, more, silent[c], stood, {})
        /\ v.map = m /\ v.marked = worlds[c].marked
    <3>1. worlds[c].cubes = TRUE
      BY <1>2 DEF SInv, SessionInv, SessionTypeOK, W!World
    <3>2. m \in Maps /\ S \in SUBSET Notes
      BY <1>3
    <3>3. \A n \in S : more[n] >= 1
      BY <2>1
    <3>4. more \in [Notes -> Nat]
      BY <2>1
    <3>5. Sound(worlds[c], back[c])
      BY <2>1
    <3> QED BY <3>1, <3>2, <3>3, <3>4, <3>5, <2>2, AdoptFits, SMTT(60)
  <2> QED BY <2>3 DEF more
<1> HIDE DEF v, stood
<1>8. [Next]_vars
  <2>1. CASE at[c] # m
    <3>1. Move(c, m)
      BY <1>1, <1>2, <2>1 DEF Move, Online
    <3> QED BY <3>1 DEF Next
  <2>2. CASE at[c] = m
    <3>1. at' = at
      BY <1>1, <2>2 DEF SInv, IInv, TypeOK
    <3> QED BY <1>2, <3>1 DEF vars, hostVars, history
  <2> QED BY <2>1, <2>2
<1>9. worlds' \in [Players -> W!World] /\ GamesInv'
  <2>1. recorded'[c] = v.marked /\ at'[c] = v.map
    BY <1>2, <1>4, <1>7 DEF SInv, SessionInv, GamesInv, InStep
  <2>2. Fits(v, Allowed(c)', silent'[c], back'[c], again'[c])
    BY <1>4, <1>7
  <2>3. worlds' = [worlds EXCEPT ![c] = v]
    BY <1>1 DEF v
  <2> QED BY <1>2, <1>4, <2>1, <2>2, <2>3, OneGame
<1>10. SessionTypeOK' /\ MirrorsFound'
  BY <1>2, <1>4, <1>9, QuietMirrors DEF SInv, SessionInv, SessionTypeOK, mirrorVars
<1>11. IInv'
  BY <1>8, NextIInv DEF SInv
<1> QED BY <1>8, <1>9, <1>10, <1>11 DEF SInv, SessionInv

LEMMA SessionStep == SInv /\ [SessionNext]_sessionVars => [Next]_vars /\ SInv'
<1> SUFFICES ASSUME SInv, [SessionNext]_sessionVars PROVE [Next]_vars /\ SInv'
  OBVIOUS
<1>1. CASE UNCHANGED sessionVars
  <2>1. UNCHANGED vars /\ UNCHANGED <<worlds, mirrorVars, lifeVars, recorded, at, found, status>>
    BY <1>1 DEF sessionVars, vars, mirrorVars, lifeVars
  <2> QED BY <2>1, RelayStepInv DEF Online
<1>2. CASE HostFrame
  BY <1>2, HostFrameStep
<1>3. CASE BroadcastMirror
  BY <1>3, BroadcastStep
<1>4. ASSUME NEW p \in Players, Adjudicate(p), UNCHANGED <<worlds, mirrorVars, lifeVars>>
      PROVE  [Next]_vars /\ SInv'
  <2>1. [Next]_vars
    BY <1>4 DEF Next
  <2>2. Online' = Online /\ UNCHANGED <<recorded, at, found>>
    BY <1>4 DEF Adjudicate, Online, history
  <2> QED BY <1>4, <2>1, <2>2, RelayStepInv
<1>5. ASSUME NEW p \in Players, NEW m \in Maps, WalkTo(p, m)
      PROVE  [Next]_vars /\ SInv'
  BY <1>5, WalkToStep
<1>6. ASSUME NEW p \in Players, NEW n \in Notes, PickUp(p, n)
      PROVE  [Next]_vars /\ SInv'
  BY <1>6, PickUpStep
<1>7. ASSUME NEW c \in Clients,
             \/ ClientFrame(c) \/ AloneFrame(c) \/ ReceiveMirror(c) \/ Adopt(c)
             \/ Join(c) \/ Enrol(c) \/ Leave(c) \/ DropMember(c)
      PROVE  [Next]_vars /\ SInv'
  BY <1>7, ClientFrameStep, AloneFrameStep, ReceiveMirrorStep, JoinStep, EnrolStep,
     LeaveStep, DropMemberStep, AdoptStep
<1>8. ASSUME NEW c \in Clients, Admit(c) \/ Refuse(c) \/ SendState(c),
             UNCHANGED <<worlds, mirrorVars, lifeVars>>
      PROVE  [Next]_vars /\ SInv'
  <2>1. [Next]_vars
    BY <1>8 DEF Next
  <2>2. Online' = Online /\ UNCHANGED <<recorded, at, found>>
    BY <1>8 DEF Admit, Refuse, SendState, Online, history, SInv, IInv, TypeOK
  <2> QED BY <1>8, <2>1, <2>2, RelayStepInv
<1>9. ASSUME NEW c \in Clients, NEW m \in Maps, ReceiveState(c, m),
             UNCHANGED <<worlds, mirrorVars, lifeVars>>
      PROVE  [Next]_vars /\ SInv'
  <2>1. [Next]_vars
    BY <1>9 DEF Next
  <2>2. Online' = Online /\ UNCHANGED <<recorded, at, found>>
    BY <1>9 DEF ReceiveState, Online
  <2> QED BY <1>9, <2>1, <2>2, RelayStepInv
<1> QED BY <1>1, <1>2, <1>3, <1>4, <1>5, <1>6, <1>7, <1>8, <1>9 DEF SessionNext

LEMMA SessionInvariance == SessionSpec => []SInv
<1>1. SInv /\ [SessionNext]_sessionVars => SInv'
  BY SessionStep
<1> QED BY SessionInitInv, <1>1, PTL DEF SessionSpec

-----------------------------------------------------------------------------
(* The results about the session.                                          *)

(***************************************************************************)
(* Composed with real games, the transport is still that of NoteRelay:     *)
(* what world_apply, the hooks, the resets, deaths and the loading of a    *)
(* save do to a record is what the relay takes a frame, a pickup, a move,  *)
(* a WELCOME and a loss to do, or nothing.                                 *)
(***************************************************************************)
THEOREM SessionRefinesRelay == SessionSpec => ImplementsRelay
<1>1. SessionInit => Init
  BY SessionInitInv
<1>2. SInv /\ [SessionNext]_sessionVars => [Next]_vars
  BY SessionStep
<1> QED BY <1>1, <1>2, SessionInvariance, PTL DEF SessionSpec, Spec, ImplementsRelay

(***************************************************************************)
(* A decided note that stands in front of a player the host has seen       *)
(* arrive is on its way to that player, or stands again since the player   *)
(* died there (world_apply.c:273-276, transport.cpp:262-273,               *)
(* world_sync.c:62-65).                                                    *)
(***************************************************************************)
THEOREM NoDoubleCollects == SessionSpec => []NoteGoneOrOnItsWay
<1>1. SInv => NoteGoneOrOnItsWay
  <2> USE DEF Players
  <2> SUFFICES ASSUME SInv, NEW p \in Online, Present(p)
               PROVE  worlds[p].alive \cap registry \subseteq ToSet(down[p]) \cup back[p]
    BY DEF NoteGoneOrOnItsWay
  <2>1. p \in Players /\ (p # Host => p \in peers /\ seen[p] = worlds[p].map)
    BY DEF Online, Present
  <2>2. /\ worlds[p] \in W!World /\ worlds[p].alive \subseteq NotesIn(worlds[p].map)
        /\ worlds[p].alive \cap worlds[p].marked \subseteq back[p]
        /\ recorded[p] = worlds[p].marked
    BY <2>1 DEF SInv, SessionInv, GamesInv, GamesFit, GameFits, InStep, Fits, Sound
  <2>3. CASE p = Host
    BY <2>2, <2>3 DEF SInv, IInv, HostMissesNone
  <2>4. CASE p # Host
    <3>1. seen[p] # NoMap /\ p \in peers \cap Online /\ seen[p] = worlds[p].map
      BY <2>1, <2>2, <2>4 DEF W!World
    <3>2. /\ registry \ missed[p] \subseteq recorded[p] \cup ToSet(down[p])
          /\ missed[p] \cap NotesIn(worlds[p].map) = {}
      BY <3>1 DEF SInv, IInv, CaughtUp
    <3> QED BY <2>2, <3>2
  <2> QED BY <2>3, <2>4
<1> QED BY <1>1, SessionInvariance, PTL

(***************************************************************************)
(* A counter holds a note once, and once more for a save that had it, for  *)
(* every connection lost and for picking it up again after a death,        *)
(* whatever claims, snapshots and mirrors cross on the way                 *)
(* (world_apply.c:253-254).                                                *)
(***************************************************************************)
THEOREM CountedOnce == SessionSpec => []CountedAtMostOnce
<1>1. SInv => CountedAtMostOnce
  <2> SUFFICES ASSUME SInv, NEW p \in Players, NEW n \in Notes
               PROVE  worlds[p].credit[n] <=
                        1 + dropped[p] + (IF n \in saves[p] THEN 1 ELSE 0)
                          + (IF n \in again[p] THEN 1 ELSE 0)
    BY DEF CountedAtMostOnce
  <2>1. /\ worlds[p].credit[n] \in Nat /\ dropped[p] \in Nat
        /\ worlds[p].credit[n] <=
             Allowed(p)[n] + Marked(worlds[p], n) + Again(again[p], n)
    BY DEF SInv, SessionInv, SessionTypeOK, GamesInv, GamesFit, GameFits, Fits, Within, W!World
  <2>2. Allowed(p)[n] = dropped[p] + (IF n \in saves[p] THEN 1 ELSE 0)
    BY DEF Allowed
  <2> QED BY <2>1, <2>2 DEF Marked, Again
<1> QED BY <1>1, SessionInvariance, PTL

(***************************************************************************)
(* With no recount due, a counter is never below the number of recorded    *)
(* notes of its level, but for those only a mirror told of: pickups,       *)
(* deliveries, recounts, level changes and lost connections included       *)
(* (grant_note, run_pending_recount).                                      *)
(***************************************************************************)
THEOREM CounterCoversRecord == SessionSpec => []CounterShowsTotal
<1>1. SInv => CounterShowsTotal
  <2> SUFFICES ASSUME SInv, NEW p \in Online, ~worlds[p].recount
               PROVE  W!Counter(worlds[p]) >= Cardinality(CountableNotes(p))
    BY DEF CounterShowsTotal
  <2>1. p \in Players
    BY DEF Online, Players
  <2>2. /\ worlds[p] \in W!World /\ recorded[p] = worlds[p].marked
        /\ Total(worlds[p]) >= Cardinality(Here(worlds[p], worlds[p].marked \ silent[p]))
    BY <2>1 DEF SInv, SessionInv, GamesInv, GamesFit, GameFits, InStep, Fits, Sound, Covers
  <2>3. CountableNotes(p) = Here(worlds[p], worlds[p].marked \ silent[p])
    BY <2>2 DEF CountableNotes, Here
  <2> QED BY <2>2, <2>3, CounterIsTotal
<1> QED BY <1>1, SessionInvariance, PTL

(* The state of the session is always of its type.                         *)
THEOREM SessionTypeCorrect == SessionSpec => []SessionTypeOK
<1>1. SInv => SessionTypeOK
  BY DEF SInv, SessionInv
<1> QED BY <1>1, SessionInvariance, PTL
=============================================================================

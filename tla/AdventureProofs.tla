-------------------------- MODULE AdventureProofs ---------------------------
(***************************************************************************)
(* Proofs about Adventure, for any number of players, maps, enemies and    *)
(* positions of switches, any room on the way and any number of hits and   *)
(* settings.                                                               *)
(*                                                                         *)
(* The first part is about the operators of the frame hook and takes a     *)
(* frame apart: the game after each of the messages it takes (FrameOf),    *)
(* what it says and what it leaves.  Then come the invariants:             *)
(*   - Core: types, figures, and the hits under way, of which no more were *)
(*     dealt;                                                              *)
(*   - Routes: what is on the way is about the map of those who stay, and  *)
(*     the host knows where they are;                                      *)
(*   - SwitchesInv: where a switch lands once all that is on its way is    *)
(*     taken;                                                              *)
(*   - RoundInv: what is on its way makes every round the host's;          *)
(*   - FightInv: hits are conserved from who deals them to who takes them, *)
(*     and no death is announced before the hits that kill;                *)
(*   - CarryInv: a carrier's last word about whom it does not carry is the *)
(*     put-down.                                                           *)
(* Each is kept by every step given those before it (Core and Routes), and *)
(* the properties of Adventure follow.                                     *)
(***************************************************************************)
EXTENDS Adventure, SeqSetLemmas

-----------------------------------------------------------------------------
(* Events and records.                                                     *)

LEMMA Sorts ==
  /\ IsFiniteSet(Players) /\ Host \in Players /\ Clients \subseteq Players
  /\ Host \notin Clients /\ Nobody \notin Players /\ Nobody \notin Maps
  /\ Stayers \subseteq Players
<1>1. IsFiniteSet(Clients \cup {Host})
  BY CompanyAssumption, FS_AddElement
<1>2. Players = Clients \cup {Host}
  BY DEF Players
<1> QED BY <1>1, <1>2, CompanyAssumption DEF Stayers

LEMMA EventData ==
  ASSUME NEW e \in Events
  PROVE  /\ e.kind \in {"CARRY", "MODE", "HIT", "DEAD"} \cup Kinds
         /\ e.kind # "MODE" => e.map \in Maps
         /\ e.kind = "CARRY" => e.a \in Players /\ e.b \in BOOLEAN
         /\ e.kind = "MODE" /\ e.a = "START" => e.b \in Modes
         /\ e.kind = "MODE" /\ e.a = "FOUND" => e.b \in Players
         /\ e.kind \in {"HIT", "DEAD"} =>
              e.a \in Ids /\ e = Event(e.kind, e.map, e.a, Nobody)
         /\ e.kind \in Kinds => e.a \in Positions
BY DEF Events, Kinds, Event

LEMMA EventsAre ==
  /\ \A m \in Maps, q \in Players, on \in BOOLEAN : Report(m, q, on) \in Events
  /\ \A b \in Modes : RoundEvent("START", b) \in Events
  /\ \A q \in Players : RoundEvent("FOUND", q) \in Events
  /\ RoundEvent("END", Nobody) \in Events
  /\ \A m \in Maps, i \in Ids : /\ Event("HIT", m, i, Nobody) \in Events
                                /\ Event("DEAD", m, i, Nobody) \in Events
  /\ \A k \in Kinds, m \in Maps, v \in Positions : Event(k, m, v, Nobody) \in Events
BY DEF Events, Event, Report, RoundEvent

LEMMA ApplyCarryType ==
  ASSUME NEW c \in CarryRecords, NEW p, NEW from \in Players, NEW e
  PROVE  ApplyCarry(c, p, from, e) \in CarryRecords
BY DEF ApplyCarry, CarryRecords

LEMMA ModesApplyType ==
  ASSUME NEW r \in RoundRecords, NEW e \in Events
  PROVE  ModesApply(r, e) \in RoundRecords
<1>1. 0 \in 0 .. HeadStart
  BY RoundsAssumption
<1>2. CASE e.kind = "MODE" /\ e.a = "START"
  BY <1>1, <1>2, EventData DEF ModesApply, RoundRecords
<1>3. CASE e.kind = "MODE" /\ e.a = "FOUND"
  BY <1>3, EventData DEF ModesApply, RoundRecords
<1>4. CASE e.kind = "MODE" /\ e.a = "END"
  BY <1>4 DEF ModesApply, RoundRecords
<1>5. CASE ~(e.kind = "MODE" /\ e.a \in {"START", "FOUND", "END"})
  BY <1>5 DEF ModesApply
<1> QED BY <1>2, <1>3, <1>4, <1>5

LEMMA DamageType ==
  ASSUME NEW e \in EnemyRecords, NEW i \in Ids
  PROVE  Damage(e, i) \in EnemyRecords
<1>1. (IF e.hp[i] > 0 THEN e.hp[i] - 1 ELSE 0) \in 0 .. MaxHp
  BY EnemiesAssumption DEF EnemyRecords
<1> QED BY <1>1 DEF Damage, EnemyRecords

LEMMA ApplyFightType ==
  ASSUME NEW e \in EnemyRecords, NEW m, NEW ev \in Events
  PROVE  ApplyFight(e, m, ev) \in EnemyRecords
<1>1. CASE ev.kind = "HIT" /\ ev.map = m
  BY <1>1, EventData, DamageType DEF ApplyFight
<1>2. CASE ev.kind = "DEAD" /\ ev.map = m
  BY <1>2, EventData DEF ApplyFight, EnemyRecords
<1>3. CASE ~(ev.kind \in {"HIT", "DEAD"} /\ ev.map = m)
  BY <1>3 DEF ApplyFight
<1> QED BY <1>1, <1>2, <1>3

LEMMA ApplySwitchType ==
  ASSUME NEW s \in SwitchRecords, NEW m, NEW e \in Events
  PROVE  ApplySwitch(s, m, e) \in SwitchRecords
BY EventData DEF ApplySwitch, SwitchRecords

-----------------------------------------------------------------------------
(* Events applied one after the other.                                     *)

Games == [carry : CarryRecords, round : RoundRecords,
          enemies : EnemyRecords, switches : SwitchRecords]

LEMMA ApplyEventType ==
  ASSUME NEW g \in Games, NEW p, NEW m, NEW d \in Messages
  PROVE  ApplyEvent(g, p, m, d) \in Games
<1>1. d.from \in Players /\ d.event \in Events
  BY DEF Messages
<1>2. /\ g.carry \in CarryRecords /\ g.round \in RoundRecords
      /\ g.enemies \in EnemyRecords /\ g.switches \in SwitchRecords
  BY DEF Games
<1>3. /\ ApplyCarry(g.carry, p, d.from, d.event) \in CarryRecords
      /\ ModesApply(g.round, d.event) \in RoundRecords
      /\ ApplyFight(g.enemies, m, d.event) \in EnemyRecords
      /\ ApplySwitch(g.switches, m, d.event) \in SwitchRecords
  BY <1>1, <1>2, ApplyCarryType, ModesApplyType, ApplyFightType, ApplySwitchType
<1> QED BY <1>3 DEF ApplyEvent, Games

(* h[i] is what the game g has become after the first i of a queue.        *)
InTurn(h, g, p, m, queue) ==
  /\ h \in [0 .. Len(queue) -> Games]
  /\ h[0] = g
  /\ \A i \in 1 .. Len(queue) : h[i] = ApplyEvent(h[i - 1], p, m, queue[i])
  /\ h[Len(queue)] = ApplyAll(g, p, m, queue)

LEMMA ApplyAllInTurn ==
  ASSUME NEW g \in Games, NEW p, NEW m, NEW queue \in Seq(Messages)
  PROVE  \E h : InTurn(h, g, p, m, queue)
<1> DEFINE n == Len(queue)
           step == [i \in 1 .. n |-> [x \in Games |-> ApplyEvent(x, p, m, queue[i])]]
           fold == CHOOSE f : f = [T \in SUBSET (1 .. n) |->
                     IF T = {} THEN g
                     ELSE ApplyEvent(f[T \ {Max(T)}], p, m, queue[Max(T)])]
           h == [i \in 0 .. n |-> fold[1 .. i]]
<1>1. n \in Nat /\ DOMAIN queue = 1 .. n /\ \A i \in 1 .. n : queue[i] \in Messages
  OBVIOUS
<1>2. step \in [1 .. n -> [Games -> Games]]
  BY <1>1, ApplyEventType
<1>3. ApplyAll(g, p, m, queue) = fold[1 .. n]
  BY <1>1 DEF ApplyAll, FoldLeft, MapThenFoldSet
<1>4. fold = [T \in SUBSET (1 .. n) |->
                IF T = {} THEN g
                ELSE ApplyEvent(fold[T \ {Max(T)}], p, m, queue[Max(T)])]
  <2> HIDE DEF n
  <2>1. PICK f : FoldsSteps(f, n, Games, g, step)
    <3> HIDE DEF step
    <3> QED BY <1>1, <1>2, FoldDefined
  <2>2. \A T \in SUBSET (1 .. n) : T # {} =>
          step[Max(T)][f[T \ {Max(T)}]] = ApplyEvent(f[T \ {Max(T)}], p, m, queue[Max(T)])
    <3> SUFFICES ASSUME NEW T \in SUBSET (1 .. n), T # {}
                 PROVE  step[Max(T)][f[T \ {Max(T)}]]
                          = ApplyEvent(f[T \ {Max(T)}], p, m, queue[Max(T)])
      OBVIOUS
    <3>1. Max(T) \in 1 .. n
      BY <1>1, HighestNumber
    <3>2. f[T \ {Max(T)}] \in Games
      BY <2>1 DEF FoldsSteps
    <3> QED BY <3>1, <3>2
  <2>3. f = [T \in SUBSET (1 .. n) |->
               IF T = {} THEN g
               ELSE ApplyEvent(f[T \ {Max(T)}], p, m, queue[Max(T)])]
    BY <2>1, <2>2 DEF FoldsSteps
  <2> QED BY <2>3
<1> HIDE DEF fold, step
<1>5. h[0] = g
  BY <1>1, <1>4
<1>6. \A i \in 1 .. n : h[i] = ApplyEvent(h[i - 1], p, m, queue[i])
  <2> SUFFICES ASSUME NEW i \in 1 .. n
               PROVE  fold[1 .. i] = ApplyEvent(fold[1 .. i - 1], p, m, queue[i])
    BY <1>1
  <2>1. Max(1 .. i) = i /\ (1 .. i) \ {Max(1 .. i)} = 1 .. i - 1
    BY <1>1, TopOfInterval
  <2>2. 1 .. i \in SUBSET (1 .. n) /\ 1 .. i # {}
    <3>1. 1 \in 1 .. i /\ \A j \in 1 .. i : j \in 1 .. n
      BY <1>1
    <3> QED BY <3>1
  <2> QED BY <1>4, <2>1, <2>2
<1>7. h[n] = ApplyAll(g, p, m, queue)
  BY <1>1, <1>3
<1> DEFINE good == {i \in 0 .. n : h[i] \in Games}
<1> HIDE DEF h
<1>8. 0 .. n \subseteq good
  <2>1. 0 \in good
    BY <1>1, <1>5
  <2>2. \A i \in 1 .. n : i - 1 \in good => i \in good
    BY <1>1, <1>6, ApplyEventType
  <2> HIDE DEF good, n
  <2> QED BY <1>1, <2>1, <2>2, Counting
<1>9. h \in [0 .. n -> Games]
  BY <1>8 DEF h
<1> QED BY <1>5, <1>6, <1>7, <1>9 DEF InTurn

(* What a round becomes by the events told about it.                       *)
Played(r, events) == FoldLeft(ModesApply, r, events)

PlayedInTurn(h, r, events) ==
  /\ h \in [0 .. Len(events) -> RoundRecords]
  /\ h[0] = r
  /\ \A i \in 1 .. Len(events) : h[i] = ModesApply(h[i - 1], events[i])
  /\ h[Len(events)] = Played(r, events)

LEMMA PlayedTrace ==
  ASSUME NEW r \in RoundRecords, NEW events \in Seq(Events)
  PROVE  \E h : PlayedInTurn(h, r, events)
<1> DEFINE n == Len(events)
           step == [i \in 1 .. n |-> [x \in RoundRecords |-> ModesApply(x, events[i])]]
           fold == CHOOSE f : f = [T \in SUBSET (1 .. n) |->
                     IF T = {} THEN r
                     ELSE ModesApply(f[T \ {Max(T)}], events[Max(T)])]
           h == [i \in 0 .. n |-> fold[1 .. i]]
<1>1. n \in Nat /\ DOMAIN events = 1 .. n /\ \A i \in 1 .. n : events[i] \in Events
  OBVIOUS
<1>2. step \in [1 .. n -> [RoundRecords -> RoundRecords]]
  BY <1>1, ModesApplyType
<1>3. Played(r, events) = fold[1 .. n]
  BY <1>1 DEF Played, FoldLeft, MapThenFoldSet
<1>4. fold = [T \in SUBSET (1 .. n) |->
                IF T = {} THEN r
                ELSE ModesApply(fold[T \ {Max(T)}], events[Max(T)])]
  <2> HIDE DEF n
  <2>1. PICK f : FoldsSteps(f, n, RoundRecords, r, step)
    <3> HIDE DEF step
    <3> QED BY <1>1, <1>2, FoldDefined
  <2>2. \A T \in SUBSET (1 .. n) : T # {} =>
          step[Max(T)][f[T \ {Max(T)}]] = ModesApply(f[T \ {Max(T)}], events[Max(T)])
    <3> SUFFICES ASSUME NEW T \in SUBSET (1 .. n), T # {}
                 PROVE  step[Max(T)][f[T \ {Max(T)}]]
                          = ModesApply(f[T \ {Max(T)}], events[Max(T)])
      OBVIOUS
    <3>1. Max(T) \in 1 .. n
      BY <1>1, HighestNumber
    <3>2. f[T \ {Max(T)}] \in RoundRecords
      BY <2>1 DEF FoldsSteps
    <3> QED BY <3>1, <3>2
  <2>3. f = [T \in SUBSET (1 .. n) |->
               IF T = {} THEN r ELSE ModesApply(f[T \ {Max(T)}], events[Max(T)])]
    BY <2>1, <2>2 DEF FoldsSteps
  <2> QED BY <2>3
<1> HIDE DEF fold, step
<1>5. h[0] = r
  BY <1>1, <1>4
<1>6. \A i \in 1 .. n : h[i] = ModesApply(h[i - 1], events[i])
  <2> SUFFICES ASSUME NEW i \in 1 .. n
               PROVE  fold[1 .. i] = ModesApply(fold[1 .. i - 1], events[i])
    BY <1>1
  <2>1. Max(1 .. i) = i /\ (1 .. i) \ {Max(1 .. i)} = 1 .. i - 1
    BY <1>1, TopOfInterval
  <2>2. 1 .. i \in SUBSET (1 .. n) /\ 1 .. i # {}
    <3>1. 1 \in 1 .. i /\ \A j \in 1 .. i : j \in 1 .. n
      BY <1>1
    <3> QED BY <3>1
  <2> QED BY <1>4, <2>1, <2>2
<1>7. h[n] = Played(r, events)
  BY <1>1, <1>3
<1> DEFINE good == {i \in 0 .. n : h[i] \in RoundRecords}
<1> HIDE DEF h
<1>8. 0 .. n \subseteq good
  <2>1. 0 \in good
    BY <1>1, <1>5
  <2>2. \A i \in 1 .. n : i - 1 \in good => i \in good
    BY <1>1, <1>6, ModesApplyType
  <2> HIDE DEF good, n
  <2> QED BY <1>1, <2>1, <2>2, Counting
<1>9. h \in [0 .. n -> RoundRecords]
  BY <1>8 DEF h
<1> QED BY <1>5, <1>6, <1>7, <1>9 DEF PlayedInTurn

LEMMA PlayedType ==
  ASSUME NEW r \in RoundRecords, NEW events \in Seq(Events)
  PROVE  Played(r, events) \in RoundRecords
<1>1. PICK h : PlayedInTurn(h, r, events)
  BY PlayedTrace
<1>2. Len(events) \in 0 .. Len(events)
  OBVIOUS
<1> QED BY <1>1, <1>2 DEF PlayedInTurn

(* Playing on: what comes after is played from what came before.           *)
LEMMA PlayedConcat ==
  ASSUME NEW r \in RoundRecords, NEW s \in Seq(Events), NEW t \in Seq(Events)
  PROVE  Played(r, s \o t) = Played(Played(r, s), t)
<1> DEFINE u == s \o t
           a == Len(s)
           b == Len(t)
<1>1. /\ u \in Seq(Events) /\ Len(u) = a + b /\ a \in Nat /\ b \in Nat
      /\ \A i \in 1 .. a : u[i] = s[i] /\ i \in 1 .. a + b
      /\ \A i \in 1 .. b : u[a + i] = t[i] /\ a + i \in 1 .. a + b
  OBVIOUS
<1>2. PICK f : PlayedInTurn(f, r, s)
  BY PlayedTrace
<1>3. PICK g : PlayedInTurn(g, Played(r, s), t)
  BY PlayedTrace, PlayedType
<1>4. PICK h : PlayedInTurn(h, r, u)
  BY <1>1, PlayedTrace
<1> HIDE DEF u, a, b
<1>5. /\ f[0] = r /\ f[a] = Played(r, s)
      /\ \A i \in 1 .. a : f[i] = ModesApply(f[i - 1], s[i])
  BY <1>2 DEF PlayedInTurn, a
<1>6. /\ g[0] = Played(r, s) /\ g[b] = Played(Played(r, s), t)
      /\ \A i \in 1 .. b : g[i] = ModesApply(g[i - 1], t[i])
  BY <1>3 DEF PlayedInTurn, b
<1>7. /\ h[0] = r /\ h[a + b] = Played(r, u)
      /\ \A i \in 1 .. a + b : h[i] = ModesApply(h[i - 1], u[i])
  BY <1>1, <1>4 DEF PlayedInTurn
<1>8. h[a] = f[a]
  <2> DEFINE good == {i \in 0 .. a : h[i] = f[i]}
  <2>1. 0 \in good
    BY <1>1, <1>5, <1>7
  <2>2. \A i \in 1 .. a : i - 1 \in good => i \in good
    BY <1>1, <1>5, <1>7
  <2> HIDE DEF good
  <2>3. 0 .. a \subseteq good
    BY <1>1, <2>1, <2>2, Counting
  <2>4. a \in good
    BY <1>1, <2>3
  <2> QED BY <2>4 DEF good
<1>9. h[a + b] = g[b]
  <2> DEFINE good == {i \in 0 .. b : h[a + i] = g[i]}
  <2>1. 0 \in good
    BY <1>1, <1>5, <1>6, <1>8
  <2>2. \A i \in 1 .. b : i - 1 \in good => i \in good
    <3> SUFFICES ASSUME NEW i \in 1 .. b, h[a + (i - 1)] = g[i - 1]
                 PROVE  h[a + i] = g[i]
      BY <1>1
    <3>1. a + i \in 1 .. a + b /\ (a + i) - 1 = a + (i - 1) /\ u[a + i] = t[i]
      BY <1>1
    <3>2. h[a + i] = ModesApply(h[(a + i) - 1], u[a + i])
      BY <1>7, <3>1
    <3>3. g[i] = ModesApply(g[i - 1], t[i])
      BY <1>6
    <3> QED BY <3>1, <3>2, <3>3
  <2> HIDE DEF good
  <2>3. 0 .. b \subseteq good
    BY <1>1, <2>1, <2>2, Counting
  <2>4. b \in good
    BY <1>1, <2>3
  <2> QED BY <2>4 DEF good
<1> QED BY <1>6, <1>7, <1>9 DEF u

LEMMA PlayedNothing ==
  ASSUME NEW r \in RoundRecords
  PROVE  Played(r, <<>>) = r
<1>1. <<>> \in Seq(Events) /\ Len(<<>>) = 0
  OBVIOUS
<1>2. PICK h : PlayedInTurn(h, r, <<>>)
  BY <1>1, PlayedTrace
<1> QED BY <1>1, <1>2 DEF PlayedInTurn

LEMMA PlayedOne ==
  ASSUME NEW r \in RoundRecords, NEW e \in Events
  PROVE  Played(r, <<e>>) = ModesApply(r, e)
<1>1. <<e>> \in Seq(Events) /\ Len(<<e>>) = 1 /\ <<e>>[1] = e
  OBVIOUS
<1>2. PICK h : PlayedInTurn(h, r, <<e>>)
  BY <1>1, PlayedTrace
<1>3. h[0] = r /\ h[1] = Played(r, <<e>>) /\ h[1] = ModesApply(h[1 - 1], e)
  BY <1>1, <1>2 DEF PlayedInTurn
<1> QED BY <1>3

(* Events that are not about a round leave it alone.                       *)
LEMMA PlayedOther ==
  ASSUME NEW r \in RoundRecords, NEW events \in Seq(Events),
         \A i \in 1 .. Len(events) : events[i].kind # "MODE"
  PROVE  Played(r, events) = r
<1>1. PICK h : PlayedInTurn(h, r, events)
  BY PlayedTrace
<1> DEFINE n == Len(events)
           good == {i \in 0 .. n : h[i] = r}
<1>2. n \in Nat
  OBVIOUS
<1>3. 0 \in good
  BY <1>1, <1>2 DEF PlayedInTurn
<1>4. \A i \in 1 .. n : i - 1 \in good => i \in good
  <2> SUFFICES ASSUME NEW i \in 1 .. n, h[i - 1] = r
               PROVE  h[i] = r
    BY <1>2
  <2>1. h[i] = ModesApply(r, events[i])
    BY <1>1 DEF PlayedInTurn
  <2>2. events[i].kind # "MODE"
    OBVIOUS
  <2> QED BY <2>1, <2>2 DEF ModesApply
<1> HIDE DEF good
<1>5. 0 .. n \subseteq good
  BY <1>2, <1>3, <1>4, Counting
<1>6. n \in good
  BY <1>2, <1>5
<1> QED BY <1>1, <1>6 DEF PlayedInTurn, good

-----------------------------------------------------------------------------
(* What a frame makes of a player's records, and what it says.             *)

(* Events, all of one kind.                                                *)
AllOf(kind, events) ==
  /\ events \in Seq(Events)
  /\ \A i \in 1 .. Len(events) : events[i].kind = kind

LEMMA OneEvent ==
  ASSUME NEW e
  PROVE  \A i \in 1 .. Len(<<e>>) : <<e>>[i] = e
OBVIOUS

LEMMA AllOfFew ==
  /\ \A kind : AllOf(kind, <<>>)
  /\ \A kind, e : e \in Events /\ e.kind = kind => AllOf(kind, <<e>>)
<1>1. \A kind : AllOf(kind, <<>>)
  BY DEF AllOf
<1>2. ASSUME NEW kind, NEW e \in Events, e.kind = kind
      PROVE  AllOf(kind, <<e>>)
  <2>1. <<e>> \in Seq(Events) /\ Len(<<e>>) = 1 /\ <<e>>[1] = e
    OBVIOUS
  <2> QED BY <1>2, <2>1 DEF AllOf
<1> QED BY <1>1, <1>2

(* The enemies that have died in map m since e was recorded.               *)
Missing(e, m) ==
  ForMap(e, m).listed \ (Standing(ForMap(e, m)) \cup ForMap(e, m).dead)

LEMMA ForMapIs ==
  ASSUME NEW e \in EnemyRecords, NEW m \in Maps
  PROVE  /\ ForMap(e, m) \in EnemyRecords
         /\ ForMap(e, m).hp = e.hp /\ ForMap(e, m).tracked = m
         /\ ForMap(e, m).dead = IF m = e.tracked THEN e.dead ELSE {}
         /\ ForMap(e, m).listed = IF m = e.tracked THEN e.listed ELSE {}
<1>1. CASE m = e.tracked
  BY <1>1 DEF ForMap
<1>2. CASE m # e.tracked
  BY <1>2 DEF ForMap, EnemyReset, EnemyRecords
<1> QED BY <1>1, <1>2

LEMMA EnemySyncIs ==
  ASSUME NEW e \in EnemyRecords, NEW m \in Maps
  PROVE  LET now == ForMap(e, m)
             out == EnemySync(e, m)
         IN /\ out.enemies \in EnemyRecords
            /\ out.enemies.dead = now.dead \cup Missing(e, m)
            /\ out.enemies.listed = Standing(now)
            /\ out.enemies.tracked = m
            /\ \A i \in Ids : out.enemies.hp[i] = IF i \in now.dead THEN 0 ELSE now.hp[i]
            /\ AllOf("DEAD", out.says)
            /\ ToSet(out.says) = {Event("DEAD", m, i, Nobody) : i \in Missing(e, m)}
<1> DEFINE now == ForMap(e, m)
           gone == Missing(e, m)
           news == {Event("DEAD", m, i, Nobody) : i \in gone}
           out == EnemySync(e, m)
<1>1. now \in EnemyRecords /\ now.tracked = m
  BY ForMapIs
<1>2. gone \in SUBSET Ids
  BY <1>1 DEF Missing, EnemyRecords
<1>3. Standing(now) \in SUBSET Ids
  BY DEF Standing
<1>4. out.enemies = [now EXCEPT !.hp = [i \in Ids |-> IF i \in now.dead THEN 0 ELSE @[i]],
                                !.dead = @ \cup gone,
                                !.listed = Standing(now)]
  BY DEF EnemySync, Missing
<1>5. out.says = SetToSeq(news)
  BY DEF EnemySync, Missing
<1>6. IsFiniteSet(news)
  <2> DEFINE f == [i \in gone |-> Event("DEAD", m, i, Nobody)]
  <2>1. IsFiniteSet(gone)
    BY <1>2, EnemiesAssumption, FS_Subset
  <2>2. f \in Surjection(gone, news)
    BY DEF Surjection
  <2> QED BY <2>1, <2>2, FS_Surjection
<1>7. news \subseteq Events /\ \A x \in news : x.kind = "DEAD"
  <2>1. \A i \in gone : Event("DEAD", m, i, Nobody) \in Events
    BY <1>2, EventsAre
  <2> HIDE DEF gone
  <2> QED BY <2>1 DEF Event
<1>8. out.says \in Seq(news) /\ ToSet(out.says) = news
  BY <1>5, <1>6, ChosenOrder
<1>9. AllOf("DEAD", out.says)
  <2> HIDE DEF news, out
  <2> QED BY <1>7, <1>8 DEF AllOf
<1>10. out.enemies \in EnemyRecords
  <2> HIDE DEF now, gone, out
  <2>1. 0 \in 0 .. MaxHp
    BY EnemiesAssumption
  <2>2. /\ now.hp \in [Ids -> 0 .. MaxHp] /\ now.dead \in SUBSET Ids
        /\ now.listed \in SUBSET Ids /\ now.tracked \in Maps \cup {Nobody}
    BY <1>1 DEF EnemyRecords
  <2> DEFINE hp == [i \in Ids |-> IF i \in now.dead THEN 0 ELSE now.hp[i]]
  <2>3. hp \in [Ids -> 0 .. MaxHp]
    BY <2>1, <2>2
  <2>4. out.enemies = [now EXCEPT !.hp = hp, !.dead = now.dead \cup gone,
                                  !.listed = Standing(now)]
    BY <1>4
  <2> HIDE DEF hp
  <2>5. now.dead \cup gone \in SUBSET Ids
    BY <1>2, <2>2
  <2> QED BY <1>1, <1>3, <2>3, <2>4, <2>5 DEF EnemyRecords
<1>11. /\ out.enemies.dead = now.dead \cup gone
       /\ out.enemies.listed = Standing(now) /\ out.enemies.tracked = m
       /\ \A i \in Ids : out.enemies.hp[i] = IF i \in now.dead THEN 0 ELSE now.hp[i]
  <2> HIDE DEF now, gone, out
  <2> QED BY <1>1, <1>4 DEF EnemyRecords
<1> QED BY <1>8, <1>9, <1>10, <1>11

(* As far as the players can tell, two records are of the same round.      *)
Alike(r, t) == r.mode = t.mode /\ r.running = t.running /\ r.found = t.found

(* A player announces what it does to its own round.                       *)
Announced(r, out) ==
  /\ AllOf("MODE", out.says)
  /\ \E t \in RoundRecords : Alike(t, r) /\ out.round = Played(t, out.says)

LEMMA AnnounceIs ==
  ASSUME NEW r \in RoundRecords, NEW t \in RoundRecords, Alike(t, r),
         NEW says, AllOf("MODE", says)
  PROVE  Announced(r, Announce(t, says))
BY DEF Announced, Announce, Played

LEMMA HostRoundIs ==
  ASSUME NEW r \in RoundRecords, NEW m \in Maps, NEW want \in Modes,
         NEW others, NEW near \in SUBSET Players
  PROVE  Announced(r, HostRound(r, m, want, others, near))
<1> DEFINE silence == <<>>
           ending == <<RoundEvent("END", Nobody)>>
           starting == <<RoundEvent("START", want)>>
<1>1. AllOf("MODE", silence) /\ AllOf("MODE", ending) /\ AllOf("MODE", starting)
  BY EventsAre DEF AllOf, RoundEvent, Event
<1>2. Alike(r, r)
  BY DEF Alike
<1>3. CASE want # "OFF" /\ ~r.running
  <2> DEFINE t == [r EXCEPT !.finish = m]
  <2>1. t \in RoundRecords /\ Alike(t, r)
    BY DEF RoundRecords, Alike
  <2>2. HostRound(r, m, want, others, near) = Announce(t, starting)
    BY <1>3 DEF HostRound
  <2> HIDE DEF t, starting
  <2> QED BY <1>1, <2>1, <2>2, AnnounceIs
<1>4. CASE want = "OFF" /\ r.running
  <2>1. HostRound(r, m, want, others, near) = Announce(r, ending)
    BY <1>4 DEF HostRound
  <2> HIDE DEF ending
  <2> QED BY <1>1, <1>2, <2>1, AnnounceIs
<1>5. CASE want = "OFF" /\ ~r.running
  <2>1. HostRound(r, m, want, others, near) = Announce(r, silence)
    BY <1>5 DEF HostRound
  <2> HIDE DEF silence
  <2> QED BY <1>1, <1>2, <2>1, AnnounceIs
<1>6. CASE want # "OFF" /\ r.running
  <2> DEFINE on == [r EXCEPT !.waited = IF @ < HeadStart THEN @ + 1 ELSE @]
  <2>1. on \in RoundRecords /\ Alike(on, r)
    <3>1. (IF r.waited < HeadStart THEN r.waited + 1 ELSE r.waited) \in 0 .. HeadStart
      BY RoundsAssumption DEF RoundRecords
    <3> QED BY <3>1 DEF RoundRecords, Alike
  <2>2. HostRound(r, m, want, others, near) =
          IF r.mode = "RACE" THEN JudgeRace(on, near) ELSE JudgeHide(on, others, near)
    BY <1>6 DEF HostRound
  <2>3. JudgeRace(on, near) = Announce(on, IF near = {} THEN silence ELSE ending)
    BY DEF JudgeRace
  <2>4. Announced(r, JudgeRace(on, near))
    <3> HIDE DEF silence, ending, on
    <3> QED BY <1>1, <2>1, <2>3, AnnounceIs
  <2>5. Announced(r, JudgeHide(on, others, near))
    <3> DEFINE caught == near \ on.found
               news == {RoundEvent("FOUND", q) : q \in caught}
               end == IF others \subseteq on.found \cup caught THEN ending ELSE silence
    <3>1. JudgeHide(on, others, near) =
            Announce(on, IF on.waited < HeadStart THEN silence
                         ELSE SetToSeq(news) \o end)
      BY DEF JudgeHide
    <3>2. IsFiniteSet(news)
      <4> DEFINE g == [q \in caught |-> RoundEvent("FOUND", q)]
      <4>1. IsFiniteSet(caught)
        BY Sorts, FS_Subset
      <4>2. g \in Surjection(caught, news)
        BY DEF Surjection
      <4> QED BY <4>1, <4>2, FS_Surjection
    <3>3. news \subseteq Events /\ \A x \in news : x.kind = "MODE"
      BY EventsAre DEF RoundEvent, Event
    <3>4. SetToSeq(news) \in Seq(news)
      BY <3>2, ChosenOrder
    <3> HIDE DEF news
    <3>5. AllOf("MODE", SetToSeq(news))
      BY <3>3, <3>4 DEF AllOf
    <3>6. AllOf("MODE", end)
      BY <1>1
    <3> HIDE DEF end, silence, ending, on
    <3>7. AllOf("MODE", SetToSeq(news) \o end)
      BY <3>5, <3>6 DEF AllOf
    <3> QED BY <1>1, <2>1, <3>1, <3>7, AnnounceIs
  <2> QED BY <2>2, <2>4, <2>5
<1> QED BY <1>3, <1>4, <1>5, <1>6 DEF RoundRecords

(* The round after a frame in map m, by what the host, or nobody, says.    *)
LEMMA RoundOutcomesAre ==
  ASSUME NEW p \in Players, NEW r \in RoundRecords, NEW m \in Maps,
         NEW out \in RoundOutcomes(p, r, m)
  PROVE  /\ Announced(r, out)
         /\ p # Host => out.says = <<>>
<1>1. CASE "PARTY" \notin scene.uses \/ p # Host
  <2>1. out = Announce(r, <<>>) /\ Alike(r, r) /\ AllOf("MODE", <<>>)
    BY <1>1 DEF RoundOutcomes, Alike, AllOf
  <2> QED BY <2>1, AnnounceIs DEF Announce
<1>2. CASE "PARTY" \in scene.uses /\ p = Host
  <2>1. PICK want \in Modes,
             near \in SUBSET (IF r.mode = "RACE"
                                THEN HereWith(p, r.finish)
                                       \cup (IF m = r.finish THEN {p} ELSE {})
                                ELSE HereWith(p, m)) :
          out = HostRound(r, m, want, Remotes(p), near)
    BY <1>2 DEF RoundOutcomes
  <2>2. near \in SUBSET Players
    BY <2>1 DEF HereWith
  <2> QED BY <1>2, <2>1, <2>2, HostRoundIs
<1> QED BY <1>1, <1>2

LEMMA AnnouncedType ==
  ASSUME NEW r, NEW out, Announced(r, out)
  PROVE  out.round \in RoundRecords /\ out.says \in Seq(Events)
BY PlayedType DEF Announced, AllOf

(* Carrying: it goes on, but that the carrier may be gone; it ends; or     *)
(* somebody is picked up.                                                  *)
GoesOn(c, out) ==
  /\ out.carry \in {c, [c EXCEPT !.carriedBy = Nobody]}
  /\ out.says = <<>>

Ends(c, m, out) ==
  /\ out.carry = NoCarry
  /\ out.says = IF c.carrying = Nobody THEN <<>>
                ELSE <<Report(m, c.carrying, FALSE)>>

PicksUp(c, m, q, out) ==
  /\ c = NoCarry
  /\ out.carry = [c EXCEPT !.carrying = q]
  /\ out.says = <<Report(m, q, TRUE)>>

LEMMA CarryUpdateIs ==
  ASSUME NEW c \in CarryRecords, NEW m \in Maps, NEW hands \in BOOLEAN,
         NEW here \in SUBSET Players, NEW reach \in SUBSET Players, NEW enabled \in BOOLEAN,
         NEW out \in CarryUpdate(c, m, enabled, hands, here, reach)
  PROVE  \/ GoesOn(c, out)
         \/ Ends(c, m, out)
         \/ \E q \in Players : PicksUp(c, m, q, out)
<1> DEFINE putDown == IF c.carrying = Nobody THEN <<>>
                      ELSE <<Report(m, c.carrying, FALSE)>>
           same == [carry |-> c, says |-> <<>>]
           over == [carry |-> NoCarry, says |-> putDown]
<1>1. GoesOn(c, same) /\ Ends(c, m, over)
  BY DEF GoesOn, Ends
<1>2. CASE enabled = FALSE
  <2>1. out \in {over}
    BY <1>2 DEF CarryUpdate
  <2> QED BY <1>1, <2>1
<1>3. CASE enabled = TRUE /\ c.carriedBy \in here
  <2>1. c # NoCarry /\ c.carriedBy # Nobody
    BY <1>3, Sorts DEF NoCarry
  <2>2. out \in {same}
    BY <1>3, <2>1 DEF CarryUpdate
  <2> QED BY <1>1, <2>2
<1>4. CASE enabled = TRUE /\ c.carriedBy \notin here \cup {Nobody}
  <2>1. c # NoCarry
    BY <1>4 DEF NoCarry
  <2>2. out \in {[carry |-> [c EXCEPT !.carriedBy = Nobody], says |-> <<>>]}
    BY <1>4, <2>1 DEF CarryUpdate
  <2> QED BY <2>2 DEF GoesOn
<1>5. CASE enabled = TRUE /\ c.carriedBy \notin here /\ c.carriedBy = Nobody
             /\ c.carrying # Nobody
  <2>1. c # NoCarry
    BY <1>5 DEF NoCarry
  <2>2. out \in {IF hands THEN same ELSE over}
    BY <1>5, <2>1 DEF CarryUpdate
  <2>3. out = same \/ out = over
    BY <2>2
  <2> HIDE DEF same, over
  <2> QED BY <1>1, <2>3
<1>6. CASE enabled = TRUE /\ c.carriedBy \notin here /\ c.carriedBy = Nobody
             /\ c.carrying = Nobody
  <2>1. c = NoCarry
    BY <1>6 DEF CarryRecords, NoCarry
  <2>2. \/ out \in {same}
        \/ out \in {[carry |-> [c EXCEPT !.carrying = q],
                     says |-> <<Report(m, q, TRUE)>>] :
                      q \in IF hands THEN {} ELSE reach}
    BY <1>6, <2>1 DEF CarryUpdate
  <2>3. CASE out = same
    BY <1>1, <2>3
  <2>4. CASE \E q \in reach : out = [carry |-> [c EXCEPT !.carrying = q],
                                     says |-> <<Report(m, q, TRUE)>>]
    <3>1. PICK q \in reach : out = [carry |-> [c EXCEPT !.carrying = q],
                                   says |-> <<Report(m, q, TRUE)>>]
      BY <2>4
    <3>2. q \in Players /\ PicksUp(c, m, q, out)
      BY <2>1, <3>1 DEF PicksUp
    <3> QED BY <3>2
  <2> HIDE DEF same
  <2> QED BY <2>2, <2>3, <2>4
<1> QED BY <1>2, <1>3, <1>4, <1>5, <1>6

LEMMA CarryOutcomesAre ==
  ASSUME NEW p, NEW c \in CarryRecords, NEW m \in Maps, NEW shown,
         NEW out \in CarryOutcomes(p, c, m, shown)
  PROVE  /\ out.carry \in CarryRecords
         /\ AllOf("CARRY", out.says)
         /\ \A i \in 1 .. Len(out.says) : out.says[i].map = m
         /\ \/ GoesOn(c, out)
            \/ Ends(c, m, out)
            \/ \E q \in Players : PicksUp(c, m, q, out)
<1>1. \/ GoesOn(c, out)
      \/ Ends(c, m, out)
      \/ \E q \in Players : PicksUp(c, m, q, out)
  <2>1. CASE "CARRYING" \notin scene.uses
    <3>1. out = [carry |-> c, says |-> <<>>]
      BY <2>1 DEF CarryOutcomes
    <3> QED BY <3>1 DEF GoesOn
  <2>2. CASE "CARRYING" \in scene.uses
    <3> DEFINE here == HereWith(p, m)
               each == {CarryUpdate(c, m, enabled, hands, here, here \cap shown) :
                          enabled, hands \in BOOLEAN}
               all == UNION each
    <3>1. CarryOutcomes(p, c, m, shown) =
            IF "CARRYING" \notin scene.uses
              THEN {[carry |-> c, says |-> <<>>]} ELSE all
      BY DEF CarryOutcomes
    <3>2. out \in all
      <4> HIDE DEF all
      <4> QED BY <2>2, <3>1
    <3>3. here \in SUBSET Players /\ here \cap shown \in SUBSET Players
      BY DEF HereWith
    <3>4. PICK S \in each : out \in S
      <4> HIDE DEF each
      <4> QED BY <3>2
    <3> HIDE DEF here
    <3>5. PICK enabled \in BOOLEAN, hands \in BOOLEAN :
            S = CarryUpdate(c, m, enabled, hands, here, here \cap shown)
      BY <3>4
    <3> QED BY <3>3, <3>4, <3>5, CarryUpdateIs
  <2> QED BY <2>1, <2>2
<1>2. \A q, on : Report(m, q, on).kind = "CARRY" /\ Report(m, q, on).map = m
  BY DEF Report, Event
<1>3. CASE GoesOn(c, out)
  BY <1>3, AllOfFew DEF GoesOn, CarryRecords
<1>4. CASE Ends(c, m, out)
  <2>1. NoCarry \in CarryRecords
    BY DEF NoCarry, CarryRecords
  <2>2. CASE c.carrying = Nobody
    BY <1>4, <2>1, <2>2, AllOfFew DEF Ends
  <2>3. CASE c.carrying # Nobody
    <3>1. c.carrying \in Players
      BY <2>3 DEF CarryRecords
    <3>2. Report(m, c.carrying, FALSE) \in Events
      BY <3>1, EventsAre
    <3>3. AllOf("CARRY", <<Report(m, c.carrying, FALSE)>>)
      BY <1>2, <3>2, AllOfFew
    <3>4. out.carry = NoCarry /\ out.says = <<Report(m, c.carrying, FALSE)>>
      BY <1>4, <2>3 DEF Ends
    <3>5. \A i \in 1 .. Len(out.says) : out.says[i].map = m
      <4> DEFINE e == Report(m, c.carrying, FALSE)
      <4>1. out.says = <<e>> /\ e.map = m
        BY <1>2, <3>4
      <4> HIDE DEF e
      <4> QED BY <4>1, OneEvent
    <3>6. out.carry \in CarryRecords /\ AllOf("CARRY", out.says)
      BY <2>1, <3>3, <3>4
    <3> QED BY <1>1, <3>5, <3>6
  <2> QED BY <2>2, <2>3
<1>5. ASSUME NEW q \in Players, PicksUp(c, m, q, out)
      PROVE  /\ out.carry \in CarryRecords /\ AllOf("CARRY", out.says)
             /\ \A i \in 1 .. Len(out.says) : out.says[i].map = m
  <2>1. out.carry \in CarryRecords
    BY <1>5 DEF PicksUp, CarryRecords
  <2>2. Report(m, q, TRUE) \in Events
    BY EventsAre
  <2>3. AllOf("CARRY", <<Report(m, q, TRUE)>>)
    BY <1>2, <2>2, AllOfFew
  <2>4. out.says = <<Report(m, q, TRUE)>>
    BY <1>5 DEF PicksUp
  <2>5. \A i \in 1 .. Len(out.says) : out.says[i].map = m
    <3> DEFINE e == Report(m, q, TRUE)
    <3>1. out.says = <<e>> /\ e.map = m
      BY <1>2, <2>4
    <3> HIDE DEF e
    <3> QED BY <3>1, OneEvent
  <2> QED BY <2>1, <2>3, <2>4, <2>5
<1> QED BY <1>1, <1>3, <1>4, <1>5

-----------------------------------------------------------------------------
(* A frame, taken apart.                                                   *)

(* What p says in a frame in map m: of enemies e, by a round r and by a    *)
(* carrying c.                                                             *)
FrameSays(m, e, r, c) == EnemySync(e, m).says \o r.says \o c.says

(* p is in map m, loaded since or not, and has taken k messages; h[i] is   *)
(* the game after i of them; f, r and c are what comes of its figures, its round and its       *)
(* carrying.                                                               *)
FrameOf(p, m, loaded, k, h, f, r, c) ==
  /\ m \in MapsAfter(p) /\ loaded \in Loads(p, m) /\ k \in 0 .. Len(down[p])
  /\ InTurn(h, Resumed(p, loaded), p, m, SubSeq(down[p], 1, k))
  /\ f \in FigureOutcomes(p, IF loaded THEN FiguresAfterLoad(figures[p])
                             ELSE figures[p], m)
  /\ r \in RoundOutcomes(p, h[k].round, m)
  /\ c \in CarryOutcomes(p, h[k].carry, m, f.shown)
  /\ up' = [up EXCEPT ![p] = @ \o FrameSays(m, h[k].enemies, r, c)]
  /\ at' = [at EXCEPT ![p] = m]
  /\ down' = [down EXCEPT ![p] = SubSeq(@, k + 1, Len(@))]
  /\ figures' = [figures EXCEPT ![p] = f]
  /\ enemies' = [enemies EXCEPT ![p] = EnemySync(h[k].enemies, m).enemies]
  /\ round' = [round EXCEPT ![p] = r.round]
  /\ carry' = [carry EXCEPT ![p] = c.carry]
  /\ switches' = [switches EXCEPT ![p] = h[k].switches]

LEMMA ResumedType ==
  ASSUME TypeOK, NEW p \in Players, NEW loaded
  PROVE  Resumed(p, loaded) \in Games
<1>1. carry[p] \in CarryRecords /\ round[p] \in RoundRecords
      /\ enemies[p] \in EnemyRecords /\ switches[p] \in SwitchRecords
  BY DEF TypeOK
<1>2. EnemiesAfterLoad(enemies[p]) \in EnemyRecords
  <2>1. AllUp \in [Ids -> 0 .. MaxHp]
    BY EnemiesAssumption DEF AllUp
  <2> QED BY <1>1, <2>1 DEF EnemiesAfterLoad, EnemyRecords
<1>3. AllAtRest \in SwitchRecords
  <2>1. AtRest \in Positions
    BY SwitchesAssumption DEF AtRest
  <2> QED BY <2>1 DEF AllAtRest, SwitchRecords
<1> QED BY <1>1, <1>2, <1>3 DEF Resumed, Games

LEMMA Taken ==
  ASSUME TypeOK, NEW p \in Players, NEW k \in 0 .. Len(down[p])
  PROVE  /\ SubSeq(down[p], 1, k) \in Seq(Messages)
         /\ Len(SubSeq(down[p], 1, k)) = k
         /\ \A i \in 1 .. k : /\ i \in 1 .. Len(down[p])
                              /\ SubSeq(down[p], 1, k)[i] = down[p][i]
                              /\ down[p][i] \in Messages
<1>1. down[p] \in Seq(Messages)
  BY DEF TypeOK
<1> QED BY <1>1

(* The rest of a frame in map m, after which f are the figures, with g the *)
(* game once k messages are taken.                                         *)
Framed(p, m, k, f, g) ==
  \E r \in RoundOutcomes(p, g.round, m) :
  \E c \in CarryOutcomes(p, g.carry, m, f.shown) :
    /\ Says(p, EnemySync(g.enemies, m).says \o r.says \o c.says)
    /\ at' = [at EXCEPT ![p] = m]
    /\ down' = [down EXCEPT ![p] = SubSeq(@, k + 1, Len(@))]
    /\ figures' = [figures EXCEPT ![p] = f]
    /\ enemies' = [enemies EXCEPT ![p] = EnemySync(g.enemies, m).enemies]
    /\ round' = [round EXCEPT ![p] = r.round]
    /\ carry' = [carry EXCEPT ![p] = c.carry]
    /\ switches' = [switches EXCEPT ![p] = g.switches]

LEMMA FrameIsFramed ==
  ASSUME NEW p, Frame(p)
  PROVE  \E m \in MapsAfter(p) : \E loaded \in Loads(p, m), k \in 0 .. Len(down[p]) :
         \E f \in FigureOutcomes(p, IF loaded THEN FiguresAfterLoad(figures[p])
                                    ELSE figures[p], m) :
           Framed(p, m, k, f, ApplyAll(Resumed(p, loaded), p, m, SubSeq(down[p], 1, k)))
BY DEF Frame, Framed

LEMMA FrameUnfolds ==
  ASSUME TypeOK, NEW p \in Players, Frame(p)
  PROVE  /\ \E m, loaded, k, h, f, r, c : FrameOf(p, m, loaded, k, h, f, r, c)
         /\ p \in online /\ UNCHANGED <<scene, online, seen, history>>
<1> DEFINE g(m, loaded, k) == ApplyAll(Resumed(p, loaded), p, m, SubSeq(down[p], 1, k))
<1>11. PICK m \in MapsAfter(p) : \E loaded \in Loads(p, m), k \in 0 .. Len(down[p]) :
        \E f \in FigureOutcomes(p, IF loaded THEN FiguresAfterLoad(figures[p])
                                   ELSE figures[p], m) :
          Framed(p, m, k, f, g(m, loaded, k))
  BY FrameIsFramed
<1>1. PICK loaded \in Loads(p, m), k \in 0 .. Len(down[p]) :
        \E f \in FigureOutcomes(p, IF loaded THEN FiguresAfterLoad(figures[p])
                                   ELSE figures[p], m) :
          Framed(p, m, k, f, g(m, loaded, k))
  BY <1>11
<1>2. PICK h : InTurn(h, Resumed(p, loaded), p, m, SubSeq(down[p], 1, k))
  BY Taken, ResumedType, ApplyAllInTurn
<1>3. g(m, loaded, k) = h[k]
  BY <1>2, Taken DEF InTurn
<1> HIDE DEF g
<1> DEFINE becomes(x, f, r, c) ==
             /\ Says(p, EnemySync(x.enemies, m).says \o r.says \o c.says)
             /\ at' = [at EXCEPT ![p] = m]
             /\ down' = [down EXCEPT ![p] = SubSeq(@, k + 1, Len(@))]
             /\ figures' = [figures EXCEPT ![p] = f]
             /\ enemies' = [enemies EXCEPT ![p] = EnemySync(x.enemies, m).enemies]
             /\ round' = [round EXCEPT ![p] = r.round]
             /\ carry' = [carry EXCEPT ![p] = c.carry]
             /\ switches' = [switches EXCEPT ![p] = x.switches]
<1>4. \E f \in FigureOutcomes(p, IF loaded THEN FiguresAfterLoad(figures[p])
                                 ELSE figures[p], m) :
      \E r \in RoundOutcomes(p, h[k].round, m) :
      \E c \in CarryOutcomes(p, h[k].carry, m, f.shown) : becomes(h[k], f, r, c)
  <2>1. \E f \in FigureOutcomes(p, IF loaded THEN FiguresAfterLoad(figures[p])
                                   ELSE figures[p], m) :
        \E r \in RoundOutcomes(p, g(m, loaded, k).round, m) :
        \E c \in CarryOutcomes(p, g(m, loaded, k).carry, m, f.shown) :
          becomes(g(m, loaded, k), f, r, c)
    BY <1>1 DEF Framed
  <2> HIDE DEF becomes
  <2> QED BY <2>1, <1>3
<1> HIDE DEF becomes
<1>5. PICK f \in FigureOutcomes(p, IF loaded THEN FiguresAfterLoad(figures[p])
                                   ELSE figures[p], m) :
      \E r \in RoundOutcomes(p, h[k].round, m) :
      \E c \in CarryOutcomes(p, h[k].carry, m, f.shown) : becomes(h[k], f, r, c)
  BY <1>4
<1>6. PICK r \in RoundOutcomes(p, h[k].round, m) :
      \E c \in CarryOutcomes(p, h[k].carry, m, f.shown) : becomes(h[k], f, r, c)
  BY <1>5
<1>7. PICK c \in CarryOutcomes(p, h[k].carry, m, f.shown) : becomes(h[k], f, r, c)
  BY <1>6
<1>8. FrameOf(p, m, loaded, k, h, f, r, c)
  BY <1>1, <1>2, <1>5, <1>6, <1>7 DEF becomes, FrameOf, FrameSays, Says
<1>9. \E x, n, i, j, y, z, w : FrameOf(p, x, n, i, j, y, z, w)
  BY <1>8
<1>10. p \in online /\ UNCHANGED <<scene, online, seen, history>>
  BY DEF Frame
<1> QED BY <1>9, <1>10

(* The parts of a frame have the types of what they become; and what is    *)
(* said is said of the map by the one it is up to.                         *)
LEMMA FrameIs ==
  ASSUME TypeOK, NEW p \in Players, NEW m, NEW loaded, NEW k, NEW h,
         NEW f, NEW r, NEW c,
         FrameOf(p, m, loaded, k, h, f, r, c)
  PROVE  LET says == FrameSays(m, h[k].enemies, r, c)
         IN /\ m \in Maps /\ k \in 0 .. Len(down[p]) /\ h[k] \in Games
            /\ EnemySync(h[k].enemies, m).enemies \in EnemyRecords
            /\ r.round \in RoundRecords /\ c.carry \in CarryRecords
            /\ says \in Seq(Events)
            /\ \A i \in 1 .. Len(says) :
                 \/ says[i].kind = "DEAD" /\ says[i].map = m
                 \/ says[i].kind = "MODE" /\ p = Host
                 \/ says[i].kind = "CARRY" /\ says[i].map = m
<1> DEFINE deaths == EnemySync(h[k].enemies, m).says
           says == FrameSays(m, h[k].enemies, r, c)
<1>1. m \in Maps
  BY DEF FrameOf, MapsAfter, TypeOK
<1>2. k \in 0 .. Len(down[p]) /\ h[k] \in Games
  <2>1. k \in 0 .. Len(down[p])
    BY DEF FrameOf
  <2> QED BY <2>1, Taken DEF FrameOf, InTurn
<1>3. /\ h[k].enemies \in EnemyRecords /\ h[k].round \in RoundRecords
      /\ h[k].carry \in CarryRecords
  BY <1>2 DEF Games
<1>4. /\ EnemySync(h[k].enemies, m).enemies \in EnemyRecords
      /\ AllOf("DEAD", deaths)
      /\ ToSet(deaths) = {Event("DEAD", m, i, Nobody) : i \in Missing(h[k].enemies, m)}
  BY <1>1, <1>3, EnemySyncIs
<1>5. \A i \in 1 .. Len(deaths) : deaths[i].map = m
  <2> SUFFICES ASSUME NEW i \in 1 .. Len(deaths)
               PROVE  deaths[i].map = m
    OBVIOUS
  <2>1. deaths[i] \in ToSet(deaths)
    BY <1>4, InSet DEF AllOf
  <2> DEFINE d == deaths[i]
             gone == Missing(h[k].enemies, m)
  <2>2. d \in {Event("DEAD", m, j, Nobody) : j \in gone}
    BY <1>4, <2>1
  <2> HIDE DEF d, gone
  <2>3. d.map = m
    BY <2>2 DEF Event
  <2> QED BY <2>3 DEF d
<1>6. Announced(h[k].round, r) /\ (p # Host => r.says = <<>>)
  BY <1>1, <1>3, RoundOutcomesAre DEF FrameOf
<1>7. r.round \in RoundRecords /\ AllOf("MODE", r.says)
  BY <1>6, AnnouncedType DEF Announced
<1>8. /\ c.carry \in CarryRecords /\ AllOf("CARRY", c.says)
      /\ \A i \in 1 .. Len(c.says) : c.says[i].map = m
  <2>1. c \in CarryOutcomes(p, h[k].carry, m, f.shown)
    BY DEF FrameOf
  <2> DEFINE now == h[k].carry
             shown == f.shown
  <2>2. now \in CarryRecords /\ c \in CarryOutcomes(p, now, m, shown)
    BY <1>3, <2>1
  <2> HIDE DEF now, shown
  <2> QED BY <1>1, <2>2, CarryOutcomesAre
<1>9. /\ says \in Seq(Events)
      /\ \A i \in 1 .. Len(says) :
           \/ says[i].kind = "DEAD" /\ says[i].map = m
           \/ says[i].kind = "MODE" /\ p = Host
           \/ says[i].kind = "CARRY" /\ says[i].map = m
  <2> DEFINE x == r.says
             y == c.says
             z == deaths \o x
  <2>1. says = z \o y
    BY DEF FrameSays
  <2>2. x # <<>> => p = Host
    BY <1>6
  <2> HIDE DEF deaths, x, y, says
  <2>3. /\ deaths \in Seq(Events) /\ x \in Seq(Events) /\ y \in Seq(Events)
        /\ \A i \in 1 .. Len(deaths) : deaths[i].kind = "DEAD" /\ deaths[i].map = m
        /\ \A i \in 1 .. Len(x) : x[i].kind = "MODE" /\ p = Host
        /\ \A i \in 1 .. Len(y) : y[i].kind = "CARRY" /\ y[i].map = m
    BY <1>4, <1>5, <1>7, <1>8, <2>2 DEF AllOf, x, y
  <2>4. /\ z \in Seq(Events)
        /\ \A i \in 1 .. Len(z) : \/ z[i].kind = "DEAD" /\ z[i].map = m
                                  \/ z[i].kind = "MODE" /\ p = Host
    BY <2>3
  <2> HIDE DEF z
  <2>5. z \o y \in Seq(Events)
    BY <2>3, <2>4
  <2>6. \A i \in 1 .. Len(z \o y) :
          \/ (z \o y)[i].kind = "DEAD" /\ (z \o y)[i].map = m
          \/ (z \o y)[i].kind = "MODE" /\ p = Host
          \/ (z \o y)[i].kind = "CARRY" /\ (z \o y)[i].map = m
    <3> SUFFICES ASSUME NEW i \in 1 .. Len(z \o y)
                 PROVE  \/ (z \o y)[i].kind = "DEAD" /\ (z \o y)[i].map = m
                        \/ (z \o y)[i].kind = "MODE" /\ p = Host
                        \/ (z \o y)[i].kind = "CARRY" /\ (z \o y)[i].map = m
      OBVIOUS
    <3>1. CASE i \in 1 .. Len(z)
      <4>1. (z \o y)[i] = z[i]
        BY <2>3, <2>4, <3>1
      <4> QED BY <2>4, <3>1, <4>1
    <3>2. CASE i \notin 1 .. Len(z)
      <4>1. (z \o y)[i] = y[i - Len(z)] /\ i - Len(z) \in 1 .. Len(y)
        BY <2>3, <2>4, <3>2
      <4> QED BY <2>3, <4>1
    <3> QED BY <3>1, <3>2
  <2> QED BY <2>1, <2>5, <2>6
<1> QED BY <1>1, <1>2, <1>4, <1>7, <1>8, <1>9

-----------------------------------------------------------------------------
(* Figures: the records on both sides of a figure, the mod's and the       *)
(* game's, depend on nothing else in the session but who is in sight.      *)

(* One actor for every figure, and no other.                               *)
Matching(f) ==
  \A q \in Players : f.live[q] = IF q \in f.shown THEN 1 ELSE 0

-----------------------------------------------------------------------------
(* Lemmas on the operators of Figures.                                     *)

(* Despawning figures that are shown and spawning others that are not, or  *)
(* not any more, leaves one actor for every figure.                        *)
LEMMA ReplaceMatches ==
  ASSUME NEW f \in FigureRecords, Matching(f),
         NEW gone \in SUBSET f.shown,
         NEW new \in SUBSET Players, new \cap (f.shown \ gone) = {}
  PROVE  Replace(f, gone, new) \in FigureRecords /\ Matching(Replace(f, gone, new))
<1> DEFINE r == Replace(f, gone, new)
<1>1. /\ r.shown = (f.shown \ gone) \cup new
      /\ \A q \in Players :
           r.live[q] = f.live[q] - (IF q \in gone THEN 1 ELSE 0)
                                 + (IF q \in new THEN 1 ELSE 0)
  BY DEF Replace
<1>2. \A q \in Players : f.live[q] = IF q \in f.shown THEN 1 ELSE 0
  BY DEF Matching
<1>3. \A q \in Players : r.live[q] = IF q \in r.shown THEN 1 ELSE 0
  <2> SUFFICES ASSUME NEW q \in Players
               PROVE  r.live[q] = IF q \in r.shown THEN 1 ELSE 0
    OBVIOUS
  <2> HIDE DEF r
  <2>1. CASE q \in new
    BY <1>1, <1>2, <2>1
  <2>2. CASE q \notin new /\ q \in gone
    BY <1>1, <1>2, <2>2
  <2>3. CASE q \notin new /\ q \notin gone
    BY <1>1, <1>2, <2>3
  <2> QED BY <2>1, <2>2, <2>3
<1>4. r \in FigureRecords
  <2>1. f.shown \in SUBSET Players
    BY DEF FigureRecords
  <2>2. (f.shown \ gone) \cup new \in SUBSET Players
    BY <2>1
  <2>3. \A q \in Players :
          f.live[q] - (IF q \in gone THEN 1 ELSE 0)
            + (IF q \in new THEN 1 ELSE 0) \in Nat
    BY <1>1, <1>3
  <2> QED BY <2>2, <2>3 DEF Replace, FigureRecords
<1> QED BY <1>3, <1>4 DEF Matching

LEMMA LoadMatches ==
  ASSUME NEW f
  PROVE  FiguresAfterLoad(f) \in FigureRecords /\ Matching(FiguresAfterLoad(f))
BY DEF FiguresAfterLoad, NoFigures, FigureRecords, Matching

LEMMA SyncMatches ==
  ASSUME NEW f \in FigureRecords, Matching(f),
         NEW here \in SUBSET Players, NEW changed, NEW failed
  PROVE  /\ PuppetSync(f, here, changed, failed) \in FigureRecords
         /\ Matching(PuppetSync(f, here, changed, failed))
<1> DEFINE gone == f.shown \ (here \ changed)
           new  == (here \ (f.shown \ gone)) \ failed
<1>1. gone \in SUBSET f.shown /\ new \in SUBSET Players
      /\ new \cap (f.shown \ gone) = {}
  OBVIOUS
<1>2. PuppetSync(f, here, changed, failed) = Replace(f, gone, new)
  BY DEF PuppetSync
<1> HIDE DEF gone, new
<1> QED BY <1>1, <1>2, ReplaceMatches

LEMMA ClearMatches ==
  ASSUME NEW f \in FigureRecords, Matching(f)
  PROVE  PuppetClearAll(f) \in FigureRecords /\ Matching(PuppetClearAll(f))
BY ReplaceMatches DEF PuppetClearAll

-----------------------------------------------------------------------------
(* The inductive invariant.                                                *)

FiguresInv ==
  /\ figures \in [Players -> FigureRecords]
  /\ \A p \in Players : Matching(figures[p])

(* Whatever a frame makes of a figure record that matches, matches.        *)
LEMMA OutcomesMatch ==
  ASSUME NEW p, NEW m, NEW f \in FigureRecords, Matching(f),
         NEW g \in FigureOutcomes(p, f, m)
  PROVE  g \in FigureRecords /\ Matching(g)
<1>1. HereWith(p, m) \in SUBSET Players
  BY DEF HereWith
<1>2. CASE "FIGURES" \in scene.uses
  <2>1. PICK changed \in SUBSET HereWith(p, m), failed \in SUBSET HereWith(p, m) :
          g = PuppetSync(f, HereWith(p, m), changed, failed)
    BY <1>2 DEF FigureOutcomes
  <2> QED BY <1>1, <2>1, SyncMatches
<1>3. CASE "FIGURES" \notin scene.uses /\ "CARRYING" \in scene.uses
  <2>1. g = PuppetSync(f, HereWith(p, m), {}, {})
    BY <1>3 DEF FigureOutcomes
  <2> QED BY <1>1, <2>1, SyncMatches
<1>4. CASE "FIGURES" \notin scene.uses /\ "CARRYING" \notin scene.uses
  <2>1. g = f
    BY <1>4 DEF FigureOutcomes
  <2> QED BY <2>1
<1> QED BY <1>2, <1>3, <1>4

LEMMA FrameFigures ==
  ASSUME FiguresInv, NEW p \in Players, Frame(p)
  PROVE  FiguresInv'
<1> USE DEF FiguresInv
<1>1. PICK m \in MapsAfter(p) : \E loaded \in Loads(p, m), k \in 0 .. Len(down[p]) :
        \E f \in FigureOutcomes(p, IF loaded THEN FiguresAfterLoad(figures[p])
                                   ELSE figures[p], m) :
          Framed(p, m, k, f, ApplyAll(Resumed(p, loaded), p, m, SubSeq(down[p], 1, k)))
  BY FrameIsFramed
<1>7. PICK loaded \in Loads(p, m), k \in 0 .. Len(down[p]) :
        \E f \in FigureOutcomes(p, IF loaded THEN FiguresAfterLoad(figures[p])
                                   ELSE figures[p], m) :
          Framed(p, m, k, f, ApplyAll(Resumed(p, loaded), p, m, SubSeq(down[p], 1, k)))
  BY <1>1
<1> DEFINE before == IF loaded THEN FiguresAfterLoad(figures[p])
                     ELSE figures[p]
<1>2. before \in FigureRecords /\ Matching(before)
  BY LoadMatches
<1>3. PICK f \in FigureOutcomes(p, before, m) : figures' = [figures EXCEPT ![p] = f]
  BY <1>7 DEF Framed
<1> HIDE DEF before
<1>4. f \in FigureRecords /\ Matching(f)
  BY <1>2, <1>3, OutcomesMatch
<1>5. figures' \in [Players -> FigureRecords]
  BY <1>3, <1>4
<1>6. \A q \in Players : figures'[q] = IF q = p THEN f ELSE figures[q]
  BY <1>3
<1> QED BY <1>4, <1>5, <1>6

LEMMA LeaveFigures ==
  ASSUME FiguresInv, NEW c \in Clients, Leave(c)
  PROVE  FiguresInv'
<1> USE DEF FiguresInv
<1>1. c \in Players /\ figures[c] \in FigureRecords
  BY DEF Players
<1> DEFINE f == PuppetClearAll(figures[c])
<1>2. f \in FigureRecords /\ Matching(f)
  BY <1>1, ClearMatches
<1>3. figures' = [figures EXCEPT ![c] = f]
  BY DEF Leave
<1> HIDE DEF f
<1>4. figures' \in [Players -> FigureRecords]
  BY <1>2, <1>3
<1>5. \A q \in Players : figures'[q] = IF q = c THEN f ELSE figures[q]
  BY <1>3
<1> QED BY <1>2, <1>4, <1>5

LEMMA InitFigures == Init => FiguresInv
<1> SUFFICES ASSUME Init PROVE FiguresInv
  OBVIOUS
<1>1. figures = [p \in Players |-> NoFigures]
  BY DEF Init
<1>2. NoFigures \in FigureRecords /\ Matching(NoFigures)
  BY DEF NoFigures, FigureRecords, Matching
<1> QED BY <1>1, <1>2 DEF FiguresInv

LEMMA NextFigures == FiguresInv /\ [Next]_vars => FiguresInv'
<1> SUFFICES ASSUME FiguresInv, [Next]_vars PROVE FiguresInv'
  OBVIOUS
<1>1. CASE \E p, q \in Players : Hear(p, q)
  BY <1>1 DEF Hear, games, FiguresInv
<1>2. CASE \E c \in Clients : Leave(c)
  BY <1>2, LeaveFigures
<1>3. CASE \E p \in Players : Adjudicate(p)
  BY <1>3 DEF Adjudicate, games, FiguresInv
<1>4. CASE \E p \in Players : Frame(p)
  BY <1>4, FrameFigures
<1>5. CASE \E p \in Players, i \in Ids : Hit(p, i)
  BY <1>5 DEF Hit, FiguresInv
<1>6. CASE \E p \in Players, k \in Kinds, v \in Positions : Set(p, k, v)
  BY <1>6 DEF Set, FiguresInv
<1>7. CASE UNCHANGED vars
  BY <1>7 DEF vars, games, FiguresInv
<1> QED BY <1>1, <1>2, <1>3, <1>4, <1>5, <1>6, <1>7 DEF Next

-----------------------------------------------------------------------------
(* Whatever comes, goes, changes its form, fails to spawn or is loaded     *)
(* anew, there is one actor for each figure the mod knows of and none that *)
(* it has lost (puppet_sync).                                              *)
THEOREM OneActorPerFigure == Spec => []FiguresMatch
<1>1. FiguresInv => FiguresMatch
  BY DEF FiguresInv, FiguresMatch, Matching
<1> QED BY <1>1, InitFigures, NextFigures, PTL DEF Spec
-----------------------------------------------------------------------------
(* Types, and the hits under way, of which no more than were dealt.        *)

LEMMA HitsAre ==
  ASSUME NEW m, NEW i, NEW s \in Seq(Events)
  PROVE  /\ HitsIn(s, m, i) \in Nat
         /\ s # <<>> => HitsIn(s, m, i) = HitsIn(Tail(s), m, i)
                          + (IF Head(s) = Event("HIT", m, i, Nobody) THEN 1 ELSE 0)
         /\ \A t \in Seq(Events) : HitsIn(s \o t, m, i) = HitsIn(s, m, i) + HitsIn(t, m, i)
         /\ \A e \in Events : HitsIn(Append(s, e), m, i) = HitsIn(s, m, i)
                          + (IF e = Event("HIT", m, i, Nobody) THEN 1 ELSE 0)
         /\ (\A j \in 1 .. Len(s) : s[j].kind # "HIT") => HitsIn(s, m, i) = 0
<1> DEFINE x == Event("HIT", m, i, Nobody)
<1>1. x.kind = "HIT"
  BY DEF Event
<1>2. \A z : HitsIn(z, m, i) = Occurrences(x, z)
  BY DEF HitsIn, Occurrences
<1> HIDE DEF x
<1>3. Occurrences(x, s) \in Nat
  BY OccurrencesType
<1>4. s # <<>> => Occurrences(x, s) = Occurrences(x, Tail(s)) + IF x = Head(s) THEN 1 ELSE 0
  BY OccurrencesTail
<1>5. \A t \in Seq(Events) : Occurrences(x, s \o t) = Occurrences(x, s) + Occurrences(x, t)
  BY OccurrencesConcat
<1>6. \A e \in Events : Occurrences(x, Append(s, e)) = Occurrences(x, s) + IF x = e THEN 1 ELSE 0
  BY OccurrencesAppend
<1>7. (\A j \in 1 .. Len(s) : s[j].kind # "HIT") => Occurrences(x, s) = 0
  <2> SUFFICES ASSUME \A j \in 1 .. Len(s) : s[j].kind # "HIT"
               PROVE  Occurrences(x, s) = 0
    OBVIOUS
  <2>1. \A j \in DOMAIN s : s[j] # x
    BY <1>1
  <2> QED BY <2>1, OccurrencesType
<1>8. /\ HitsIn(s, m, i) \in Nat
      /\ (\A j \in 1 .. Len(s) : s[j].kind # "HIT") => HitsIn(s, m, i) = 0
  BY <1>2, <1>3, <1>7
<1>9. s # <<>> => HitsIn(s, m, i) = HitsIn(Tail(s), m, i) + (IF Head(s) = x THEN 1 ELSE 0)
  BY <1>2, <1>4
<1>10. \A t \in Seq(Events) : HitsIn(s \o t, m, i) = HitsIn(s, m, i) + HitsIn(t, m, i)
  BY <1>2, <1>5
<1>11. \A e \in Events : HitsIn(Append(s, e), m, i) = HitsIn(s, m, i)
                            + (IF e = x THEN 1 ELSE 0)
  BY <1>2, <1>6
<1> QED BY <1>8, <1>9, <1>10, <1>11 DEF x

LEMMA NoHitsYet ==
  ASSUME NEW m, NEW i
  PROVE  HitsIn(<<>>, m, i) = 0
<1>1. <<>> \in Seq(Events) /\ \A j \in 1 .. Len(<<>>) : <<>>[j].kind # "HIT"
  OBVIOUS
<1> QED BY <1>1, HitsAre

(* The hits on enemy i of map m the host has not seen yet, and those it    *)
(* has.                                                                    *)
HitsUp(m, i) == [q \in Players |-> HitsIn(up[q], m, i)]
Unlanded(m, i) == SumFunctionOnSet(HitsUp(m, i), Players)
Landed(m, i) == dealt[m][i] - Unlanded(m, i)

HitsCounted ==
  \A m \in Maps, i \in Ids : Unlanded(m, i) \in Nat /\ Unlanded(m, i) <= dealt[m][i]

(* p alone reports, or is heard.                                           *)
UpChange(p) ==
  /\ up' \in [Players -> Seq(Events)]
  /\ \A q \in Players \ {p} : up'[q] = up[q]

(* p reports t.                                                            *)
SaysMore(p, t) == UpChange(p) /\ up'[p] = up[p] \o t

LEMMA UnlandedChange ==
  ASSUME TypeOK, NEW p \in Players, UpChange(p), NEW m, NEW i
  PROVE  /\ Unlanded(m, i) \in Nat /\ Unlanded(m, i)' \in Nat
         /\ HitsIn(up[p], m, i) \in Nat /\ HitsIn(up'[p], m, i) \in Nat
         /\ HitsIn(up[p], m, i) <= Unlanded(m, i)
         /\ Unlanded(m, i)' = Unlanded(m, i) - HitsIn(up[p], m, i) + HitsIn(up'[p], m, i)
<1> DEFINE f == HitsUp(m, i)
           g == HitsUp(m, i)'
<1>1. /\ f \in [Players -> Nat] /\ \A q \in Players : f[q] = HitsIn(up[q], m, i)
  BY HitsAre DEF TypeOK, HitsUp
<1>2. g = [q \in Players |-> HitsIn(up'[q], m, i)]
  BY DEF HitsUp, HitsIn
<1>3. g \in [Players -> Nat] /\ \A q \in Players : g[q] = HitsIn(up'[q], m, i)
  <2>1. \A q \in Players : HitsIn(up'[q], m, i) \in Nat
    BY HitsAre DEF UpChange
  <2> HIDE DEF g
  <2> QED BY <1>2, <2>1
<1>4. \A q \in Players \ {p} : g[q] = f[q]
  <2> HIDE DEF f, g
  <2> QED BY <1>1, <1>3 DEF UpChange
<1>5. Unlanded(m, i) = SumFunctionOnSet(f, Players)
      /\ Unlanded(m, i)' = SumFunctionOnSet(g, Players)
  BY DEF Unlanded
<1> HIDE DEF f, g
<1>6. /\ SumFunctionOnSet(f, Players) \in Nat /\ SumFunctionOnSet(g, Players) \in Nat
      /\ f[p] <= SumFunctionOnSet(f, Players)
      /\ SumFunctionOnSet(g, Players) = SumFunctionOnSet(f, Players) - f[p] + g[p]
  BY <1>1, <1>3, <1>4, Sorts, SumChange
<1> QED BY <1>1, <1>3, <1>5, <1>6

LEMMA UnlandedSame ==
  ASSUME UNCHANGED up, NEW m, NEW i
  PROVE  Unlanded(m, i)' = Unlanded(m, i)
<1>1. HitsUp(m, i)' = HitsUp(m, i)
  BY DEF HitsUp, HitsIn
<1> QED BY <1>1 DEF Unlanded
-----------------------------------------------------------------------------
(* The steps, player by player.                                            *)

LEMMA OneChanged ==
  ASSUME NEW T, NEW v \in [Players -> T], NEW p \in Players, NEW x \in T
  PROVE  /\ [v EXCEPT ![p] = x] \in [Players -> T]
         /\ [v EXCEPT ![p] = x][p] = x
         /\ \A q \in Players \ {p} : [v EXCEPT ![p] = x][q] = v[q]
OBVIOUS

LEMMA SaysIs ==
  ASSUME TypeOK, NEW p \in Players, NEW events \in Seq(Events), Says(p, events)
  PROVE  SaysMore(p, events)
<1> DEFINE x == up[p] \o events
<1>1. up \in [Players -> Seq(Events)] /\ x \in Seq(Events)
  BY DEF TypeOK
<1>2. up' = [up EXCEPT ![p] = x]
  BY DEF Says
<1> HIDE DEF x
<1>3. UpChange(p) /\ up'[p] = x
  BY <1>1, <1>2, OneChanged DEF UpChange
<1> QED BY <1>3 DEF x, SaysMore

LEMMA LeaveIs ==
  ASSUME TypeOK, NEW c \in Clients, Leave(c)
  PROVE  /\ c \in Players \ {Host} /\ c \in online /\ online' = online \ {c}
         /\ UpChange(c) /\ up'[c] = <<>>
         /\ down' \in [Players -> Seq(Messages)] /\ down'[c] = <<>>
         /\ \A q \in Players \ {c} :
              /\ down'[q] = down[q] /\ carry'[q] = carry[q]
              /\ round'[q] = round[q] /\ enemies'[q] = enemies[q]
         /\ UNCHANGED <<scene, at, seen, switches, told, crossed, sets>>
<1>1. c \in Players \ {Host}
  BY Sorts
<1>2. /\ c \in online /\ online' = online \ {c}
      /\ up' = [up EXCEPT ![c] = <<>>] /\ down' = [down EXCEPT ![c] = <<>>]
      /\ carry' = [carry EXCEPT ![c] = NoCarry]
      /\ round' = [round EXCEPT ![c] = ModesReset(@)]
      /\ enemies' = [enemies EXCEPT ![c] = EnemyReset(@)]
      /\ UNCHANGED <<scene, at, seen, switches, told, crossed, sets>>
  BY DEF Leave
<1>3. up \in [Players -> Seq(Events)] /\ down \in [Players -> Seq(Messages)]
      /\ <<>> \in Seq(Events) /\ <<>> \in Seq(Messages)
  BY DEF TypeOK
<1>4. UpChange(c) /\ up'[c] = <<>>
  BY <1>1, <1>2, <1>3, OneChanged DEF UpChange
<1>5. /\ down' \in [Players -> Seq(Messages)] /\ down'[c] = <<>>
      /\ \A q \in Players \ {c} : down'[q] = down[q]
  BY <1>1, <1>2, <1>3, OneChanged
<1>6. \A q \in Players \ {c} :
        carry'[q] = carry[q] /\ round'[q] = round[q] /\ enemies'[q] = enemies[q]
  BY <1>2 DEF TypeOK
<1> QED BY <1>1, <1>2, <1>4, <1>5, <1>6

LEMMA AdjudicateIs ==
  ASSUME TypeOK, NEW p \in Players, Adjudicate(p)
  PROVE  LET e == Head(up[p])
         IN /\ up[p] # <<>> /\ e \in Events
            /\ up[p] = <<e>> \o Tail(up[p])
            /\ UpChange(p) /\ up'[p] = Tail(up[p])
            /\ down' \in [Players -> Seq(Messages)]
            /\ [from |-> p, event |-> e] \in Messages
            /\ \A q \in Players :
                 /\ q \in Receivers(p, e) =>
                      down'[q] = Append(down[q], [from |-> p, event |-> e])
                 /\ q \notin Receivers(p, e) => down'[q] = down[q]
            /\ told' = IF e.kind = "MODE" /\ e.a = "START"
                         THEN Receivers(p, e) ELSE told
            /\ UNCHANGED <<scene, online, at, seen, games, dealt, crossed, sets>>
<1> DEFINE e == Head(up[p])
           d == [from |-> p, event |-> e]
           receivers == Receivers(p, e)
<1>1. /\ up[p] # <<>> /\ up' = [up EXCEPT ![p] = Tail(up[p])]
      /\ down' = [q \in Players |->
                    IF q \in receivers THEN Append(down[q], d) ELSE down[q]]
      /\ told' = IF e.kind = "MODE" /\ e.a = "START" THEN receivers ELSE told
      /\ UNCHANGED <<scene, online, at, seen, games, dealt, crossed, sets>>
  BY DEF Adjudicate
<1>2. /\ up \in [Players -> Seq(Events)] /\ down \in [Players -> Seq(Messages)]
      /\ up[p] \in Seq(Events)
  BY DEF TypeOK
<1>3. e \in Events /\ Tail(up[p]) \in Seq(Events)
  BY <1>1, <1>2, HeadTailSet
<1>4. up[p] = <<e>> \o Tail(up[p])
  BY <1>1, <1>2
<1>5. d \in Messages
  BY <1>3 DEF Messages
<1>6. UpChange(p) /\ up'[p] = Tail(up[p])
  BY <1>1, <1>2, <1>3, OneChanged DEF UpChange
<1> HIDE DEF e, d, receivers
<1>7. /\ \A q \in Players : /\ q \in receivers => down'[q] = Append(down[q], d)
                            /\ q \notin receivers => down'[q] = down[q]
      /\ down' \in [Players -> Seq(Messages)]
  BY <1>1, <1>2, <1>5
<1> QED BY <1>1, <1>3, <1>4, <1>5, <1>6, <1>7 DEF e, d, receivers

(* What a frame leaves, of p and of the others.                            *)
LEMMA FrameMoves ==
  ASSUME TypeOK, NEW p \in Players, NEW m, NEW loaded, NEW k, NEW h,
         NEW f, NEW r, NEW c,
         FrameOf(p, m, loaded, k, h, f, r, c)
  PROVE  LET says == FrameSays(m, h[k].enemies, r, c)
         IN /\ SaysMore(p, says)
            /\ at' \in [Players -> Maps] /\ at'[p] = m
            /\ down' \in [Players -> Seq(Messages)]
            /\ down'[p] = SubSeq(down[p], k + 1, Len(down[p]))
            /\ enemies' \in [Players -> EnemyRecords]
            /\ enemies'[p] = EnemySync(h[k].enemies, m).enemies
            /\ round' \in [Players -> RoundRecords] /\ round'[p] = r.round
            /\ carry' \in [Players -> CarryRecords] /\ carry'[p] = c.carry
            /\ switches' \in [Players -> SwitchRecords]
            /\ switches'[p] = h[k].switches
            /\ \A q \in Players \ {p} :
                 /\ at'[q] = at[q] /\ down'[q] = down[q]
                 /\ enemies'[q] = enemies[q] /\ round'[q] = round[q]
                 /\ carry'[q] = carry[q] /\ switches'[q] = switches[q]
<1> DEFINE says == FrameSays(m, h[k].enemies, r, c)
           rest == SubSeq(down[p], k + 1, Len(down[p]))
           sync == EnemySync(h[k].enemies, m).enemies
<1>1. /\ m \in Maps /\ k \in 0 .. Len(down[p]) /\ h[k] \in Games
      /\ sync \in EnemyRecords /\ r.round \in RoundRecords
      /\ c.carry \in CarryRecords /\ says \in Seq(Events)
  BY FrameIs
<1>2. /\ up' = [up EXCEPT ![p] = up[p] \o says] /\ at' = [at EXCEPT ![p] = m]
      /\ down' = [down EXCEPT ![p] = rest]
      /\ enemies' = [enemies EXCEPT ![p] = sync]
      /\ round' = [round EXCEPT ![p] = r.round]
      /\ carry' = [carry EXCEPT ![p] = c.carry]
      /\ switches' = [switches EXCEPT ![p] = h[k].switches]
  BY DEF FrameOf
<1>3. /\ up \in [Players -> Seq(Events)] /\ down \in [Players -> Seq(Messages)]
      /\ at \in [Players -> Maps] /\ enemies \in [Players -> EnemyRecords]
      /\ round \in [Players -> RoundRecords] /\ carry \in [Players -> CarryRecords]
      /\ switches \in [Players -> SwitchRecords]
  BY DEF TypeOK
<1>4. up[p] \o says \in Seq(Events) /\ rest \in Seq(Messages)
      /\ h[k].switches \in SwitchRecords
  <2>1. up[p] \in Seq(Events) /\ down[p] \in Seq(Messages)
    BY <1>3
  <2>2. rest \in Seq(Messages)
    BY <1>1, <2>1, SplitSet
  <2>3. up[p] \o says \in Seq(Events)
    BY <1>1, <2>1, ConcatSet
  <2>4. h[k].switches \in SwitchRecords
    BY <1>1 DEF Games
  <2> QED BY <2>2, <2>3, <2>4
<1> DEFINE more == up[p] \o says
           pos == h[k].switches
           car == c.carry
           rou == r.round
<1>5. /\ more \in Seq(Events) /\ pos \in SwitchRecords /\ rest \in Seq(Messages)
      /\ car \in CarryRecords /\ rou \in RoundRecords
      /\ up' = [up EXCEPT ![p] = more] /\ switches' = [switches EXCEPT ![p] = pos]
      /\ carry' = [carry EXCEPT ![p] = car] /\ round' = [round EXCEPT ![p] = rou]
  BY <1>1, <1>2, <1>4
<1> HIDE DEF says, rest, sync, more, pos, car, rou
<1>6. UpChange(p) /\ up'[p] = more
  BY <1>3, <1>5, OneChanged DEF UpChange
<1>7. /\ at' \in [Players -> Maps] /\ at'[p] = m
      /\ \A q \in Players \ {p} : at'[q] = at[q]
  BY <1>1, <1>2, <1>3, OneChanged
<1>8. /\ down' \in [Players -> Seq(Messages)] /\ down'[p] = rest
      /\ \A q \in Players \ {p} : down'[q] = down[q]
  BY <1>2, <1>3, <1>4, OneChanged
<1>9. /\ enemies' \in [Players -> EnemyRecords] /\ enemies'[p] = sync
      /\ \A q \in Players \ {p} : enemies'[q] = enemies[q]
  BY <1>1, <1>2, <1>3, OneChanged
<1>10. /\ round' \in [Players -> RoundRecords] /\ round'[p] = rou
       /\ \A q \in Players \ {p} : round'[q] = round[q]
  BY <1>3, <1>5, OneChanged
<1>11. /\ carry' \in [Players -> CarryRecords] /\ carry'[p] = car
       /\ \A q \in Players \ {p} : carry'[q] = carry[q]
  BY <1>3, <1>5, OneChanged
<1>12. /\ switches' \in [Players -> SwitchRecords] /\ switches'[p] = pos
       /\ \A q \in Players \ {p} : switches'[q] = switches[q]
  BY <1>3, <1>5, OneChanged
<1>13. SaysMore(p, says)
  BY <1>6 DEF SaysMore, more
<1> QED BY <1>7, <1>8, <1>9, <1>10, <1>11, <1>12, <1>13 DEF says, rest, sync, pos, car, rou
-----------------------------------------------------------------------------
(* The types are kept; a client that leaves takes with it no more hits     *)
(* than were dealt.                                                        *)

Core == TypeOK /\ FiguresInv /\ HitsCounted

LEMMA InitCore == Init => Core
<1> SUFFICES ASSUME Init PROVE Core
  OBVIOUS
<1>1. FiguresInv
  BY InitFigures
<1>2. at \in [Players -> Maps]
  <2>1. PICK start \in Maps : at = [p \in Players |-> start]
    BY DEF Init
  <2> QED BY <2>1
<1>3. seen \in [Players -> [Players -> Maps \cup {Nobody}]]
  <2>1. PICK late \in SUBSET (Clients \cap Walkers) :
          seen = [p \in Players |-> [q \in Players |->
                    IF q \in late \/ p = q THEN Nobody ELSE at[q]]]
    BY DEF Init
  <2> QED BY <1>2, <2>1
<1>4. /\ up = [p \in Players |-> <<>>] /\ down = [p \in Players |-> <<>>]
      /\ up \in [Players -> Seq(Events)] /\ down \in [Players -> Seq(Messages)]
  BY DEF Init
<1>5. carry \in [Players -> CarryRecords]
  <2>1. NoCarry \in CarryRecords
    BY DEF NoCarry, CarryRecords
  <2> QED BY <2>1 DEF Init
<1>6. round \in [Players -> RoundRecords]
  <2>1. NoRound \in RoundRecords
    BY RoundsAssumption DEF NoRound, RoundRecords, Modes
  <2> QED BY <2>1 DEF Init
<1>7. enemies \in [Players -> EnemyRecords]
  <2>1. \A m \in Maps : EnemiesAt(m) \in EnemyRecords
    <3>1. AllUp \in [Ids -> 0 .. MaxHp]
      BY EnemiesAssumption DEF AllUp
    <3> QED BY <3>1 DEF EnemiesAt, EnemyRecords
  <2> QED BY <1>2, <2>1 DEF Init
<1>8. switches \in [Players -> SwitchRecords]
  <2>1. AllAtRest \in SwitchRecords
    BY SwitchesAssumption DEF AllAtRest, AtRest, SwitchRecords
  <2> QED BY <2>1 DEF Init
<1>9. /\ scene \in Scenes /\ online \subseteq Players /\ told \subseteq Players
      /\ crossed \subseteq Kinds /\ sets \in 0 .. MaxSets
      /\ dealt \in [Maps -> [Ids -> 0 .. MaxHits]]
      /\ \A m \in Maps, i \in Ids : dealt[m][i] = 0
  <2>1. 0 \in 0 .. MaxHits /\ 0 \in 0 .. MaxSets
    BY AdventureAssumption
  <2> QED BY <2>1 DEF Init
<1>10. TypeOK
  BY <1>1, <1>2, <1>3, <1>4, <1>5, <1>6, <1>7, <1>8, <1>9 DEF TypeOK, FiguresInv
<1>11. ASSUME NEW m \in Maps, NEW i \in Ids
       PROVE  Unlanded(m, i) = 0
  <2> DEFINE f == HitsUp(m, i)
  <2>1. f \in [Players -> Nat] /\ \A q \in Players : f[q] = IF q = Host THEN 0 ELSE 0
    BY <1>4, NoHitsYet DEF HitsUp
  <2> HIDE DEF f
  <2>2. SumFunctionOnSet(f, Players) = 0
    BY <2>1, Sorts, SumSingle
  <2> QED BY <2>2 DEF Unlanded, f
<1>12. HitsCounted
  BY <1>9, <1>11 DEF HitsCounted
<1> QED BY <1>1, <1>10, <1>12 DEF Core

LEMMA HearCore ==
  ASSUME Core, NEW p \in Players, NEW q \in Players, Hear(p, q)
  PROVE  TypeOK' /\ HitsCounted'
<1> USE DEF Core
<1>1. UNCHANGED <<scene, online, at, up, down, games, history>>
  BY DEF Hear
<1>2. seen' \in [Players -> [Players -> Maps \cup {Nobody}]]
  <2>1. PICK news : /\ seen' = [seen EXCEPT ![p][q] = news]
                    /\ news = IF p # Host /\ q # Host THEN seen[Host][q]
                              ELSE IF q \in online THEN at[q] ELSE Nobody
    BY DEF Hear
  <2>2. news \in Maps \cup {Nobody}
    BY <2>1, Sorts DEF TypeOK
  <2> QED BY <2>1, <2>2 DEF TypeOK
<1>3. TypeOK'
  BY <1>1, <1>2 DEF TypeOK, games, history
<1> QED BY <1>1, <1>3, UnlandedSame DEF HitsCounted, history

LEMMA LeaveCore ==
  ASSUME Core, NEW c \in Clients, Leave(c)
  PROVE  TypeOK' /\ HitsCounted'
<1> USE DEF Core
<1>1. /\ c \in Players /\ online' = online \ {c} /\ UpChange(c) /\ up'[c] = <<>>
      /\ down' \in [Players -> Seq(Messages)]
      /\ UNCHANGED <<scene, at, seen, switches, told, crossed, sets>>
  BY LeaveIs
<1>2. dealt' = [m \in Maps |-> [i \in Ids |-> dealt[m][i] - HitsIn(up[c], m, i)]]
  BY DEF Leave
<1>3. ASSUME NEW m \in Maps, NEW i \in Ids
      PROVE  /\ dealt[m][i] - HitsIn(up[c], m, i) \in 0 .. MaxHits
             /\ Unlanded(m, i)' \in Nat /\ Unlanded(m, i)' <= dealt'[m][i]
  <2>1. /\ Unlanded(m, i) \in Nat /\ Unlanded(m, i)' \in Nat
        /\ HitsIn(up[c], m, i) \in Nat /\ HitsIn(up[c], m, i) <= Unlanded(m, i)
        /\ Unlanded(m, i)' = Unlanded(m, i) - HitsIn(up[c], m, i) + HitsIn(up'[c], m, i)
    BY <1>1, UnlandedChange
  <2>2. HitsIn(up'[c], m, i) = 0
    BY <1>1, NoHitsYet
  <2>3. dealt[m][i] \in 0 .. MaxHits /\ Unlanded(m, i) <= dealt[m][i]
    BY DEF TypeOK, HitsCounted
  <2>4. dealt'[m][i] = dealt[m][i] - HitsIn(up[c], m, i)
    BY <1>2
  <2> QED BY <2>1, <2>2, <2>3, <2>4, AdventureAssumption
<1>4. dealt' \in [Maps -> [Ids -> 0 .. MaxHits]]
  BY <1>2, <1>3
<1>5. carry' \in [Players -> CarryRecords] /\ round' \in [Players -> RoundRecords]
      /\ enemies' \in [Players -> EnemyRecords]
  <2>1. NoCarry \in CarryRecords
    BY DEF NoCarry, CarryRecords
  <2>2. ModesReset(round[c]) \in RoundRecords
    <3>1. round[c] \in RoundRecords /\ 0 \in 0 .. HeadStart
      BY <1>1, RoundsAssumption DEF TypeOK
    <3> QED BY <3>1 DEF ModesReset, RoundRecords
  <2>3. EnemyReset(enemies[c]) \in EnemyRecords
    <3>1. enemies[c] \in EnemyRecords
      BY <1>1 DEF TypeOK
    <3> QED BY <3>1 DEF EnemyReset, EnemyRecords
  <2>4. /\ carry' = [carry EXCEPT ![c] = NoCarry]
        /\ round' = [round EXCEPT ![c] = ModesReset(round[c])]
        /\ enemies' = [enemies EXCEPT ![c] = EnemyReset(enemies[c])]
    BY DEF Leave
  <2>5. /\ carry \in [Players -> CarryRecords] /\ round \in [Players -> RoundRecords]
        /\ enemies \in [Players -> EnemyRecords]
    BY DEF TypeOK
  <2>6. carry' \in [Players -> CarryRecords]
    BY <2>1, <2>4, <2>5
  <2>7. round' \in [Players -> RoundRecords]
    BY <2>2, <2>4, <2>5
  <2>8. enemies' \in [Players -> EnemyRecords]
    BY <2>3, <2>4, <2>5
  <2> QED BY <2>6, <2>7, <2>8
<1>6. figures' \in [Players -> FigureRecords]
  BY LeaveFigures DEF FiguresInv
<1>7. TypeOK'
  BY <1>1, <1>4, <1>5, <1>6 DEF TypeOK, UpChange
<1> QED BY <1>3, <1>7 DEF HitsCounted

LEMMA AdjudicateCore ==
  ASSUME Core, NEW p \in Players, Adjudicate(p)
  PROVE  TypeOK' /\ HitsCounted'
<1> USE DEF Core
<1> DEFINE e == Head(up[p])
<1>1. /\ up[p] # <<>> /\ UpChange(p) /\ up'[p] = Tail(up[p])
      /\ down' \in [Players -> Seq(Messages)]
      /\ told' = IF e.kind = "MODE" /\ e.a = "START" THEN Receivers(p, e) ELSE told
      /\ UNCHANGED <<scene, online, at, seen, games, dealt, crossed, sets>>
  BY AdjudicateIs
<1>2. Receivers(p, e) \subseteq Players
  BY DEF Receivers, WantedBy
<1>3. told' \subseteq Players
  BY <1>1, <1>2 DEF TypeOK
<1>4. TypeOK'
  BY <1>1, <1>3 DEF TypeOK, UpChange, games
<1>5. ASSUME NEW m \in Maps, NEW i \in Ids
      PROVE  Unlanded(m, i)' \in Nat /\ Unlanded(m, i)' <= dealt'[m][i]
  <2>1. /\ Unlanded(m, i) \in Nat /\ Unlanded(m, i)' \in Nat
        /\ HitsIn(up[p], m, i) \in Nat /\ HitsIn(up'[p], m, i) \in Nat
        /\ Unlanded(m, i)' = Unlanded(m, i) - HitsIn(up[p], m, i) + HitsIn(up'[p], m, i)
    BY <1>1, UnlandedChange
  <2>2. HitsIn(up'[p], m, i) <= HitsIn(up[p], m, i)
    <3>1. up[p] \in Seq(Events)
      BY DEF TypeOK
    <3>2. HitsIn(up[p], m, i) = HitsIn(Tail(up[p]), m, i)
            + (IF Head(up[p]) = Event("HIT", m, i, Nobody) THEN 1 ELSE 0)
      BY <1>1, <3>1, HitsAre
    <3> QED BY <1>1, <2>1, <3>2
  <2>3. Unlanded(m, i) <= dealt[m][i] /\ dealt[m][i] \in Nat
    BY AdventureAssumption DEF HitsCounted, TypeOK
  <2> QED BY <1>1, <2>1, <2>2, <2>3
<1> QED BY <1>4, <1>5 DEF HitsCounted

LEMMA HitCore ==
  ASSUME Core, NEW p \in Players, NEW i \in Ids, Hit(p, i)
  PROVE  TypeOK' /\ HitsCounted'
<1> USE DEF Core
<1> DEFINE e == Event("HIT", at[p], i, Nobody)
<1>1. /\ dealt[at[p]][i] < MaxHits /\ Says(p, <<e>>)
      /\ enemies' = [enemies EXCEPT ![p] = Damage(enemies[p], i)]
      /\ dealt' = [dealt EXCEPT ![at[p]][i] = @ + 1]
      /\ UNCHANGED <<scene, online, at, seen, down, figures, carry, round,
                     switches, told, crossed, sets>>
  BY DEF Hit
<1>2. at[p] \in Maps /\ enemies[p] \in EnemyRecords /\ up[p] \in Seq(Events)
  BY DEF TypeOK
<1>3. e \in Events
  BY <1>2, EventsAre
<1>4. UpChange(p) /\ up'[p] = up[p] \o <<e>>
  <2>1. <<e>> \in Seq(Events)
    BY <1>3
  <2> QED BY <1>1, <2>1, SaysIs DEF SaysMore
<1>5. enemies' \in [Players -> EnemyRecords]
  <2>1. Damage(enemies[p], i) \in EnemyRecords
    BY <1>2, DamageType
  <2> QED BY <1>1, <2>1 DEF TypeOK
<1>6. /\ dealt' \in [Maps -> [Ids -> 0 .. MaxHits]]
      /\ \A m \in Maps, j \in Ids :
           dealt'[m][j] = dealt[m][j] + IF m = at[p] /\ j = i THEN 1 ELSE 0
  <2>1. dealt \in [Maps -> [Ids -> 0 .. MaxHits]]
    BY DEF TypeOK
  <2>2. dealt[at[p]][i] + 1 \in 0 .. MaxHits
    BY <1>1, <1>2, <2>1, AdventureAssumption
  <2> DEFINE n == dealt[at[p]][i] + 1
  <2>3. dealt' = [dealt EXCEPT ![at[p]][i] = n] /\ n \in 0 .. MaxHits
    BY <1>1, <2>2
  <2>4. dealt' \in [Maps -> [Ids -> 0 .. MaxHits]]
    <3> HIDE DEF n
    <3> QED BY <1>2, <2>1, <2>3
  <2>5. \A m \in Maps, j \in Ids :
          dealt'[m][j] = IF m = at[p] /\ j = i THEN n ELSE dealt[m][j]
    <3> HIDE DEF n
    <3> QED BY <1>2, <2>1, <2>3
  <2> QED BY <2>1, <2>4, <2>5
<1>7. TypeOK'
  BY <1>1, <1>4, <1>5, <1>6 DEF TypeOK, UpChange
<1>8. ASSUME NEW m \in Maps, NEW j \in Ids
      PROVE  Unlanded(m, j)' \in Nat /\ Unlanded(m, j)' <= dealt'[m][j]
  <2>1. /\ Unlanded(m, j) \in Nat /\ Unlanded(m, j)' \in Nat
        /\ HitsIn(up[p], m, j) \in Nat
        /\ Unlanded(m, j)' = Unlanded(m, j) - HitsIn(up[p], m, j) + HitsIn(up'[p], m, j)
    BY <1>4, UnlandedChange
  <2>2. HitsIn(up'[p], m, j) = HitsIn(up[p], m, j) + IF m = at[p] /\ j = i THEN 1 ELSE 0
    <3>1. up'[p] = Append(up[p], e)
      BY <1>2, <1>3, <1>4
    <3>2. e = Event("HIT", m, j, Nobody) <=> m = at[p] /\ j = i
      BY DEF Event
    <3> HIDE DEF e
    <3> QED BY <1>2, <1>3, <3>1, <3>2, HitsAre
  <2>3. Unlanded(m, j) <= dealt[m][j] /\ dealt[m][j] \in Nat
    BY AdventureAssumption DEF HitsCounted, TypeOK
  <2> QED BY <1>6, <2>1, <2>2, <2>3
<1> QED BY <1>7, <1>8 DEF HitsCounted

(* Who reports no hit changes nothing about the hits under way.            *)
LEMMA UnlandedQuiet ==
  ASSUME TypeOK, NEW p \in Players, NEW t \in Seq(Events), SaysMore(p, t),
         \A j \in 1 .. Len(t) : t[j].kind # "HIT",
         NEW m, NEW i
  PROVE  /\ HitsIn(up'[p], m, i) = HitsIn(up[p], m, i)
         /\ Unlanded(m, i)' = Unlanded(m, i)
<1>1. /\ Unlanded(m, i) \in Nat /\ Unlanded(m, i)' \in Nat
      /\ HitsIn(up[p], m, i) \in Nat
      /\ Unlanded(m, i)' = Unlanded(m, i) - HitsIn(up[p], m, i) + HitsIn(up'[p], m, i)
  BY UnlandedChange DEF SaysMore
<1>2. HitsIn(up'[p], m, i) = HitsIn(up[p], m, i)
  <2>1. up[p] \in Seq(Events)
    BY DEF TypeOK
  <2>2. HitsIn(t, m, i) = 0
    BY HitsAre
  <2>3. HitsIn(up'[p], m, i) = HitsIn(up[p], m, i) + HitsIn(t, m, i)
    BY <2>1, HitsAre DEF SaysMore
  <2> QED BY <1>1, <2>2, <2>3
<1> QED BY <1>1, <1>2

(* What a switch that is set makes its player say.                         *)
LEMMA SwitchReportIs ==
  ASSUME NEW s, NEW k \in Kinds, NEW v \in Positions, NEW m \in Maps
  PROVE  /\ SwitchReport(s, k, v, m) \in Seq(Events)
         /\ \A j \in 1 .. Len(SwitchReport(s, k, v, m)) :
              SwitchReport(s, k, v, m)[j] = Event(k, m, v, Nobody)
<1> DEFINE e == Event(k, m, v, Nobody)
           t == SwitchReport(s, k, v, m)
<1>1. e \in Events
  BY EventsAre
<1>2. t = <<>> \/ t = <<e>>
  BY DEF SwitchReport
<1> HIDE DEF e, t
<1>3. t \in Seq(Events) /\ \A j \in 1 .. Len(t) : t[j] = e
  <2>1. \A j \in 1 .. Len(<<e>>) : <<e>>[j] = e
    BY OneEvent
  <2>2. CASE t = <<>>
    BY <2>2
  <2>3. CASE t = <<e>>
    BY <1>1, <2>1, <2>3
  <2> QED BY <1>2, <2>2, <2>3
<1> QED BY <1>3 DEF e, t

LEMMA SetIs ==
  ASSUME TypeOK, NEW p \in Players, NEW k \in Kinds, NEW v \in Positions, Set(p, k, v)
  PROVE  LET t == SwitchReport(switches[p], k, v, at[p])
         IN /\ p \in online /\ at[p] \in Maps /\ t \in Seq(Events)
            /\ \A j \in 1 .. Len(t) : t[j] = Event(k, at[p], v, Nobody)
            /\ SaysMore(p, t)
            /\ switches' \in [Players -> SwitchRecords]
            /\ switches'[p] = [switches[p] EXCEPT ![k] = v]
            /\ \A q \in Players \ {p} : switches'[q] = switches[q]
            /\ crossed' = IF UnseenBy(p, k) THEN crossed \cup {k} ELSE crossed
            /\ sets < MaxSets /\ sets' = sets + 1
            /\ UNCHANGED <<scene, online, at, seen, down, figures, carry, round,
                           enemies, told, dealt>>
<1> DEFINE t == SwitchReport(switches[p], k, v, at[p])
           x == [switches[p] EXCEPT ![k] = v]
<1>1. /\ p \in online /\ sets < MaxSets /\ Says(p, t)
      /\ switches' = [switches EXCEPT ![p] = x]
      /\ crossed' = IF UnseenBy(p, k) THEN crossed \cup {k} ELSE crossed
      /\ sets' = sets + 1
      /\ UNCHANGED <<scene, online, at, seen, down, figures, carry, round,
                     enemies, told, dealt>>
  <2>1. switches' = [switches EXCEPT ![p][k] = v]
    BY DEF Set
  <2>2. switches' = [switches EXCEPT ![p] = x]
    BY <2>1
  <2> QED BY <2>2 DEF Set
<1>2. at[p] \in Maps /\ switches[p] \in SwitchRecords
      /\ switches \in [Players -> SwitchRecords]
  BY DEF TypeOK
<1>3. t \in Seq(Events) /\ \A j \in 1 .. Len(t) : t[j] = Event(k, at[p], v, Nobody)
  BY <1>2, SwitchReportIs
<1>4. x \in SwitchRecords
  BY <1>2 DEF SwitchRecords
<1> HIDE DEF t, x
<1>5. SaysMore(p, t)
  BY <1>1, <1>3, SaysIs
<1>6. /\ switches' \in [Players -> SwitchRecords] /\ switches'[p] = x
      /\ \A q \in Players \ {p} : switches'[q] = switches[q]
  BY <1>1, <1>2, <1>4, OneChanged
<1> QED BY <1>1, <1>2, <1>3, <1>5, <1>6 DEF t, x

LEMMA SetCore ==
  ASSUME Core, NEW p \in Players, NEW k \in Kinds, NEW v \in Positions, Set(p, k, v)
  PROVE  TypeOK' /\ HitsCounted'
<1> USE DEF Core
<1> DEFINE t == SwitchReport(switches[p], k, v, at[p])
<1>1. /\ t \in Seq(Events)
      /\ \A j \in 1 .. Len(t) : t[j] = Event(k, at[p], v, Nobody)
      /\ SaysMore(p, t)
      /\ switches' \in [Players -> SwitchRecords]
      /\ crossed' \in {crossed, crossed \cup {k}}
      /\ sets < MaxSets /\ sets' = sets + 1
      /\ UNCHANGED <<scene, online, at, seen, down, figures, carry, round,
                     enemies, told, dealt>>
  BY SetIs
<1>2. crossed' \subseteq Kinds /\ sets' \in 0 .. MaxSets
  BY <1>1, AdventureAssumption DEF TypeOK
<1>3. TypeOK'
  BY <1>1, <1>2 DEF TypeOK, UpChange, SaysMore
<1>4. \A j \in 1 .. Len(t) : t[j].kind # "HIT"
  BY <1>1 DEF Event, Kinds
<1> HIDE DEF t
<1>5. \A m, i : Unlanded(m, i)' = Unlanded(m, i)
  BY <1>1, <1>4, UnlandedQuiet
<1>6. HitsCounted'
  BY <1>1, <1>5 DEF HitsCounted
<1> QED BY <1>3, <1>6

LEMMA FrameCore ==
  ASSUME Core, NEW p \in Players, Frame(p)
  PROVE  TypeOK' /\ HitsCounted'
<1> USE DEF Core
<1>1. /\ \E m, loaded, k, h, f, r, c : FrameOf(p, m, loaded, k, h, f, r, c)
      /\ UNCHANGED <<scene, online, seen, history>>
  BY FrameUnfolds
<1>2. PICK m, loaded, k, h, f, r, c : FrameOf(p, m, loaded, k, h, f, r, c)
  BY <1>1
<1> DEFINE says == FrameSays(m, h[k].enemies, r, c)
<1>3. /\ says \in Seq(Events)
      /\ \A i \in 1 .. Len(says) : says[i].kind \in {"DEAD", "MODE", "CARRY"}
  BY <1>2, FrameIs
<1>4. /\ SaysMore(p, says)
      /\ at' \in [Players -> Maps] /\ down' \in [Players -> Seq(Messages)]
      /\ enemies' \in [Players -> EnemyRecords]
      /\ round' \in [Players -> RoundRecords]
      /\ carry' \in [Players -> CarryRecords]
      /\ switches' \in [Players -> SwitchRecords]
  BY <1>2, FrameMoves
<1>5. figures' \in [Players -> FigureRecords]
  BY FrameFigures DEF FiguresInv
<1>6. TypeOK'
  BY <1>1, <1>4, <1>5 DEF TypeOK, UpChange, SaysMore, history
<1> HIDE DEF says
<1>7. \A m_1, i : Unlanded(m_1, i)' = Unlanded(m_1, i)
  BY <1>3, <1>4, UnlandedQuiet
<1>8. HitsCounted'
  BY <1>1, <1>7 DEF HitsCounted, history
<1> QED BY <1>6, <1>8

LEMMA NextCore == Core /\ [Next]_vars => Core'
<1> SUFFICES ASSUME Core, [Next]_vars PROVE Core'
  OBVIOUS
<1>1. FiguresInv'
  BY NextFigures DEF Core
<1>2. TypeOK' /\ HitsCounted'
  <2>1. CASE \E p, q \in Players : Hear(p, q)
    BY <2>1, HearCore
  <2>2. CASE \E c \in Clients : Leave(c)
    BY <2>2, LeaveCore
  <2>3. CASE \E p \in Players : Adjudicate(p)
    BY <2>3, AdjudicateCore
  <2>4. CASE \E p \in Players : Frame(p)
    BY <2>4, FrameCore
  <2>5. CASE \E p \in Players, i \in Ids : Hit(p, i)
    BY <2>5, HitCore
  <2>6. CASE \E p \in Players, k \in Kinds, v \in Positions : Set(p, k, v)
    BY <2>6, SetCore
  <2>7. CASE UNCHANGED vars
    <3>1. TypeOK'
      BY <2>7 DEF Core, TypeOK, vars, network, games, history
    <3>2. UNCHANGED <<up, dealt>>
      BY <2>7 DEF vars, network, history
    <3> QED BY <3>1, <3>2, UnlandedSame DEF Core, HitsCounted
  <2> QED BY <2>1, <2>2, <2>3, <2>4, <2>5, <2>6, <2>7 DEF Next
<1> QED BY <1>1, <1>2 DEF Core

(* Every variable keeps its type; above all no enemy takes more hits than  *)
(* there are, nor are hits lost with a leaver that were never dealt.       *)
THEOREM TypesKept == Spec => []TypeOK
<1>1. Core => TypeOK
  BY DEF Core
<1> QED BY <1>1, InitCore, NextCore, PTL DEF Spec
-----------------------------------------------------------------------------
(* What is on the way, and whose: who is in the session; that the host     *)
(* knows where those are that stay in their map; that nobody is sent what  *)
(* it has reported itself; and that what those report and get is about     *)
(* their map, or about everybody.                                          *)

Routes ==
  /\ Host \in online
  /\ \A p \in Players \ online : up[p] = <<>> /\ down[p] = <<>>
  /\ \A p \in (Stayers \cap online) \ {Host} : seen[Host][p] = at[p]
  /\ \A p \in Players : \A d \in ToSet(down[p]) : d.from # p
  /\ \A p \in Stayers : \A e \in ToSet(up[p]) : e.kind = "MODE" \/ e.map = at[p]
  /\ \A p \in Stayers : \A d \in ToSet(down[p]) :
       d.event.kind = "MODE" \/ d.event.map = at[p]

(* Nobody moves, leaves, or gets anything, p reports t.                    *)
LEMMA SaysRoutes ==
  ASSUME TypeOK, Routes, NEW p \in online, NEW t \in Seq(Events), SaysMore(p, t),
         UNCHANGED <<online, at, seen, down>>,
         p \in Stayers => \A e \in ToSet(t) : e.kind = "MODE" \/ e.map = at[p]
  PROVE  Routes'
<1>1. p \in Players /\ up[p] \in Seq(Events)
  BY DEF TypeOK
<1>2. \A q \in Players \ {p} : up'[q] = up[q]
  BY DEF SaysMore, UpChange
<1>3. ToSet(up'[p]) = ToSet(up[p]) \cup ToSet(t)
  BY <1>1, ConcatSet DEF SaysMore
<1>4. \A q \in Players \ online : up'[q] = <<>>
  BY <1>2 DEF Routes
<1>5. \A q \in Stayers : \A e \in ToSet(up'[q]) : e.kind = "MODE" \/ e.map = at[q]
  BY <1>2, <1>3, Sorts DEF Routes
<1> QED BY <1>4, <1>5 DEF Routes

LEMMA InitRoutes == Init => Routes
<1> SUFFICES ASSUME Init PROVE Routes
  OBVIOUS
<1>1. /\ online = Players /\ up = [p \in Players |-> <<>>]
      /\ down = [p \in Players |-> <<>>]
  BY DEF Init
<1>2. ToSet(<<>>) = {}
  BY DEF ToSet
<1>3. \A p \in Stayers \ {Host} : seen[Host][p] = at[p]
  <2>1. PICK late \in SUBSET (Clients \cap Walkers) :
          seen = [p \in Players |-> [q \in Players |->
                    IF q \in late \/ p = q THEN Nobody ELSE at[q]]]
    BY DEF Init
  <2> QED BY <2>1, Sorts DEF Stayers
<1> QED BY <1>1, <1>2, <1>3, Sorts DEF Routes

LEMMA HearRoutes ==
  ASSUME TypeOK, Routes, NEW p \in Players, NEW q \in Players, Hear(p, q)
  PROVE  Routes'
<1>1. UNCHANGED <<online, at, up, down>>
  BY DEF Hear
<1>2. \A c \in (Stayers \cap online) \ {Host} : seen'[Host][c] = at[c]
  <2>1. PICK news : /\ seen' = [seen EXCEPT ![p][q] = news]
                    /\ news = IF p # Host /\ q # Host THEN seen[Host][q]
                              ELSE IF q \in online THEN at[q] ELSE Nobody
    BY DEF Hear
  <2>2. seen \in [Players -> [Players -> Maps \cup {Nobody}]]
    BY DEF TypeOK
  <2> SUFFICES ASSUME NEW c \in (Stayers \cap online) \ {Host}
               PROVE  seen'[Host][c] = at[c]
    OBVIOUS
  <2>3. c \in Players /\ Host \in Players /\ seen[Host][c] = at[c]
    BY Sorts DEF Routes
  <2>4. CASE p = Host /\ c = q
    BY <2>1, <2>2, <2>3, <2>4
  <2>5. CASE ~(p = Host /\ c = q)
    BY <2>1, <2>2, <2>3, <2>5
  <2> QED BY <2>4, <2>5
<1> QED BY <1>1, <1>2 DEF Routes

LEMMA LeaveRoutes ==
  ASSUME TypeOK, Routes, NEW c \in Clients, Leave(c)
  PROVE  Routes'
<1>1. /\ c \in Players \ {Host} /\ online' = online \ {c}
      /\ UpChange(c) /\ up'[c] = <<>> /\ down'[c] = <<>>
      /\ \A q \in Players \ {c} : down'[q] = down[q]
      /\ UNCHANGED <<at, seen>>
  BY LeaveIs
<1>2. ToSet(<<>>) = {}
  BY DEF ToSet
<1>3. \A q \in Players \ {c} : up'[q] = up[q]
  BY <1>1 DEF UpChange
<1> QED BY <1>1, <1>2, <1>3, Sorts DEF Routes

(* Whom the host passes an event of p on to.                               *)
LEMMA ReceiversAre ==
  ASSUME TypeOK, Routes, NEW p \in Players, NEW e
  PROVE  /\ Receivers(p, e) \subseteq online \ {p}
         /\ \A q \in Stayers \cap online : KnownAt(q) = at[q]
         /\ \A q \in (Stayers \cap online) \ {p} :
              q \in Receivers(p, e) <=> e.kind = "MODE" \/ e.map = at[q]
<1>1. \A q \in Stayers \cap online : KnownAt(q) = at[q] /\ at[q] # Nobody
  BY Sorts DEF KnownAt, Routes, TypeOK
<1> QED BY <1>1, Sorts DEF Receivers, WantedBy

LEMMA AdjudicateRoutes ==
  ASSUME TypeOK, Routes, NEW p \in Players, Adjudicate(p)
  PROVE  Routes'
<1> DEFINE e == Head(up[p])
           d == [from |-> p, event |-> e]
<1>1. /\ up[p] # <<>> /\ UpChange(p) /\ up'[p] = Tail(up[p])
      /\ d \in Messages
      /\ \A q \in Players : /\ q \in Receivers(p, e) => down'[q] = Append(down[q], d)
                            /\ q \notin Receivers(p, e) => down'[q] = down[q]
      /\ UNCHANGED <<online, at, seen>>
  BY AdjudicateIs
<1>2. up[p] \in Seq(Events) /\ down \in [Players -> Seq(Messages)]
  BY DEF TypeOK
<1>3. p \in online
  BY <1>1 DEF Routes
<1>4. ToSet(up'[p]) \subseteq ToSet(up[p])
  BY <1>1, <1>2, HeadTailSet
<1>5. /\ Receivers(p, e) \subseteq online \ {p}
      /\ \A q \in Stayers \cap Receivers(p, e) :
           e.kind = "MODE" \/ e.map = at[q]
  BY ReceiversAre
<1>6. \A q \in Players :
        \A x \in ToSet(down'[q]) : x \in ToSet(down[q]) \/ (x = d /\ q \in Receivers(p, e))
  <2> SUFFICES ASSUME NEW q \in Players, NEW x \in ToSet(down'[q])
               PROVE  x \in ToSet(down[q]) \/ (x = d /\ q \in Receivers(p, e))
    OBVIOUS
  <2> HIDE DEF d, e
  <2>1. CASE q \in Receivers(p, e)
    <3>1. ToSet(Append(down[q], d)) = ToSet(down[q]) \cup {d}
      BY <1>1, <1>2, AppendSet
    <3> QED BY <1>1, <2>1, <3>1
  <2>2. CASE q \notin Receivers(p, e)
    <3>1. down'[q] = down[q]
      BY <1>1, <2>2
    <3> QED BY <3>1
  <2> QED BY <2>1, <2>2
<1>7. d.from = p /\ d.event = e
  OBVIOUS
<1> HIDE DEF d, e
<1>8. \A q \in Players : \A x \in ToSet(down'[q]) : x.from # q
  BY <1>5, <1>6, <1>7 DEF Routes
<1>9. \A q \in Stayers : \A x \in ToSet(down'[q]) :
        x.event.kind = "MODE" \/ x.event.map = at[q]
  BY <1>5, <1>6, <1>7, Sorts DEF Routes
<1>10. \A q \in Stayers : \A x \in ToSet(up'[q]) : x.kind = "MODE" \/ x.map = at[q]
  BY <1>1, <1>4, Sorts DEF Routes, UpChange
<1>11. \A q \in Players \ online : up'[q] = <<>> /\ down'[q] = <<>>
  BY <1>1, <1>3, <1>5 DEF Routes, UpChange
<1> QED BY <1>1, <1>8, <1>9, <1>10, <1>11 DEF Routes

LEMMA HitRoutes ==
  ASSUME TypeOK, Routes, NEW p \in Players, NEW i \in Ids, Hit(p, i)
  PROVE  Routes'
<1> DEFINE e == Event("HIT", at[p], i, Nobody)
           t == <<e>>
<1>1. p \in online /\ Says(p, t) /\ UNCHANGED <<online, at, seen, down>>
  BY DEF Hit
<1>2. at[p] \in Maps /\ e \in Events /\ e.map = at[p]
  <2>1. at[p] \in Maps
    BY DEF TypeOK
  <2> QED BY <2>1, EventsAre DEF Event
<1>3. t \in Seq(Events) /\ \A x \in ToSet(t) : x.map = at[p]
  <2> HIDE DEF e
  <2>1. t \in Seq(Events) /\ \A j \in 1 .. Len(t) : t[j] = e
    BY <1>2, OneEvent
  <2> HIDE DEF t
  <2> QED BY <1>2, <2>1, InSet
<1> HIDE DEF t
<1>4. SaysMore(p, t)
  BY <1>1, <1>3, SaysIs
<1> QED BY <1>1, <1>3, <1>4, SaysRoutes

LEMMA SetRoutes ==
  ASSUME TypeOK, Routes, NEW p \in Players, NEW k \in Kinds, NEW v \in Positions,
         Set(p, k, v)
  PROVE  Routes'
<1> DEFINE t == SwitchReport(switches[p], k, v, at[p])
<1>1. /\ p \in online /\ t \in Seq(Events)
      /\ \A j \in 1 .. Len(t) : t[j] = Event(k, at[p], v, Nobody)
      /\ SaysMore(p, t)
      /\ UNCHANGED <<online, at, seen, down>>
  BY SetIs
<1> HIDE DEF t
<1>2. \A x \in ToSet(t) : x.map = at[p]
  BY <1>1, InSet DEF Event
<1> QED BY <1>1, <1>2, SaysRoutes

LEMMA FrameRoutes ==
  ASSUME TypeOK, Routes, NEW p \in Players, Frame(p)
  PROVE  Routes'
<1>1. /\ \E m, loaded, k, h, f, r, c : FrameOf(p, m, loaded, k, h, f, r, c)
      /\ p \in online /\ UNCHANGED <<scene, online, seen, history>>
  BY FrameUnfolds
<1>2. PICK m, loaded, k, h, f, r, c : FrameOf(p, m, loaded, k, h, f, r, c)
  BY <1>1
<1> DEFINE says == FrameSays(m, h[k].enemies, r, c)
<1>3. /\ says \in Seq(Events) /\ k \in 0 .. Len(down[p])
      /\ \A i \in 1 .. Len(says) : \/ says[i].kind = "DEAD" /\ says[i].map = m
                                   \/ says[i].kind = "MODE" /\ p = Host
                                   \/ says[i].kind = "CARRY" /\ says[i].map = m
  BY <1>2, FrameIs
<1>4. /\ SaysMore(p, says)
      /\ at'[p] = m /\ \A q \in Players \ {p} : at'[q] = at[q] /\ down'[q] = down[q]
      /\ down'[p] = SubSeq(down[p], k + 1, Len(down[p]))
  BY <1>2, FrameMoves
<1>5. p \in Stayers => m = at[p]
  BY <1>2 DEF FrameOf, MapsAfter, MayLoad, Stayers
<1> HIDE DEF says
<1>6. up[p] \in Seq(Events) /\ down[p] \in Seq(Messages)
  BY DEF TypeOK
<1>7. ToSet(up'[p]) = ToSet(up[p]) \cup ToSet(says)
  BY <1>3, <1>4, <1>6, ConcatSet DEF SaysMore
<1>8. \A q \in Players \ {p} : up'[q] = up[q]
  BY <1>4 DEF SaysMore, UpChange
<1>9. \A x \in ToSet(says) : x.kind = "MODE" \/ x.map = m
  BY <1>3, InSet
<1>10. ToSet(down'[p]) \subseteq ToSet(down[p])
  BY <1>3, <1>4, <1>6, SplitSet
<1>11. \A q \in Stayers : at'[q] = at[q]
  BY <1>4, <1>5, Sorts
<1>12. \A q \in Stayers : \A e \in ToSet(up'[q]) : e.kind = "MODE" \/ e.map = at'[q]
  BY <1>4, <1>5, <1>7, <1>8, <1>9, <1>11, Sorts DEF Routes
<1>13. \A q \in Players : \A d \in ToSet(down'[q]) : d.from # q
  BY <1>4, <1>10 DEF Routes
<1>14. \A q \in Stayers : \A d \in ToSet(down'[q]) :
         d.event.kind = "MODE" \/ d.event.map = at'[q]
  BY <1>4, <1>10, <1>11, Sorts DEF Routes
<1>15. \A q \in (Stayers \cap online) \ {Host} : seen'[Host][q] = at'[q]
  BY <1>1, <1>11 DEF Routes
<1>16. \A q \in Players \ online : up'[q] = <<>> /\ down'[q] = <<>>
  BY <1>1, <1>4, <1>8 DEF Routes
<1> QED BY <1>1, <1>12, <1>13, <1>14, <1>15, <1>16 DEF Routes

(* The messages a frame takes, one at a time.                              *)
LEMMA FrameTrace ==
  ASSUME TypeOK, NEW p \in Players, NEW m, NEW loaded, NEW k, NEW h,
         NEW f, NEW r, NEW c,
         FrameOf(p, m, loaded, k, h, f, r, c)
  PROVE  /\ m \in Maps /\ k \in Nat /\ k <= Len(down[p])
         /\ h \in [0 .. k -> Games] /\ h[0] = Resumed(p, loaded)
         /\ \A i \in 1 .. k : /\ down[p][i] \in Messages
                              /\ h[i] = ApplyEvent(h[i - 1], p, m, down[p][i])
<1>1. m \in Maps /\ k \in 0 .. Len(down[p])
  BY FrameIs
<1>2. down[p] \in Seq(Messages)
  BY DEF TypeOK
<1> DEFINE q == SubSeq(down[p], 1, k)
<1>3. Len(q) = k /\ \A i \in 1 .. k : q[i] = down[p][i] /\ down[p][i] \in Messages
  BY <1>1, Taken
<1>4. InTurn(h, Resumed(p, loaded), p, m, q)
  BY DEF FrameOf
<1> HIDE DEF q
<1>5. /\ h \in [0 .. k -> Games] /\ h[0] = Resumed(p, loaded)
      /\ \A i \in 1 .. k : h[i] = ApplyEvent(h[i - 1], p, m, q[i])
  BY <1>3, <1>4 DEF InTurn
<1> QED BY <1>1, <1>2, <1>3, <1>5

-----------------------------------------------------------------------------
(* Where a switch lands: what the last event about it says, or where it is *)
(* if there is none.                                                       *)

EventsOf(queue) == [j \in DOMAIN queue |-> queue[j].event]

Speaks(k, s) == \E j \in 1 .. Len(s) : s[j].kind = k

EndsOn(k, v, s) ==
  \E j \in 1 .. Len(s) : /\ s[j].kind = k /\ s[j].a = v
                         /\ \A l \in j + 1 .. Len(s) : s[l].kind # k

Lands(k, v, x, s) == EndsOn(k, v, s) \/ (~Speaks(k, s) /\ x = v)

LEMMA EventsOfIs ==
  ASSUME NEW q \in Seq(Messages)
  PROVE  /\ EventsOf(q) \in Seq(Events) /\ Len(EventsOf(q)) = Len(q)
         /\ \A j \in 1 .. Len(q) : /\ EventsOf(q)[j] = q[j].event
                                   /\ q[j].event \in Events /\ q[j].from \in Players
<1>1. \A j \in 1 .. Len(q) : q[j] \in Messages
  OBVIOUS
<1> QED BY <1>1 DEF EventsOf, Messages

LEMMA EventsOfMoves ==
  ASSUME NEW q \in Seq(Messages)
  PROVE  /\ \A d \in Messages : EventsOf(Append(q, d)) = Append(EventsOf(q), d.event)
         /\ \A k \in 0 .. Len(q) : EventsOf(SubSeq(q, k + 1, Len(q)))
                                     = SubSeq(EventsOf(q), k + 1, Len(EventsOf(q)))
<1>1. \A j \in 1 .. Len(q) : q[j] \in Messages
  OBVIOUS
<1>2. /\ EventsOf(q) \in Seq(Events) /\ Len(EventsOf(q)) = Len(q)
      /\ \A j \in 1 .. Len(q) : EventsOf(q)[j] = q[j].event
  BY EventsOfIs
<1>3. ASSUME NEW d \in Messages
      PROVE  EventsOf(Append(q, d)) = Append(EventsOf(q), d.event)
  <2> DEFINE x == EventsOf(Append(q, d))
             y == Append(EventsOf(q), d.event)
  <2>1. d.event \in Events
    BY DEF Messages
  <2>2. /\ Append(q, d) \in Seq(Messages) /\ Len(Append(q, d)) = Len(q) + 1
        /\ \A j \in 1 .. Len(q) : Append(q, d)[j] = q[j]
        /\ Append(q, d)[Len(q) + 1] = d
    OBVIOUS
  <2>3. /\ x \in Seq(Events) /\ Len(x) = Len(q) + 1
        /\ \A j \in 1 .. Len(q) + 1 : x[j] = Append(q, d)[j].event
    BY <2>2, EventsOfIs
  <2>4. /\ y \in Seq(Events) /\ Len(y) = Len(q) + 1
        /\ \A j \in 1 .. Len(q) : y[j] = q[j].event
        /\ y[Len(q) + 1] = d.event
    BY <1>2, <2>1
  <2> HIDE DEF x, y
  <2>5. \A j \in 1 .. Len(q) + 1 : x[j] = y[j]
    BY <2>2, <2>3, <2>4
  <2>6. x = y
    BY <2>3, <2>4, <2>5
  <2> QED BY <2>6 DEF x, y
<1>4. ASSUME NEW k \in 0 .. Len(q)
      PROVE  EventsOf(SubSeq(q, k + 1, Len(q)))
               = SubSeq(EventsOf(q), k + 1, Len(EventsOf(q)))
  <2> DEFINE u == SubSeq(q, k + 1, Len(q))
             x == EventsOf(u)
             y == SubSeq(EventsOf(q), k + 1, Len(EventsOf(q)))
             n == Len(q) - k
  <2>1. /\ n \in Nat /\ u \in Seq(Messages) /\ Len(u) = n
        /\ \A j \in 1 .. n : u[j] = q[k + j] /\ k + j \in 1 .. Len(q)
    OBVIOUS
  <2>2. /\ x \in Seq(Events) /\ Len(x) = n /\ \A j \in 1 .. n : x[j] = u[j].event
    BY <2>1, EventsOfIs
  <2>3. /\ y \in Seq(Events) /\ Len(y) = n
        /\ \A j \in 1 .. n : y[j] = EventsOf(q)[k + j]
    BY <1>2
  <2> HIDE DEF u, x, y, n
  <2>4. \A j \in 1 .. n : x[j] = y[j]
    BY <1>2, <2>1, <2>2, <2>3
  <2>5. x = y
    BY <2>1, <2>2, <2>3, <2>4
  <2> QED BY <2>5 DEF x, y, u
<1> QED BY <1>3, <1>4

LEMMA SpeaksIs ==
  ASSUME NEW s \in Seq(Events), NEW k
  PROVE  /\ \A t \in Seq(Events) : Speaks(k, s \o t) <=> Speaks(k, s) \/ Speaks(k, t)
         /\ \A e \in Events : Speaks(k, Append(s, e)) <=> Speaks(k, s) \/ e.kind = k
         /\ s # <<>> => (Speaks(k, s) <=> Head(s).kind = k \/ Speaks(k, Tail(s)))
         /\ \A i \in 1 .. Len(s) + 1 : Speaks(k, SubSeq(s, i, Len(s))) => Speaks(k, s)
         /\ \A v : EndsOn(k, v, s) => Speaks(k, s)
<1>1. ASSUME NEW t \in Seq(Events)
      PROVE  Speaks(k, s \o t) <=> Speaks(k, s) \/ Speaks(k, t)
  <2>1. /\ s \o t \in Seq(Events) /\ Len(s \o t) = Len(s) + Len(t)
        /\ \A j \in 1 .. Len(s) : (s \o t)[j] = s[j] /\ j \in 1 .. Len(s \o t)
        /\ \A j \in 1 .. Len(t) : /\ (s \o t)[Len(s) + j] = t[j]
                                  /\ Len(s) + j \in 1 .. Len(s \o t)
        /\ \A j \in 1 .. Len(s \o t) :
             j \in 1 .. Len(s) \/ (j - Len(s) \in 1 .. Len(t) /\ j = Len(s) + (j - Len(s)))
    OBVIOUS
  <2> DEFINE u == s \o t
  <2> HIDE DEF u
  <2>2. Speaks(k, u) => Speaks(k, s) \/ Speaks(k, t)
    BY <2>1 DEF u, Speaks
  <2>3. Speaks(k, s) \/ Speaks(k, t) => Speaks(k, u)
    BY <2>1 DEF u, Speaks
  <2> QED BY <2>2, <2>3 DEF u
<1>2. ASSUME NEW e \in Events
      PROVE  Speaks(k, Append(s, e)) <=> Speaks(k, s) \/ e.kind = k
  <2>1. /\ Append(s, e) \in Seq(Events) /\ Len(Append(s, e)) = Len(s) + 1
        /\ \A j \in 1 .. Len(s) : Append(s, e)[j] = s[j]
        /\ Append(s, e)[Len(s) + 1] = e /\ Len(s) \in Nat
    OBVIOUS
  <2> QED BY <2>1 DEF Speaks
<1>3. ASSUME s # <<>>
      PROVE  Speaks(k, s) <=> Head(s).kind = k \/ Speaks(k, Tail(s))
  <2>1. /\ Head(s) = s[1] /\ Len(Tail(s)) = Len(s) - 1 /\ Len(s) \in Nat \ {0}
        /\ \A j \in 1 .. Len(s) - 1 : Tail(s)[j] = s[j + 1]
    BY <1>3
  <2>2. \A j \in 1 .. Len(s) : j = 1 \/ (j - 1 \in 1 .. Len(s) - 1 /\ (j - 1) + 1 = j)
    BY <2>1
  <2> QED BY <2>1, <2>2 DEF Speaks
<1>4. ASSUME NEW i \in 1 .. Len(s) + 1, Speaks(k, SubSeq(s, i, Len(s)))
      PROVE  Speaks(k, s)
  <2>1. /\ Len(SubSeq(s, i, Len(s))) = Len(s) - i + 1
        /\ \A j \in 1 .. Len(s) - i + 1 :
             SubSeq(s, i, Len(s))[j] = s[i + j - 1] /\ i + j - 1 \in 1 .. Len(s)
    OBVIOUS
  <2> QED BY <1>4, <2>1 DEF Speaks
<1>5. \A v : EndsOn(k, v, s) => Speaks(k, s)
  BY DEF EndsOn, Speaks
<1> QED BY <1>1, <1>2, <1>3, <1>4, <1>5

LEMMA EndsOnIs ==
  ASSUME NEW s \in Seq(Events), NEW k, NEW v
  PROVE  /\ \A t \in Seq(Events) : EndsOn(k, v, s) /\ ~Speaks(k, t) => EndsOn(k, v, s \o t)
         /\ \A e \in Events : e.kind = k /\ e.a = v => EndsOn(k, v, Append(s, e))
         /\ \A e \in Events : e.kind # k /\ EndsOn(k, v, s) => EndsOn(k, v, Append(s, e))
         /\ s # <<>> /\ EndsOn(k, v, s) =>
              IF Speaks(k, Tail(s)) THEN EndsOn(k, v, Tail(s))
              ELSE Head(s).kind = k /\ Head(s).a = v
<1>1. ASSUME NEW t \in Seq(Events), EndsOn(k, v, s), ~Speaks(k, t)
      PROVE  EndsOn(k, v, s \o t)
  <2>1. PICK j \in 1 .. Len(s) : /\ s[j].kind = k /\ s[j].a = v
                                 /\ \A l \in j + 1 .. Len(s) : s[l].kind # k
    BY <1>1 DEF EndsOn
  <2> DEFINE u == s \o t
  <2>2. /\ Len(u) = Len(s) + Len(t) /\ Len(s) \in Nat /\ Len(t) \in Nat
        /\ \A l \in 1 .. Len(s) : u[l] = s[l]
        /\ \A l \in 1 .. Len(u) :
             l \in 1 .. Len(s) \/ (l - Len(s) \in 1 .. Len(t) /\ u[l] = t[l - Len(s)])
    OBVIOUS
  <2> HIDE DEF u
  <2>3. j \in 1 .. Len(u) /\ u[j] = s[j]
    BY <2>2
  <2>4. \A l \in j + 1 .. Len(u) : u[l].kind # k
    <3> SUFFICES ASSUME NEW l \in j + 1 .. Len(u) PROVE u[l].kind # k
      OBVIOUS
    <3>1. CASE l \in 1 .. Len(s)
      BY <2>1, <2>2, <3>1
    <3>2. CASE l \notin 1 .. Len(s)
      <4>1. l \in 1 .. Len(u)
        BY <2>2
      <4> QED BY <1>1, <2>2, <3>2, <4>1 DEF Speaks
    <3> QED BY <3>1, <3>2
  <2>5. EndsOn(k, v, u)
    BY <2>1, <2>3, <2>4 DEF EndsOn
  <2> QED BY <2>5 DEF u
<1>2. ASSUME NEW e \in Events
      PROVE  /\ e.kind = k /\ e.a = v => EndsOn(k, v, Append(s, e))
             /\ e.kind # k /\ EndsOn(k, v, s) => EndsOn(k, v, Append(s, e))
  <2> DEFINE u == Append(s, e)
  <2>1. /\ Len(u) = Len(s) + 1 /\ Len(s) \in Nat /\ u[Len(s) + 1] = e
        /\ \A j \in 1 .. Len(s) : u[j] = s[j]
    OBVIOUS
  <2> HIDE DEF u
  <2>2. ASSUME e.kind = k, e.a = v PROVE EndsOn(k, v, u)
    <3>1. Len(s) + 1 \in 1 .. Len(u) /\ \A l \in (Len(s) + 1) + 1 .. Len(u) : u[l].kind # k
      BY <2>1
    <3> QED BY <2>1, <2>2, <3>1 DEF EndsOn
  <2>3. ASSUME e.kind # k, EndsOn(k, v, s) PROVE EndsOn(k, v, u)
    <3>1. PICK j \in 1 .. Len(s) : /\ s[j].kind = k /\ s[j].a = v
                                   /\ \A l \in j + 1 .. Len(s) : s[l].kind # k
      BY <2>3 DEF EndsOn
    <3>2. j \in 1 .. Len(u) /\ u[j] = s[j]
      BY <2>1
    <3>3. \A l \in j + 1 .. Len(u) : u[l].kind # k
      BY <2>1, <2>3, <3>1
    <3> QED BY <3>1, <3>2, <3>3 DEF EndsOn
  <2> QED BY <2>2, <2>3 DEF u
<1>3. ASSUME s # <<>>, EndsOn(k, v, s)
      PROVE  IF Speaks(k, Tail(s)) THEN EndsOn(k, v, Tail(s))
             ELSE Head(s).kind = k /\ Head(s).a = v
  <2> DEFINE u == Tail(s)
  <2>1. /\ Head(s) = s[1] /\ Len(u) = Len(s) - 1 /\ Len(s) \in Nat \ {0}
        /\ \A j \in 1 .. Len(s) - 1 : u[j] = s[j + 1]
    BY <1>3
  <2>2. PICK j \in 1 .. Len(s) : /\ s[j].kind = k /\ s[j].a = v
                                 /\ \A l \in j + 1 .. Len(s) : s[l].kind # k
    BY <1>3 DEF EndsOn
  <2> HIDE DEF u
  <2>3. CASE j = 1
    <3>1. \A l \in 1 .. Len(u) : u[l].kind # k
      BY <2>1, <2>2, <2>3
    <3>2. ~Speaks(k, u)
      BY <3>1 DEF Speaks
    <3> QED BY <2>1, <2>2, <2>3, <3>2 DEF u
  <2>4. CASE j # 1
    <3>1. j - 1 \in 1 .. Len(u) /\ u[j - 1] = s[j]
      BY <2>1, <2>4
    <3>2. \A l \in (j - 1) + 1 .. Len(u) : u[l].kind # k
      BY <2>1, <2>2, <2>4
    <3>3. EndsOn(k, v, u) /\ Speaks(k, u)
      BY <2>2, <3>1, <3>2 DEF EndsOn, Speaks
    <3> QED BY <3>3 DEF u
  <2> QED BY <2>3, <2>4
<1> QED BY <1>1, <1>2, <1>3

(* An event applied lands where it would have landed on its way.           *)
LEMMA LandsNext ==
  ASSUME NEW s \in Seq(Events), s # <<>>, NEW k, NEW v, NEW x, Lands(k, v, x, s)
  PROVE  Lands(k, v, IF Head(s).kind = k THEN Head(s).a ELSE x, Tail(s))
<1>1. Speaks(k, s) <=> Head(s).kind = k \/ Speaks(k, Tail(s))
  BY SpeaksIs
<1>2. CASE EndsOn(k, v, s)
  <2>1. IF Speaks(k, Tail(s)) THEN EndsOn(k, v, Tail(s))
        ELSE Head(s).kind = k /\ Head(s).a = v
    BY <1>2, EndsOnIs
  <2> QED BY <2>1 DEF Lands
<1>3. CASE ~Speaks(k, s) /\ x = v
  BY <1>1, <1>3 DEF Lands
<1> QED BY <1>2, <1>3 DEF Lands

LEMMA LandsIs ==
  ASSUME NEW s \in Seq(Events), NEW e \in Events, NEW k, NEW v, NEW x
  PROVE  /\ e.kind = k /\ e.a = v => Lands(k, v, x, Append(s, e))
         /\ e.kind # k /\ Lands(k, v, x, s) => Lands(k, v, x, Append(s, e))
<1>1. Speaks(k, Append(s, e)) <=> Speaks(k, s) \/ e.kind = k
  BY SpeaksIs
<1>2. /\ e.kind = k /\ e.a = v => EndsOn(k, v, Append(s, e))
      /\ e.kind # k /\ EndsOn(k, v, s) => EndsOn(k, v, Append(s, e))
  BY EndsOnIs
<1> QED BY <1>1, <1>2 DEF Lands
-----------------------------------------------------------------------------
(* Switches.  As long as no setting of a switch crosses another, at most   *)
(* one player has settings on its way to the host, and none on its way     *)
(* from it; the last of them is what it has itself; and of those who have  *)
(* none, any two that ought to agree will, by what is on its way to them.  *)

Coming(p) == EventsOf(down[p])

Together(p, q) == at[p] = at[q]

SameLanding(k, p, q) ==
  \E v : Lands(k, v, switches[p][k], Coming(p)) /\ Lands(k, v, switches[q][k], Coming(q))

SwitchInv(k) ==
  /\ \A p, q \in Players : Speaks(k, up[p]) /\ Speaks(k, up[q]) => p = q
  /\ \A p \in Players : Speaks(k, up[p]) => ~Speaks(k, Coming(p))
  /\ \A p \in Stayers \cap online :
       Speaks(k, up[p]) => EndsOn(k, switches[p][k], up[p])
  /\ \A p, q \in Stayers \cap online :
       p # q /\ Together(p, q) /\ ~Speaks(k, up[p]) /\ ~Speaks(k, up[q])
         => SameLanding(k, p, q)

SwitchesInv == \A k \in Kinds \ crossed : SwitchInv(k)

(* p reports t, and nothing else about switch k happens.                   *)
LEMMA QuietSwitch ==
  ASSUME TypeOK, NEW k, NEW p \in Players, NEW t \in Seq(Events), SaysMore(p, t),
         ~Speaks(k, t), UNCHANGED <<online, at, down>>,
         \A q \in Players : switches'[q][k] = switches[q][k],
         SwitchInv(k)
  PROVE  SwitchInv(k)'
<1>1. up[p] \in Seq(Events) /\ up'[p] = up[p] \o t
      /\ \A q \in Players \ {p} : up'[q] = up[q]
  BY DEF TypeOK, SaysMore, UpChange
<1>2. \A q \in Players : Speaks(k, up'[q]) <=> Speaks(k, up[q])
  <2>1. Speaks(k, up'[p]) <=> Speaks(k, up[p])
    BY <1>1, SpeaksIs
  <2> QED BY <1>1, <2>1
<1>3. \A q \in Players : \A v : EndsOn(k, v, up[q]) => EndsOn(k, v, up'[q])
  <2>1. \A v : EndsOn(k, v, up[p]) => EndsOn(k, v, up'[p])
    BY <1>1, EndsOnIs
  <2> QED BY <1>1, <2>1
<1>4. \A q \in Players : Coming(q)' = Coming(q)
  BY DEF Coming, EventsOf
<1>5. \A q, w \in Players : SameLanding(k, q, w) => SameLanding(k, q, w)'
  BY <1>4 DEF SameLanding
<1>6. \A q, w : Together(q, w)' <=> Together(q, w)
  BY DEF Together
<1> QED BY <1>2, <1>3, <1>4, <1>5, <1>6, Sorts DEF SwitchInv

LEMMA InitSwitches == Init => SwitchesInv
<1> SUFFICES ASSUME Init, NEW k \in Kinds PROVE SwitchInv(k)
  BY DEF SwitchesInv
<1>1. /\ up = [p \in Players |-> <<>>] /\ down = [p \in Players |-> <<>>]
      /\ switches = [p \in Players |-> AllAtRest]
  BY DEF Init
<1>2. ~Speaks(k, <<>>) /\ EventsOf(<<>>) = <<>>
  BY DEF Speaks, EventsOf
<1>3. \A p \in Players : Lands(k, AtRest, switches[p][k], Coming(p))
  BY <1>1, <1>2 DEF Lands, Coming, AllAtRest
<1> QED BY <1>1, <1>2, <1>3, Sorts DEF SwitchInv, SameLanding

LEMMA HearSwitches ==
  ASSUME SwitchesInv, NEW p \in Players, NEW q \in Players, Hear(p, q)
  PROVE  SwitchesInv'
BY DEF Hear, games, history, SwitchesInv, SwitchInv, SameLanding, Together, Coming

LEMMA LeaveSwitches ==
  ASSUME TypeOK, SwitchesInv, NEW c \in Clients, Leave(c)
  PROVE  SwitchesInv'
<1>1. /\ c \in Players /\ online' = online \ {c}
      /\ UpChange(c) /\ up'[c] = <<>> /\ down'[c] = <<>>
      /\ \A q \in Players \ {c} : down'[q] = down[q]
      /\ UNCHANGED <<at, switches, crossed>>
  BY LeaveIs
<1> SUFFICES ASSUME NEW k \in Kinds \ crossed PROVE SwitchInv(k)'
  BY <1>1 DEF SwitchesInv
<1>2. SwitchInv(k)
  BY DEF SwitchesInv
<1>3. ~Speaks(k, <<>>)
  BY DEF Speaks
<1>4. /\ \A q \in Players \ {c} : up'[q] = up[q] /\ Coming(q)' = Coming(q)
      /\ ~Speaks(k, up'[c])
  BY <1>1, <1>3 DEF UpChange, Coming
<1>5. \A q, w \in Players \ {c} : SameLanding(k, q, w) => SameLanding(k, q, w)'
  BY <1>1, <1>4 DEF SameLanding
<1>6. \A q, w : Together(q, w)' <=> Together(q, w)
  BY <1>1 DEF Together
<1> QED BY <1>1, <1>2, <1>4, <1>5, <1>6, Sorts DEF SwitchInv

LEMMA HitSwitches ==
  ASSUME TypeOK, SwitchesInv, NEW p \in Players, NEW i \in Ids, Hit(p, i)
  PROVE  SwitchesInv'
<1> DEFINE e == Event("HIT", at[p], i, Nobody)
           t == <<e>>
<1>1. Says(p, t) /\ UNCHANGED <<online, at, down, switches, crossed>>
  BY DEF Hit
<1>2. e \in Events /\ e.kind = "HIT"
  <2>1. at[p] \in Maps
    BY DEF TypeOK
  <2> QED BY <2>1, EventsAre DEF Event
<1> HIDE DEF e
<1>3. t \in Seq(Events) /\ \A j \in 1 .. Len(t) : t[j].kind = "HIT"
  BY <1>2, OneEvent
<1> HIDE DEF t
<1>4. SaysMore(p, t)
  BY <1>1, <1>3, SaysIs
<1> SUFFICES ASSUME NEW k \in Kinds \ crossed PROVE SwitchInv(k)'
  BY <1>1 DEF SwitchesInv
<1>5. SwitchInv(k) /\ ~Speaks(k, t)
  BY <1>3 DEF SwitchesInv, Speaks, Kinds
<1> QED BY <1>1, <1>3, <1>4, <1>5, QuietSwitch

LEMMA SetSwitches ==
  ASSUME TypeOK, SwitchesInv, NEW p \in Players, NEW n \in Kinds, NEW v \in Positions,
         Set(p, n, v)
  PROVE  SwitchesInv'
<1> DEFINE t == SwitchReport(switches[p], n, v, at[p])
           e == Event(n, at[p], v, Nobody)
<1>1. /\ at[p] \in Maps /\ t \in Seq(Events) /\ \A j \in 1 .. Len(t) : t[j] = e
      /\ SaysMore(p, t)
      /\ switches'[p] = [switches[p] EXCEPT ![n] = v]
      /\ \A q \in Players \ {p} : switches'[q] = switches[q]
      /\ crossed' = IF UnseenBy(p, n) THEN crossed \cup {n} ELSE crossed
      /\ UNCHANGED <<online, at, down>>
  BY SetIs
<1>2. IF switches[p][n] = v THEN t = <<>> ELSE t = <<e>>
  BY DEF SwitchReport
<1>3. e \in Events /\ e.kind = n /\ e.a = v
  BY <1>1, EventsAre DEF Event
<1>4. switches[p] \in SwitchRecords /\ up[p] \in Seq(Events)
      /\ down[p] \in Seq(Messages)
  BY DEF TypeOK
<1> HIDE DEF t, e
<1> SUFFICES ASSUME NEW k \in Kinds \ crossed' PROVE SwitchInv(k)'
  BY DEF SwitchesInv
<1>5. k \in Kinds \ crossed /\ SwitchInv(k)
  BY <1>1 DEF SwitchesInv
<1>6. CASE k # n \/ switches[p][n] = v
  <2>1. ~Speaks(k, t)
    BY <1>1, <1>2, <1>3, <1>6 DEF Speaks
  <2>2. \A q \in Players : switches'[q][k] = switches[q][k]
    BY <1>1, <1>4, <1>6 DEF SwitchRecords
  <2> QED BY <1>1, <1>5, <2>1, <2>2, QuietSwitch
<1>7. CASE k = n /\ switches[p][n] # v
  <2>1. ~UnseenBy(p, k)
    BY <1>1, <1>7
  <2>2. ~Speaks(k, Coming(p))
    <3>1. \A d \in ToSet(down[p]) : d.event.kind # k
      BY <2>1 DEF UnseenBy
    <3>2. \A j \in 1 .. Len(down[p]) : down[p][j].event.kind # k
      BY <1>4, <3>1, InSet
    <3> QED BY <1>4, <3>2, EventsOfIs DEF Coming, Speaks
  <2>3. \A q \in Players \ {p} : ~Speaks(k, up[q])
    <3> SUFFICES ASSUME NEW q \in Players \ {p} PROVE ~Speaks(k, up[q])
      OBVIOUS
    <3>1. \A x \in ToSet(up[q]) : x.kind # k
      BY <2>1 DEF UnseenBy
    <3>2. up[q] \in Seq(Events)
      BY DEF TypeOK
    <3> QED BY <3>1, <3>2, InSet DEF Speaks
  <2>4. up'[p] = Append(up[p], e) /\ \A q \in Players \ {p} : up'[q] = up[q]
    <3>1. up'[p] = up[p] \o <<e>>
      BY <1>1, <1>2, <1>7 DEF SaysMore
    <3> QED BY <1>1, <1>3, <1>4, <3>1 DEF SaysMore, UpChange
  <2>5. Speaks(k, up'[p]) /\ EndsOn(k, v, up'[p])
    BY <1>3, <1>4, <1>7, <2>4, SpeaksIs, EndsOnIs
  <2>6. switches'[p][k] = v
    BY <1>1, <1>4, <1>7 DEF SwitchRecords
  <2>7. \A q : Coming(q)' = Coming(q)
    BY <1>1 DEF Coming
  <2>8. \A q, w \in Players \ {p} : SameLanding(k, q, w) => SameLanding(k, q, w)'
    BY <1>1, <2>7 DEF SameLanding
  <2>9. \A q, w : Together(q, w)' <=> Together(q, w)
    BY <1>1 DEF Together
  <2> QED BY <1>1, <1>5, <2>2, <2>3, <2>4, <2>5, <2>6, <2>7, <2>8, <2>9, Sorts
          DEF SwitchInv
<1> QED BY <1>6, <1>7

(* What is on its way to the others when the host has passed an event on.  *)
LEMMA ComingAfter ==
  ASSUME TypeOK, NEW p \in Players, Adjudicate(p), NEW q \in Players
  PROVE  LET e == Head(up[p])
         IN /\ Coming(q) \in Seq(Events)
            /\ Coming(q)' = IF q \in Receivers(p, e) THEN Append(Coming(q), e)
                            ELSE Coming(q)
<1> DEFINE e == Head(up[p])
           d == [from |-> p, event |-> e]
<1>1. /\ d \in Messages
      /\ q \in Receivers(p, e) => down'[q] = Append(down[q], d)
      /\ q \notin Receivers(p, e) => down'[q] = down[q]
  BY AdjudicateIs
<1>2. down[q] \in Seq(Messages)
  BY DEF TypeOK
<1>3. d.event = e
  OBVIOUS
<1>4. Coming(q)' = EventsOf(down'[q])
  BY DEF Coming, EventsOf
<1> HIDE DEF d, e
<1>5. EventsOf(Append(down[q], d)) = Append(EventsOf(down[q]), e)
  BY <1>1, <1>2, <1>3, EventsOfMoves
<1>6. EventsOf(down[q]) \in Seq(Events)
  BY <1>2, EventsOfIs
<1>7. Coming(q)' = IF q \in Receivers(p, e) THEN Append(Coming(q), e) ELSE Coming(q)
  BY <1>1, <1>4, <1>5 DEF Coming
<1> QED BY <1>6, <1>7 DEF Coming, e

LEMMA AdjudicateSwitches ==
  ASSUME TypeOK, Routes, SwitchesInv, NEW p \in Players, Adjudicate(p)
  PROVE  SwitchesInv'
<1> DEFINE e == Head(up[p])
           receivers == Receivers(p, e)
<1>1. /\ up[p] # <<>> /\ e \in Events /\ UpChange(p) /\ up'[p] = Tail(up[p])
      /\ UNCHANGED <<online, at, switches, crossed>>
  BY AdjudicateIs DEF games
<1>2. \A q \in Players :
        /\ Coming(q) \in Seq(Events)
        /\ Coming(q)' = IF q \in receivers THEN Append(Coming(q), e) ELSE Coming(q)
  BY ComingAfter
<1>3. /\ receivers \subseteq online \ {p}
      /\ \A q \in (Stayers \cap online) \ {p} :
              q \in receivers <=> e.kind = "MODE" \/ e.map = at[q]
  BY ReceiversAre
<1>4. up[p] \in Seq(Events) /\ e \in ToSet(up[p])
  <2>1. up[p] \in Seq(Events)
    BY DEF TypeOK
  <2> QED BY <1>1, <2>1, HeadTailSet
<1>5. p \in Stayers => e.kind = "MODE" \/ e.map = at[p]
  BY <1>4 DEF Routes
<1> SUFFICES ASSUME NEW k \in Kinds \ crossed PROVE SwitchInv(k)'
  BY <1>1 DEF SwitchesInv
<1>6. SwitchInv(k)
  BY DEF SwitchesInv
<1>7. Speaks(k, up[p]) <=> e.kind = k \/ Speaks(k, Tail(up[p]))
  BY <1>1, <1>4, SpeaksIs
<1>8. \A q \in Players \ {p} : up'[q] = up[q]
  BY <1>1 DEF UpChange
<1> HIDE DEF e, receivers
<1>9. \A q \in Players : Speaks(k, up'[q]) => Speaks(k, up[q])
  BY <1>1, <1>7, <1>8
<1>10. \A q, w \in Players : Speaks(k, up'[q]) /\ Speaks(k, up'[w]) => q = w
  BY <1>6, <1>9 DEF SwitchInv
<1>11. \A q \in Players : Speaks(k, up'[q]) => ~Speaks(k, Coming(q)')
  <2> SUFFICES ASSUME NEW q \in Players, Speaks(k, up'[q]), Speaks(k, Coming(q)')
               PROVE  FALSE
    OBVIOUS
  <2>1. Speaks(k, up[q]) /\ ~Speaks(k, Coming(q))
    BY <1>6, <1>9 DEF SwitchInv
  <2>2. q \in receivers /\ Coming(q)' = Append(Coming(q), e)
    BY <1>2, <2>1
  <2>3. e.kind = k
    BY <1>1, <1>2, <2>1, <2>2, SpeaksIs
  <2>4. Speaks(k, up[p]) /\ q # p
    BY <1>3, <1>7, <2>2, <2>3
  <2> QED BY <1>6, <2>1, <2>4 DEF SwitchInv
<1>12. \A q \in Stayers \cap online :
         Speaks(k, up'[q]) => EndsOn(k, switches'[q][k], up'[q])
  <2>1. Speaks(k, up'[p]) => \A v : EndsOn(k, v, up[p]) => EndsOn(k, v, up'[p])
    BY <1>1, <1>4, EndsOnIs
  <2> QED BY <1>1, <1>6, <1>8, <1>9, <2>1, Sorts DEF SwitchInv
<1>13. \A q, w : Together(q, w)' <=> Together(q, w)
  BY <1>1 DEF Together
<1>14. \A q \in receivers : e.kind = k =>
         Lands(k, e.a, switches'[q][k], Coming(q)')
  <2> SUFFICES ASSUME NEW q \in receivers, e.kind = k
               PROVE  Lands(k, e.a, switches'[q][k], Coming(q)')
    OBVIOUS
  <2>1. q \in Players
    BY <1>3 DEF TypeOK
  <2>2. Coming(q) \in Seq(Events) /\ Coming(q)' = Append(Coming(q), e)
    BY <1>2, <2>1
  <2> QED BY <1>1, <2>2, LandsIs
<1>15. \A q \in Players : \A v : e.kind # k /\ Lands(k, v, switches[q][k], Coming(q))
                               => Lands(k, v, switches'[q][k], Coming(q)')
  <2> SUFFICES ASSUME NEW q \in Players, NEW v, e.kind # k,
                      Lands(k, v, switches[q][k], Coming(q))
               PROVE  Lands(k, v, switches'[q][k], Coming(q)')
    OBVIOUS
  <2>1. Lands(k, v, switches[q][k], Append(Coming(q), e))
    BY <1>1, <1>2, LandsIs
  <2>2. CASE q \in receivers
    BY <1>1, <1>2, <2>1, <2>2
  <2>3. CASE q \notin receivers
    BY <1>1, <1>2, <2>3
  <2> QED BY <2>2, <2>3

(* p, that stays, has said its last word on k: it is what it has.          *)
<1>16. ASSUME NEW q \in (Stayers \cap online) \ {p}, p \in Stayers \cap online,
              e.kind = k, ~Speaks(k, up'[p]), Together(p, q)
       PROVE  SameLanding(k, p, q)'
  <2>1. Speaks(k, up[p]) /\ EndsOn(k, switches[p][k], up[p]) /\ ~Speaks(k, Coming(p))
    BY <1>6, <1>7, <1>16 DEF SwitchInv
  <2>2. e.a = switches[p][k]
    BY <1>1, <1>4, <1>16, <2>1, EndsOnIs DEF e
  <2>3. Coming(p)' = Coming(p)
    BY <1>2, <1>3
  <2>4. Lands(k, e.a, switches'[p][k], Coming(p)')
    BY <1>1, <2>1, <2>2, <2>3 DEF Lands
  <2>5. k # "MODE"
    BY DEF Kinds
  <2>6. q \in receivers
    BY <1>3, <1>5, <1>16, <2>5 DEF Together
  <2>7. Lands(k, e.a, switches'[q][k], Coming(q)')
    BY <1>14, <1>16, <2>6
  <2> QED BY <2>4, <2>7 DEF SameLanding
<1>17. \A q, w : SameLanding(k, q, w)' => SameLanding(k, w, q)'
  BY DEF SameLanding
<1>18. ASSUME NEW q \in Stayers \cap online, NEW w \in Stayers \cap online, q # w,
              Together(q, w), ~Speaks(k, up'[q]), ~Speaks(k, up'[w])
       PROVE  SameLanding(k, q, w)'
  <2>1. q \in Players /\ w \in Players
    BY Sorts
  <2>2. CASE e.kind = k /\ q = p
    BY <1>16, <1>18, <2>2
  <2>3. CASE e.kind = k /\ w = p
    <3>1. Together(w, q)
      BY <1>18 DEF Together
    <3>2. SameLanding(k, w, q)'
      BY <1>16, <1>18, <2>3, <3>1
    <3> QED BY <1>17, <3>2
  <2>4. CASE e.kind = k /\ q # p /\ w # p /\ q \in receivers
    <3>1. w \in receivers
      BY <1>3, <1>18, <2>4 DEF Together
    <3> QED BY <1>14, <2>4, <3>1 DEF SameLanding
  <2>5. CASE e.kind # k \/ (q # p /\ w # p /\ q \notin receivers)
    <3>1. ~Speaks(k, up[q]) /\ ~Speaks(k, up[w])
      BY <1>1, <1>7, <1>8, <1>18, <2>1, <2>5
    <3>2. PICK v : /\ Lands(k, v, switches[q][k], Coming(q))
                   /\ Lands(k, v, switches[w][k], Coming(w))
      BY <1>6, <1>18, <3>1 DEF SwitchInv, SameLanding
    <3>3. CASE e.kind # k
      BY <1>15, <2>1, <3>2, <3>3 DEF SameLanding
    <3>4. CASE e.kind = k
      <4>1. w \notin receivers /\ q \notin receivers
        BY <1>3, <1>18, <2>5, <3>4 DEF Together
      <4>2. Coming(q)' = Coming(q) /\ Coming(w)' = Coming(w)
        BY <1>2, <2>1, <4>1
      <4> QED BY <1>1, <3>2, <4>2 DEF SameLanding
    <3> QED BY <3>3, <3>4
  <2> QED BY <2>2, <2>3, <2>4, <2>5
<1> QED BY <1>1, <1>10, <1>11, <1>12, <1>13, <1>18 DEF SwitchInv

(* In a frame of one that stays every event is applied that is about a     *)
(* switch: what is left lands where all of it would have.                  *)
LEMMA TakenLands ==
  ASSUME TypeOK, Routes, NEW p \in Players, p \in Stayers, NEW m, NEW loaded, NEW k,
         NEW h, NEW f, NEW r, NEW c, FrameOf(p, m, loaded, k, h, f, r, c),
         NEW n \in Kinds, NEW v, Lands(n, v, switches[p][n], Coming(p))
  PROVE  Lands(n, v, h[k].switches[n], SubSeq(Coming(p), k + 1, Len(Coming(p))))
<1> DEFINE s == Coming(p)
           rest(i) == SubSeq(s, i + 1, Len(s))
           good == {i \in 0 .. k : Lands(n, v, h[i].switches[n], rest(i))}
<1>1. down[p] \in Seq(Messages)
  BY DEF TypeOK
<1>2. /\ m \in Maps /\ k \in Nat /\ k <= Len(down[p])
      /\ h \in [0 .. k -> Games] /\ h[0] = Resumed(p, loaded)
      /\ \A i \in 1 .. k : /\ down[p][i] \in Messages
                           /\ h[i] = ApplyEvent(h[i - 1], p, m, down[p][i])
  BY FrameTrace
<1>3. m = at[p] /\ ~loaded
  BY DEF FrameOf, MapsAfter, Loads, MayLoad, Stayers
<1>4. /\ s \in Seq(Events) /\ Len(s) = Len(down[p])
      /\ \A i \in 1 .. Len(s) : s[i] = down[p][i].event
  BY <1>1, EventsOfIs DEF Coming
<1>5. \A i \in 1 .. Len(s) : s[i].kind = "MODE" \/ s[i].map = m
  <2>1. \A d \in ToSet(down[p]) : d.event.kind = "MODE" \/ d.event.map = m
    BY <1>3 DEF Routes
  <2> QED BY <1>1, <1>4, <2>1, InSet
<1> HIDE DEF s
<1>6. 0 \in good
  <2>1. h[0].switches = switches[p]
    BY <1>2, <1>3 DEF Resumed
  <2>2. rest(0) = s
    BY <1>4, WholeSuffix
  <2>3. Lands(n, v, h[0].switches[n], rest(0))
    BY <2>1, <2>2 DEF s
  <2> QED BY <1>2, <2>3
<1>7. \A i \in 1 .. k : i - 1 \in good => i \in good
  <2> SUFFICES ASSUME NEW i \in 1 .. k, i - 1 \in good PROVE i \in good
    OBVIOUS
  <2>1. Lands(n, v, h[i - 1].switches[n], rest(i - 1))
    OBVIOUS
  <2>2. i \in 1 .. Len(s) /\ (i - 1) + 1 = i /\ i - 1 \in 0 .. k
    BY <1>2, <1>4
  <2>3. /\ rest(i - 1) \in Seq(Events) /\ rest(i - 1) # <<>>
        /\ Head(rest(i - 1)) = s[i] /\ Tail(rest(i - 1)) = rest(i)
    BY <1>4, <2>2, SuffixMoves
  <2> DEFINE e == s[i]
             x == h[i - 1].switches
  <2>4. h[i].switches = ApplySwitch(x, m, e)
    <3>1. h[i] = ApplyEvent(h[i - 1], p, m, down[p][i])
      BY <1>2
    <3> QED BY <1>4, <2>2, <3>1 DEF ApplyEvent
  <2>5. x \in SwitchRecords
    BY <1>2, <2>2 DEF Games
  <2>6. e.kind = "MODE" \/ e.map = m
    BY <1>5, <2>2
  <2> HIDE DEF e, x
  <2>7. h[i].switches[n] = IF e.kind = n THEN e.a ELSE x[n]
    BY <2>4, <2>5, <2>6 DEF ApplySwitch, SwitchRecords, Kinds
  <2>8. Lands(n, v, IF Head(rest(i - 1)).kind = n THEN Head(rest(i - 1)).a ELSE x[n],
              Tail(rest(i - 1)))
    <3> HIDE DEF rest
    <3> QED BY <2>1, <2>3, LandsNext DEF x
  <2>9. Lands(n, v, h[i].switches[n], rest(i))
    <3> HIDE DEF rest
    <3> QED BY <2>3, <2>7, <2>8 DEF e
  <2>10. i \in 0 .. k
    BY <1>2
  <2> QED BY <2>9, <2>10
<1>8. k \in good
  <2> HIDE DEF good
  <2>1. 0 .. k \subseteq good
    BY <1>2, <1>6, <1>7, Counting
  <2> QED BY <1>2, <2>1
<1> QED BY <1>8 DEF s

LEMMA FrameSwitches ==
  ASSUME TypeOK, Routes, SwitchesInv, NEW p \in Players, Frame(p)
  PROVE  SwitchesInv'
<1>1. /\ \E m, loaded, k, h, f, r, c : FrameOf(p, m, loaded, k, h, f, r, c)
      /\ p \in online /\ UNCHANGED <<scene, online, seen, history>>
  BY FrameUnfolds
<1>2. PICK m, loaded, k, h, f, r, c : FrameOf(p, m, loaded, k, h, f, r, c)
  BY <1>1
<1> DEFINE says == FrameSays(m, h[k].enemies, r, c)
<1>3. /\ says \in Seq(Events) /\ k \in 0 .. Len(down[p])
      /\ \A i \in 1 .. Len(says) : \/ says[i].kind = "DEAD" /\ says[i].map = m
                                   \/ says[i].kind = "MODE" /\ p = Host
                                   \/ says[i].kind = "CARRY" /\ says[i].map = m
  BY <1>2, FrameIs
<1>4. /\ SaysMore(p, says) /\ at'[p] = m
      /\ down'[p] = SubSeq(down[p], k + 1, Len(down[p]))
      /\ switches'[p] = h[k].switches
      /\ \A q \in Players \ {p} :
           at'[q] = at[q] /\ down'[q] = down[q] /\ switches'[q] = switches[q]
  BY <1>2, FrameMoves
<1> HIDE DEF says
<1>5. \A q \in Stayers : at'[q] = at[q]
  <2>1. p \in Stayers => m = at[p]
    BY <1>2 DEF FrameOf, MapsAfter, MayLoad, Stayers
  <2> QED BY <1>4, <2>1, Sorts
<1>6. up[p] \in Seq(Events) /\ down[p] \in Seq(Messages) /\ Coming(p) \in Seq(Events)
      /\ Len(Coming(p)) = Len(down[p])
  <2>1. up[p] \in Seq(Events) /\ down[p] \in Seq(Messages)
    BY DEF TypeOK
  <2> QED BY <2>1, EventsOfIs DEF Coming
<1>7. /\ Coming(p)' = SubSeq(Coming(p), k + 1, Len(Coming(p)))
      /\ \A q \in Players \ {p} : Coming(q)' = Coming(q)
  <2>1. EventsOf(SubSeq(down[p], k + 1, Len(down[p])))
          = SubSeq(EventsOf(down[p]), k + 1, Len(EventsOf(down[p])))
    BY <1>3, <1>6, EventsOfMoves
  <2> QED BY <1>4, <2>1 DEF Coming
<1> SUFFICES ASSUME NEW n \in Kinds \ crossed PROVE SwitchInv(n)'
  BY <1>1 DEF SwitchesInv, history
<1>8. SwitchInv(n)
  BY DEF SwitchesInv
<1>9. ~Speaks(n, says)
  BY <1>3 DEF Speaks, Kinds
<1>10. up'[p] = up[p] \o says /\ \A q \in Players \ {p} : up'[q] = up[q]
  BY <1>4 DEF SaysMore, UpChange
<1>11. \A q \in Players : Speaks(n, up'[q]) <=> Speaks(n, up[q])
  <2>1. Speaks(n, up'[p]) <=> Speaks(n, up[p])
    BY <1>3, <1>6, <1>9, <1>10, SpeaksIs
  <2> QED BY <1>10, <2>1
<1>12. \A q \in Players : Speaks(n, Coming(q)') => Speaks(n, Coming(q))
  <2>1. k + 1 \in 1 .. Len(Coming(p)) + 1
    BY <1>3, <1>6
  <2>2. Speaks(n, Coming(p)') => Speaks(n, Coming(p))
    BY <1>6, <1>7, <2>1, SpeaksIs
  <2> QED BY <1>7, <2>2
<1>13. \A q \in Stayers : \A v : Lands(n, v, switches[q][n], Coming(q))
                               => Lands(n, v, switches'[q][n], Coming(q)')
  <2>1. p \in Stayers => \A v : Lands(n, v, switches[p][n], Coming(p))
                                  => Lands(n, v, switches'[p][n], Coming(p)')
    BY <1>2, <1>4, <1>7, TakenLands
  <2> QED BY <1>4, <1>7, <2>1, Sorts
<1>14. \A q \in Stayers \cap online :
         Speaks(n, up'[q]) => EndsOn(n, switches'[q][n], up'[q])
  <2> SUFFICES ASSUME NEW q \in Stayers \cap online, Speaks(n, up'[q])
               PROVE  EndsOn(n, switches'[q][n], up'[q])
    OBVIOUS
  <2>1. q \in Players
    BY Sorts
  <2>2. /\ Speaks(n, up[q]) /\ EndsOn(n, switches[q][n], up[q])
        /\ ~Speaks(n, Coming(q))
    BY <1>8, <1>11, <2>1 DEF SwitchInv
  <2>3. CASE q # p
    BY <1>4, <1>10, <2>1, <2>2, <2>3
  <2>4. CASE q = p
    <3>1. EndsOn(n, switches[p][n], up'[p])
      BY <1>3, <1>6, <1>9, <1>10, <2>2, <2>4, EndsOnIs
    <3>2. Lands(n, switches[q][n], switches[q][n], Coming(q))
      BY <2>2 DEF Lands
    <3>3. Lands(n, switches[q][n], switches'[q][n], Coming(q)') /\ ~Speaks(n, Coming(q)')
      BY <1>12, <1>13, <2>1, <2>2, <3>2
    <3>4. ~EndsOn(n, switches[q][n], Coming(q)')
      BY <3>3 DEF EndsOn, Speaks
    <3>5. switches'[q][n] = switches[q][n]
      BY <3>3, <3>4 DEF Lands
    <3> QED BY <2>4, <3>1, <3>5
  <2> QED BY <2>3, <2>4
<1>15. \A q, w \in Stayers : SameLanding(n, q, w) => SameLanding(n, q, w)'
  BY <1>13 DEF SameLanding
<1>16. \A q, w \in Stayers : Together(q, w)' <=> Together(q, w)
  BY <1>5 DEF Together
<1> QED BY <1>1, <1>8, <1>11, <1>12, <1>14, <1>15, <1>16, Sorts DEF SwitchInv

LEMMA NextRoutes == Core /\ Routes /\ [Next]_vars => Routes'
<1> SUFFICES ASSUME Core, Routes, [Next]_vars PROVE Routes'
  OBVIOUS
<1> USE DEF Core
<1>1. CASE \E p, q \in Players : Hear(p, q)
  BY <1>1, HearRoutes
<1>2. CASE \E c \in Clients : Leave(c)
  BY <1>2, LeaveRoutes
<1>3. CASE \E p \in Players : Adjudicate(p)
  BY <1>3, AdjudicateRoutes
<1>4. CASE \E p \in Players : Frame(p)
  BY <1>4, FrameRoutes
<1>5. CASE \E p \in Players, i \in Ids : Hit(p, i)
  BY <1>5, HitRoutes
<1>6. CASE \E p \in Players, k \in Kinds, v \in Positions : Set(p, k, v)
  BY <1>6, SetRoutes
<1>7. CASE UNCHANGED vars
  BY <1>7 DEF Routes, vars, network
<1> QED BY <1>1, <1>2, <1>3, <1>4, <1>5, <1>6, <1>7 DEF Next

LEMMA NextSwitches == Core /\ Routes /\ SwitchesInv /\ [Next]_vars => SwitchesInv'
<1> SUFFICES ASSUME Core, Routes, SwitchesInv, [Next]_vars PROVE SwitchesInv'
  OBVIOUS
<1> USE DEF Core
<1>1. CASE \E p, q \in Players : Hear(p, q)
  BY <1>1, HearSwitches
<1>2. CASE \E c \in Clients : Leave(c)
  BY <1>2, LeaveSwitches
<1>3. CASE \E p \in Players : Adjudicate(p)
  BY <1>3, AdjudicateSwitches
<1>4. CASE \E p \in Players : Frame(p)
  BY <1>4, FrameSwitches
<1>5. CASE \E p \in Players, i \in Ids : Hit(p, i)
  BY <1>5, HitSwitches
<1>6. CASE \E p \in Players, k \in Kinds, v \in Positions : Set(p, k, v)
  BY <1>6, SetSwitches
<1>7. CASE UNCHANGED vars
  BY <1>7 DEF SwitchesInv, SwitchInv, SameLanding, Together, Coming, vars, network,
              games, history
<1> QED BY <1>1, <1>2, <1>3, <1>4, <1>5, <1>6, <1>7 DEF Next

(* What the host and p itself have reported is on its way to p, and what   *)
(* is not on its way is in no queue.                                       *)
LEMMA NothingOnTheWay ==
  ASSUME TypeOK, NEW p \in Players, NEW k,
         \A r \in Players : \A e \in OnTheWay(r, p) : e.kind # k
  PROVE  (\A q \in Players : ~Speaks(k, up[q])) /\ ~Speaks(k, Coming(p))
<1>1. \A q \in Players : ~Speaks(k, up[q])
  <2> SUFFICES ASSUME NEW q \in Players PROVE ~Speaks(k, up[q])
    OBVIOUS
  <2>1. \A e \in ToSet(up[q]) : e.kind # k
    BY DEF OnTheWay
  <2>2. up[q] \in Seq(Events)
    BY DEF TypeOK
  <2> QED BY <2>1, <2>2, InSet DEF Speaks
<1>2. down[p] \in Seq(Messages)
  BY DEF TypeOK
<1>3. \A j \in 1 .. Len(down[p]) : down[p][j].event.kind # k
  <2> SUFFICES ASSUME NEW j \in 1 .. Len(down[p]) PROVE down[p][j].event.kind # k
    OBVIOUS
  <2> DEFINE d == down[p][j]
  <2>1. d \in ToSet(down[p]) /\ d.from \in Players
    BY <1>2, InSet, EventsOfIs
  <2> HIDE DEF d
  <2>2. d.event \in OnTheWay(d.from, p)
    BY <2>1 DEF OnTheWay
  <2> QED BY <2>1, <2>2 DEF d
<1>4. ~Speaks(k, Coming(p))
  BY <1>2, <1>3, EventsOfIs DEF Speaks, Coming
<1> QED BY <1>1, <1>4

(* Switches and the phases of bosses end up in the same position with all  *)
(* who stay, however the reports of their settings, the host's passing on  *)
(* and the frames that take them fall, if no two settings cross (the flag  *)
(* hooks of world.c, boss.c, relay_event).                                 *)
THEOREM SwitchesAgreeInTheEnd == Spec => []SwitchesAgree
<1>1. Core /\ SwitchesInv => SwitchesAgree
  <2> SUFFICES ASSUME Core, SwitchesInv,
                      NEW p \in Stayers \cap online, NEW q \in Stayers \cap online,
                      NEW k \in Kinds \ crossed,
                      \A r \in Players : \A e \in OnTheWay(r, p) \cup OnTheWay(r, q) :
                        e.kind # k,
                      at[p] = at[q], p # q
               PROVE  switches[p][k] = switches[q][k]
    BY DEF SwitchesAgree
  <2>1. p \in Players /\ q \in Players
    BY Sorts
  <2>2. ~Speaks(k, up[p]) /\ ~Speaks(k, up[q])
        /\ ~Speaks(k, Coming(p)) /\ ~Speaks(k, Coming(q))
    BY <2>1, NothingOnTheWay DEF Core
  <2>3. SameLanding(k, p, q)
    BY <2>2 DEF SwitchesInv, SwitchInv, Together
  <2>4. \A w : ~EndsOn(k, w, Coming(p)) /\ ~EndsOn(k, w, Coming(q))
    BY <2>2 DEF EndsOn, Speaks
  <2> QED BY <2>3, <2>4 DEF SameLanding, Lands
<1>2. Init => Core /\ Routes /\ SwitchesInv
  BY InitCore, InitRoutes, InitSwitches
<1>3. Core /\ Routes /\ SwitchesInv /\ [Next]_vars => (Core /\ Routes /\ SwitchesInv)'
  BY NextCore, NextRoutes, NextSwitches
<1> QED BY <1>1, <1>2, <1>3, PTL DEF Spec
-----------------------------------------------------------------------------
(* Rounds.  What a player that was told of the start makes of the events   *)
(* on their way to it, first those that have left the host, then those the *)
(* host has not passed on yet, is the round the host plays.                *)

LEMMA Regroup ==
  ASSUME NEW s \in Seq(Events), NEW t \in Seq(Events), NEW u \in Seq(Events),
         NEW e \in Events
  PROVE  /\ s \o t \in Seq(Events) /\ (s \o t) \o u = s \o (t \o u)
         /\ <<e>> \in Seq(Events) /\ Append(s, e) \in Seq(Events)
         /\ Append(s, e) \o u = s \o (<<e>> \o u)
OBVIOUS

LEMMA AlikePlayed ==
  ASSUME NEW s \in Seq(Events), NEW r \in RoundRecords, NEW t \in RoundRecords,
         Alike(r, t)
  PROVE  Alike(Played(r, s), Played(t, s))
<1>1. PICK f : PlayedInTurn(f, r, s)
  BY PlayedTrace
<1>2. PICK g : PlayedInTurn(g, t, s)
  BY PlayedTrace
<1> DEFINE n == Len(s)
           good == {i \in 0 .. n : Alike(f[i], g[i])}
<1>3. n \in Nat
  OBVIOUS
<1>4. 0 \in good
  BY <1>1, <1>2, <1>3 DEF PlayedInTurn
<1>5. \A i \in 1 .. n : i - 1 \in good => i \in good
  <2> SUFFICES ASSUME NEW i \in 1 .. n, Alike(f[i - 1], g[i - 1])
               PROVE  Alike(f[i], g[i])
    BY <1>3
  <2> DEFINE x == f[i - 1]
             y == g[i - 1]
             e == s[i]
  <2>1. /\ x \in RoundRecords /\ y \in RoundRecords /\ Alike(x, y)
        /\ f[i] = ModesApply(x, e) /\ g[i] = ModesApply(y, e)
    <3>1. i - 1 \in 0 .. n
      BY <1>3
    <3> QED BY <1>1, <1>2, <3>1 DEF PlayedInTurn
  <2> HIDE DEF x, y, e
  <2>2. Alike(ModesApply(x, e), ModesApply(y, e))
    <3>1. CASE e.kind = "MODE" /\ e.a = "START"
      BY <2>1, <3>1 DEF ModesApply, Alike, RoundRecords
    <3>2. CASE e.kind = "MODE" /\ e.a = "FOUND"
      BY <2>1, <3>2 DEF ModesApply, Alike, RoundRecords
    <3>3. CASE e.kind = "MODE" /\ e.a = "END"
      BY <2>1, <3>3 DEF ModesApply, Alike, RoundRecords
    <3>4. CASE ~(e.kind = "MODE" /\ e.a \in {"START", "FOUND", "END"})
      BY <2>1, <3>4 DEF ModesApply
    <3> QED BY <3>1, <3>2, <3>3, <3>4
  <2> QED BY <2>1, <2>2
<1> HIDE DEF good
<1>6. 0 .. n \subseteq good
  BY <1>3, <1>4, <1>5, Counting
<1>7. n \in good
  BY <1>3, <1>6
<1> QED BY <1>1, <1>2, <1>7 DEF PlayedInTurn, good

LEMMA PlayedNext ==
  ASSUME NEW r \in RoundRecords, NEW s \in Seq(Events), s # <<>>, NEW t \in Seq(Events)
  PROVE  Played(r, s \o t) = Played(ModesApply(r, Head(s)), Tail(s) \o t)
<1> DEFINE e == Head(s)
           w == Tail(s) \o t
<1>1. e \in Events /\ Tail(s) \in Seq(Events)
  BY HeadTailSet
<1>2. w \in Seq(Events) /\ s \o t = <<e>> \o w /\ <<e>> \in Seq(Events)
  <2>1. s = <<e>> \o Tail(s)
    OBVIOUS
  <2> HIDE DEF e
  <2> QED BY <1>1, <2>1, Regroup
<1> HIDE DEF e, w
<1>3. Played(r, <<e>> \o w) = Played(Played(r, <<e>>), w)
  BY <1>2, PlayedConcat
<1>4. Played(r, <<e>>) = ModesApply(r, e)
  BY <1>1, PlayedOne
<1> QED BY <1>2, <1>3, <1>4 DEF e, w

(* A start leaves nothing of the round before.                             *)
LEMMA StartForgets ==
  ASSUME NEW s \in Seq(Events), s # <<>>, Head(s).kind = "MODE", Head(s).a = "START",
         NEW r \in RoundRecords, NEW t \in RoundRecords
  PROVE  Alike(Played(r, s), Played(t, s))
<1> DEFINE e == Head(s)
           x == ModesApply(r, e)
           y == ModesApply(t, e)
<1>1. e \in Events /\ Tail(s) \in Seq(Events)
  BY HeadTailSet
<1>2. x \in RoundRecords /\ y \in RoundRecords
  BY <1>1, ModesApplyType
<1>3. Alike(x, y)
  BY DEF ModesApply, Alike, RoundRecords
<1>4. Played(r, s) = Played(x, Tail(s)) /\ Played(t, s) = Played(y, Tail(s))
  <2>1. s \o <<>> = s /\ Tail(s) \o <<>> = Tail(s) /\ <<>> \in Seq(Events)
    BY <1>1
  <2>2. Played(r, s \o <<>>) = Played(x, Tail(s) \o <<>>)
    BY <2>1, PlayedNext
  <2>3. Played(t, s \o <<>>) = Played(y, Tail(s) \o <<>>)
    BY <2>1, PlayedNext
  <2> QED BY <2>1, <2>2, <2>3
<1> HIDE DEF x, y
<1> QED BY <1>1, <1>2, <1>3, <1>4, AlikePlayed

(* An event that is not about a round may be left out.                     *)
LEMMA PlayedPassed ==
  ASSUME NEW r \in RoundRecords, NEW s \in Seq(Events), NEW t \in Seq(Events),
         NEW e \in Events
  PROVE  /\ Played(r, Append(s, e) \o t) = Played(r, s \o (<<e>> \o t))
         /\ e.kind # "MODE" => Played(r, s \o (<<e>> \o t)) = Played(r, s \o t)
<1>1. Append(s, e) \o t = s \o (<<e>> \o t) /\ <<e>> \in Seq(Events)
  BY Regroup
<1>2. ASSUME e.kind # "MODE"
      PROVE  Played(r, s \o (<<e>> \o t)) = Played(r, s \o t)
  <2> DEFINE x == Played(r, s)
             u == <<e>>
  <2>1. x \in RoundRecords
    BY PlayedType
  <2>2. u \in Seq(Events) /\ u \o t \in Seq(Events)
    BY <1>1, Regroup
  <2>3. Played(x, u) = x
    <3>1. Played(x, u) = ModesApply(x, e)
      BY <2>1, PlayedOne
    <3> QED BY <1>2, <3>1 DEF ModesApply
  <2> HIDE DEF u
  <2>4. /\ Played(r, s \o (u \o t)) = Played(x, u \o t)
        /\ Played(r, s \o t) = Played(x, t)
    BY <2>2, PlayedConcat
  <2>5. Played(x, u \o t) = Played(Played(x, u), t)
    BY <2>1, <2>2, PlayedConcat
  <2> QED BY <2>3, <2>4, <2>5 DEF u
<1> QED BY <1>1, <1>2

Starts(e) == e.kind = "MODE" /\ e.a = "START"

RoundInv ==
  /\ \A p \in Players \ {Host} : ~Speaks("MODE", up[p])
  /\ \A p \in Players : \A d \in ToSet(down[p]) :
       d.event.kind = "MODE" => d.from = Host
  /\ told \subseteq Clients
  /\ \A c \in told \cap online :
       /\ seen[Host][c] # Nobody
       /\ Alike(Played(round[c], Coming(c) \o up[Host]), round[Host])
  /\ \A j \in 1 .. Len(up[Host]) : Starts(up[Host][j]) =>
       \A r \in RoundRecords :
         Alike(Played(r, SubSeq(up[Host], j, Len(up[Host]))), round[Host])

(* The host reports t, and its round becomes what playing t makes of it.   *)
LEMMA HostSays ==
  ASSUME TypeOK, RoundInv, NEW t \in Seq(Events), up'[Host] = up[Host] \o t,
         NEW x \in RoundRecords, Alike(x, round[Host]),
         Alike(Played(x, t), round'[Host])
  PROVE  /\ \A c \in told \cap online :
              Alike(Played(round[c], Coming(c) \o up'[Host]), round'[Host])
         /\ \A j \in 1 .. Len(up'[Host]) : Starts(up'[Host][j]) =>
              \A r \in RoundRecords :
                Alike(Played(r, SubSeq(up'[Host], j, Len(up'[Host]))), round'[Host])
<1> DEFINE s == up[Host]
           u == s \o t
<1>1. s \in Seq(Events) /\ round[Host] \in RoundRecords
  BY Sorts DEF TypeOK
<1>2. \A r \in RoundRecords : Alike(r, round[Host]) => Alike(Played(r, t), round'[Host])
  <2> SUFFICES ASSUME NEW r \in RoundRecords, Alike(r, round[Host])
               PROVE  Alike(Played(r, t), round'[Host])
    OBVIOUS
  <2>1. Alike(r, x)
    BY DEF Alike
  <2>2. Alike(Played(r, t), Played(x, t))
    BY <2>1, AlikePlayed
  <2> QED BY <2>2 DEF Alike
<1>3. ASSUME NEW c \in told \cap online
      PROVE  Alike(Played(round[c], Coming(c) \o u), round'[Host])
  <2>1. c \in Players /\ round[c] \in RoundRecords
    BY DEF TypeOK
  <2>2. Coming(c) \in Seq(Events)
    BY <2>1, EventsOfIs DEF TypeOK, Coming
  <2> DEFINE w == Coming(c) \o s
  <2>3. w \in Seq(Events) /\ Coming(c) \o u = w \o t
    <3>1. (Coming(c) \o s) \o t = Coming(c) \o (s \o t)
      <4> HIDE DEF s
      <4> QED BY <1>1, <2>2
    <3>2. w \in Seq(Events)
      BY <1>1, <2>2, ConcatSet
    <3> QED BY <3>1, <3>2
  <2>4. Alike(Played(round[c], w), round[Host])
    BY DEF RoundInv
  <2> HIDE DEF w, u
  <2>5. Played(round[c], w \o t) = Played(Played(round[c], w), t)
        /\ Played(round[c], w) \in RoundRecords
    BY <2>1, <2>3, PlayedConcat, PlayedType
  <2> QED BY <1>2, <2>3, <2>4, <2>5
<1>4. ASSUME NEW j \in 1 .. Len(u), Starts(u[j]), NEW r \in RoundRecords
      PROVE  Alike(Played(r, SubSeq(u, j, Len(u))), round'[Host])
  <2>1. /\ u \in Seq(Events) /\ Len(u) = Len(s) + Len(t)
        /\ Len(s) \in Nat /\ Len(t) \in Nat
        /\ \A i \in 1 .. Len(s) : u[i] = s[i]
        /\ \A i \in 1 .. Len(t) : u[Len(s) + i] = t[i]
    BY <1>1
  <2>2. CASE j <= Len(s)
    <3> DEFINE w == SubSeq(s, j, Len(s))
    <3>1. w \in Seq(Events) /\ j \in 1 .. Len(s)
      BY <1>1, <2>1, <2>2
    <3>2. SubSeq(u, j, Len(u)) = w \o t
      <4> HIDE DEF s
      <4> QED BY <1>1, <2>1, <2>2
    <3>3. Alike(Played(r, w), round[Host])
      BY <1>4, <2>1, <3>1 DEF RoundInv
    <3> HIDE DEF w, u
    <3>4. Played(r, w \o t) = Played(Played(r, w), t) /\ Played(r, w) \in RoundRecords
      BY <3>1, PlayedConcat, PlayedType
    <3> QED BY <1>2, <3>2, <3>3, <3>4
  <2>3. CASE j > Len(s)
    <3> DEFINE i == j - Len(s)
               w == SubSeq(t, i, Len(t))
               v == SubSeq(t, 1, i - 1)
    <3>1. i \in 1 .. Len(t) /\ t[i] = u[j]
      <4> HIDE DEF u, s
      <4>1. i \in 1 .. Len(t) /\ Len(s) + i = j
        BY <2>1, <2>3
      <4>2. u[Len(s) + i] = t[i]
        BY <2>1, <4>1
      <4> QED BY <4>1, <4>2
    <3>2. SubSeq(u, j, Len(u)) = w
      <4>1. /\ SubSeq(u, j, Len(u)) \in Seq(Events) /\ w \in Seq(Events)
            /\ Len(SubSeq(u, j, Len(u))) = Len(t) - i + 1 /\ Len(w) = Len(t) - i + 1
            /\ \A l \in 1 .. Len(t) - i + 1 :
                 /\ SubSeq(u, j, Len(u))[l] = u[j + l - 1]
                 /\ w[l] = t[i + l - 1] /\ i + l - 1 \in 1 .. Len(t)
                 /\ j + l - 1 = Len(s) + (i + l - 1)
        <5> HIDE DEF u, s
        <5> QED BY <2>1, <3>1
      <4> DEFINE z == SubSeq(u, j, Len(u))
      <4> HIDE DEF z, w, u, i, s
      <4>2. \A l \in 1 .. Len(t) - i + 1 : z[l] = w[l]
        <5> SUFFICES ASSUME NEW l \in 1 .. Len(t) - i + 1 PROVE z[l] = w[l]
          OBVIOUS
        <5>1. /\ z[l] = u[j + l - 1] /\ w[l] = t[i + l - 1]
              /\ i + l - 1 \in 1 .. Len(t) /\ j + l - 1 = Len(s) + (i + l - 1)
          BY <4>1 DEF z
        <5>2. u[Len(s) + (i + l - 1)] = t[i + l - 1]
          BY <2>1, <5>1
        <5> QED BY <5>1, <5>2
      <4>3. /\ z \in Seq(Events) /\ Len(z) = Len(w)
            /\ \A l \in 1 .. Len(z) : z[l] = w[l]
        BY <4>1, <4>2 DEF z
      <4>4. z = w
        BY <4>1, <4>3, SameSeq
      <4> QED BY <4>4 DEF z
    <3>3. /\ w \in Seq(Events) /\ w # <<>> /\ Head(w) = t[i]
      BY <3>1, SuffixMoves
    <3>4. v \in Seq(Events) /\ t = v \o w
      <4> HIDE DEF i
      <4> QED BY <3>1
    <3> HIDE DEF i, v, w, u
    <3>5. Played(x, t) = Played(Played(x, v), w) /\ Played(x, v) \in RoundRecords
      BY <3>3, <3>4, PlayedConcat, PlayedType
    <3>6. Alike(Played(r, w), Played(Played(x, v), w))
      BY <1>4, <3>1, <3>3, <3>5, StartForgets DEF Starts
    <3> QED BY <3>2, <3>5, <3>6 DEF Alike
  <2> QED BY <2>1, <2>2, <2>3
<1> QED BY <1>3, <1>4

LEMMA InitRounds == Init => RoundInv
<1> SUFFICES ASSUME Init PROVE RoundInv
  OBVIOUS
<1>1. /\ up = [p \in Players |-> <<>>] /\ down = [p \in Players |-> <<>>]
      /\ told = {}
  BY DEF Init
<1>2. ~Speaks("MODE", <<>>) /\ Len(<<>>) = 0 /\ ToSet(<<>>) = {}
  BY DEF Speaks, ToSet
<1> QED BY <1>1, <1>2, Sorts DEF RoundInv

LEMMA HearRounds ==
  ASSUME TypeOK, RoundInv, NEW p \in Players, NEW q \in Players, Hear(p, q)
  PROVE  RoundInv'
<1>1. UNCHANGED <<online, up, down, round, told>>
  BY DEF Hear, games, history
<1>2. \A c \in Players : Coming(c)' = Coming(c)
  BY <1>1 DEF Coming
<1>3. \A c \in told \cap online : seen'[Host][c] # Nobody
  <2>1. PICK news : /\ seen' = [seen EXCEPT ![p][q] = news]
                    /\ news = IF p # Host /\ q # Host THEN seen[Host][q]
                              ELSE IF q \in online THEN at[q] ELSE Nobody
    BY DEF Hear
  <2>2. /\ seen \in [Players -> [Players -> Maps \cup {Nobody}]]
        /\ at \in [Players -> Maps] /\ Nobody \notin Maps
    BY Sorts DEF TypeOK
  <2> SUFFICES ASSUME NEW c \in told \cap online PROVE seen'[Host][c] # Nobody
    OBVIOUS
  <2>3. c \in Players /\ Host \in Players /\ seen[Host][c] # Nobody
    BY Sorts DEF RoundInv, TypeOK
  <2>4. CASE p = Host /\ c = q
    BY <2>1, <2>2, <2>3, <2>4
  <2>5. CASE ~(p = Host /\ c = q)
    BY <2>1, <2>2, <2>3, <2>5
  <2> QED BY <2>4, <2>5
<1> QED BY <1>1, <1>2, <1>3, Sorts DEF RoundInv, TypeOK

LEMMA LeaveRounds ==
  ASSUME TypeOK, RoundInv, NEW c \in Clients, Leave(c)
  PROVE  RoundInv'
<1>1. /\ c \in Players \ {Host} /\ online' = online \ {c}
      /\ UpChange(c) /\ up'[c] = <<>> /\ down'[c] = <<>>
      /\ \A q \in Players \ {c} : down'[q] = down[q] /\ round'[q] = round[q]
      /\ UNCHANGED <<seen, told>>
  BY LeaveIs
<1>2. ~Speaks("MODE", <<>>) /\ ToSet(<<>>) = {}
  BY DEF Speaks, ToSet
<1>3. /\ \A q \in Players \ {c} : up'[q] = up[q] /\ Coming(q)' = Coming(q)
      /\ Host \in Players \ {c}
  BY <1>1, Sorts DEF UpChange, Coming
<1>4. \A q \in told \cap online' : q \in Players \ {c}
  BY <1>1 DEF TypeOK
<1>5. \A p \in Players \ {Host} : ~Speaks("MODE", up'[p])
  BY <1>1, <1>2, <1>3 DEF RoundInv
<1>6. \A p \in Players : \A d \in ToSet(down'[p]) :
        d.event.kind = "MODE" => d.from = Host
  BY <1>1, <1>2 DEF RoundInv
<1>7. \A q \in told \cap online' :
        /\ seen'[Host][q] # Nobody
        /\ Alike(Played(round'[q], Coming(q)' \o up'[Host]), round'[Host])
  BY <1>1, <1>3, <1>4 DEF RoundInv
<1> QED BY <1>1, <1>3, <1>5, <1>6, <1>7 DEF RoundInv

LEMMA SaysRounds ==
  ASSUME TypeOK, RoundInv, NEW p \in Players, NEW t \in Seq(Events), SaysMore(p, t),
         ~Speaks("MODE", t), UNCHANGED <<online, seen, down, round, told>>
  PROVE  RoundInv'
<1>1. /\ up[p] \in Seq(Events) /\ up'[p] = up[p] \o t
      /\ \A q \in Players \ {p} : up'[q] = up[q]
      /\ Host \in Players /\ round[Host] \in RoundRecords
  BY Sorts DEF TypeOK, SaysMore, UpChange
<1>2. \A q \in Players : Speaks("MODE", up'[q]) => Speaks("MODE", up[q])
  <2>1. Speaks("MODE", up'[p]) => Speaks("MODE", up[p])
    BY <1>1, SpeaksIs
  <2> QED BY <1>1, <2>1
<1>3. \A c \in Players : Coming(c)' = Coming(c)
  BY DEF Coming
<1>4. /\ \A c \in told \cap online :
            Alike(Played(round[c], Coming(c) \o up'[Host]), round'[Host])
      /\ \A j \in 1 .. Len(up'[Host]) : Starts(up'[Host][j]) =>
            \A r \in RoundRecords :
              Alike(Played(r, SubSeq(up'[Host], j, Len(up'[Host]))), round'[Host])
  <2>1. CASE p = Host
    <3>1. Played(round[Host], t) = round[Host]
      BY <1>1, PlayedOther DEF Speaks
    <3>2. /\ Alike(round[Host], round[Host])
          /\ Alike(Played(round[Host], t), round'[Host])
      BY <3>1 DEF Alike
    <3>3. up'[Host] = up[Host] \o t
      BY <1>1, <2>1
    <3> QED BY <1>1, <3>2, <3>3, HostSays
  <2>2. CASE p # Host
    BY <1>1, <2>2 DEF RoundInv
  <2> QED BY <2>1, <2>2
<1> QED BY <1>2, <1>3, <1>4 DEF RoundInv, TypeOK

LEMMA HitRounds ==
  ASSUME TypeOK, RoundInv, NEW p \in Players, NEW i \in Ids, Hit(p, i)
  PROVE  RoundInv'
<1> DEFINE e == Event("HIT", at[p], i, Nobody)
           t == <<e>>
<1>1. Says(p, t) /\ UNCHANGED <<online, seen, down, round, told>>
  BY DEF Hit
<1>2. e \in Events /\ e.kind = "HIT"
  <2>1. at[p] \in Maps
    BY DEF TypeOK
  <2> QED BY <2>1, EventsAre DEF Event
<1> HIDE DEF e
<1>3. t \in Seq(Events) /\ \A j \in 1 .. Len(t) : t[j].kind = "HIT"
  BY <1>2, OneEvent
<1> HIDE DEF t
<1>4. SaysMore(p, t) /\ ~Speaks("MODE", t)
  BY <1>1, <1>3, SaysIs DEF Speaks
<1> QED BY <1>1, <1>3, <1>4, SaysRounds

LEMMA SetRounds ==
  ASSUME TypeOK, RoundInv, NEW p \in Players, NEW k \in Kinds, NEW v \in Positions,
         Set(p, k, v)
  PROVE  RoundInv'
<1> DEFINE t == SwitchReport(switches[p], k, v, at[p])
<1>1. /\ t \in Seq(Events)
      /\ \A j \in 1 .. Len(t) : t[j] = Event(k, at[p], v, Nobody)
      /\ SaysMore(p, t)
      /\ UNCHANGED <<online, seen, down, round, told>>
  BY SetIs
<1> HIDE DEF t
<1>2. ~Speaks("MODE", t)
  BY <1>1 DEF Event, Kinds, Speaks
<1> QED BY <1>1, <1>2, SaysRounds

LEMMA AdjudicateRounds ==
  ASSUME TypeOK, Routes, RoundInv, NEW p \in Players, Adjudicate(p)
  PROVE  RoundInv'
<1> DEFINE e == Head(up[p])
           d == [from |-> p, event |-> e]
           receivers == Receivers(p, e)
           rest == Tail(up[p])
<1>1. /\ up[p] # <<>> /\ e \in Events /\ up[p] = <<e>> \o rest
      /\ UpChange(p) /\ up'[p] = rest /\ d \in Messages
      /\ \A q \in Players : /\ q \in receivers => down'[q] = Append(down[q], d)
                            /\ q \notin receivers => down'[q] = down[q]
      /\ told' = IF e.kind = "MODE" /\ e.a = "START" THEN receivers ELSE told
      /\ UNCHANGED <<online, seen, round>>
  BY AdjudicateIs DEF games
<1>2. \A q \in Players :
        /\ Coming(q) \in Seq(Events)
        /\ Coming(q)' = IF q \in receivers THEN Append(Coming(q), e) ELSE Coming(q)
  BY ComingAfter
<1>3. receivers \subseteq online \ {p}
  BY ReceiversAre
<1>4. /\ up[p] \in Seq(Events) /\ rest \in Seq(Events) /\ Host \in Players
      /\ down \in [Players -> Seq(Messages)] /\ up[Host] \in Seq(Events)
  BY <1>1, HeadTailSet, Sorts DEF TypeOK
<1>5. \A q \in Players \ {p} : up'[q] = up[q]
  BY <1>1 DEF UpChange
<1>6. Speaks("MODE", up[p]) <=> e.kind = "MODE" \/ Speaks("MODE", rest)
  BY <1>1, <1>4, SpeaksIs
<1>7. e.kind = "MODE" => p = Host
  BY <1>6 DEF RoundInv
<1>8. e.kind = "MODE" =>
        receivers = {q \in online \ {Host} : seen[Host][q] # Nobody}
  BY <1>7 DEF Receivers, WantedBy, KnownAt, TypeOK
<1>9. d.from = p /\ d.event = e
  OBVIOUS
<1>10. Starts(e) =>
         \A r \in RoundRecords : Alike(Played(r, up[Host]), round[Host])
  <2> SUFFICES ASSUME Starts(e), NEW r \in RoundRecords
               PROVE  Alike(Played(r, up[Host]), round[Host])
    OBVIOUS
  <2>1. p = Host /\ up[Host] # <<>> /\ up[Host][1] = e
    BY <1>1, <1>4, <1>7 DEF Starts
  <2>2. 1 \in 1 .. Len(up[Host])
    BY <1>4, <2>1
  <2>3. SubSeq(up[Host], 1, Len(up[Host])) = up[Host]
    BY <1>4, WholeSuffix
  <2>4. Alike(Played(r, SubSeq(up[Host], 1, Len(up[Host]))), round[Host])
    BY <2>1, <2>2 DEF RoundInv
  <2> QED BY <2>3, <2>4
<1>11. \A j \in 1 .. Len(up'[Host]) : Starts(up'[Host][j]) =>
         \A r \in RoundRecords :
           Alike(Played(r, SubSeq(up'[Host], j, Len(up'[Host]))), round'[Host])
  <2>1. CASE p # Host
    BY <1>1, <1>4, <1>5, <2>1 DEF RoundInv
  <2>2. CASE p = Host
    <3> DEFINE u == up[Host]
    <3>1. u \in Seq(Events) /\ u # <<>> /\ up'[Host] = Tail(u)
      BY <1>1, <1>4, <2>2
    <3> SUFFICES ASSUME NEW j \in 1 .. Len(Tail(u)), Starts(Tail(u)[j]),
                        NEW r \in RoundRecords
                 PROVE  Alike(Played(r, SubSeq(Tail(u), j, Len(Tail(u)))), round[Host])
      BY <1>1, <3>1
    <3>2. j + 1 \in 1 .. Len(u) /\ u[j + 1] = Tail(u)[j]
      <4> HIDE DEF u
      <4> QED BY <3>1
    <3>3. SubSeq(Tail(u), j, Len(Tail(u))) = SubSeq(u, j + 1, Len(u))
      <4> HIDE DEF u
      <4> QED BY <3>1
    <3>4. Alike(Played(r, SubSeq(u, j + 1, Len(u))), round[Host])
      BY <3>2 DEF RoundInv
    <3> QED BY <3>3, <3>4
  <2> QED BY <2>1, <2>2
<1> HIDE DEF e, d, receivers, rest
<1>12. \A q \in Players \ {Host} : ~Speaks("MODE", up'[q])
  BY <1>1, <1>5, <1>6 DEF RoundInv
<1>13. \A q \in Players : \A x \in ToSet(down'[q]) :
         x.event.kind = "MODE" => x.from = Host
  <2> SUFFICES ASSUME NEW q \in Players, NEW x \in ToSet(down'[q]),
                      x.event.kind = "MODE"
               PROVE  x.from = Host
    OBVIOUS
  <2>1. CASE q \notin receivers
    BY <1>1, <2>1 DEF RoundInv
  <2>2. CASE q \in receivers
    <3>1. ToSet(Append(down[q], d)) = ToSet(down[q]) \cup {d}
      BY <1>1, <1>4, AppendSet
    <3> QED BY <1>1, <1>7, <1>9, <2>2, <3>1 DEF RoundInv
  <2> QED BY <2>1, <2>2
<1>14. told' \subseteq Clients /\ \A c \in told' \cap online : seen[Host][c] # Nobody
  <2>1. CASE Starts(e)
    <3>1. told' = receivers /\ p = Host
      BY <1>1, <1>7, <2>1 DEF Starts
    <3>2. \A c \in receivers : c \in Players \ {Host} /\ seen[Host][c] # Nobody
      BY <1>8, <2>1 DEF Starts, TypeOK
    <3> QED BY <3>1, <3>2 DEF Players
  <2>2. CASE ~Starts(e)
    BY <1>1, <2>2 DEF Starts, RoundInv
  <2> QED BY <2>1, <2>2
<1>15. ASSUME NEW c \in told' \cap online
       PROVE  Alike(Played(round[c], Coming(c)' \o up'[Host]), round[Host])
  <2> DEFINE C == Coming(c)
             H == up[Host]
             C2 == Coming(c)'
             H2 == up'[Host]
             x == round[c]
  <2>1. c \in Players /\ x \in RoundRecords /\ C \in Seq(Events) /\ H \in Seq(Events)
    BY <1>2, <1>4 DEF TypeOK
  <2>2. /\ C2 = IF c \in receivers THEN Append(C, e) ELSE C
        /\ p = Host => H = <<e>> \o rest /\ H2 = rest
        /\ p # Host => H2 = H
    BY <1>1, <1>2, <1>4, <1>5, <2>1
  <2>3. Starts(e) => (\A r \in RoundRecords : Alike(Played(r, H), round[Host]))
                     /\ c \in receivers /\ p = Host
    BY <1>1, <1>7, <1>10, <1>15 DEF Starts
  <2>4. ~Starts(e) => Alike(Played(x, C \o H), round[Host]) /\ c # Host
                      /\ (e.kind = "MODE" => c \in receivers)
    <3>1. ~Starts(e) => c \in told \cap online
      BY <1>1, <1>15 DEF Starts
    <3> QED BY <1>8, <3>1, Sorts DEF RoundInv
  <2> HIDE DEF C, H, C2, H2, x
  <2> DEFINE u == <<e>> \o rest
  <2>5. /\ Played(x, Append(C, e) \o rest) = Played(x, C \o u)
        /\ e.kind # "MODE" => Played(x, C \o u) = Played(x, C \o rest)
    BY <1>1, <1>4, <2>1, PlayedPassed
  <2>6. e.kind # "MODE" => Played(x, Append(C, e) \o H) = Played(x, C \o H)
    BY <1>1, <2>1, PlayedPassed
  <2> HIDE DEF u
  <2>7. p = Host => H = u
    BY <2>2 DEF u
  <2>8. CASE Starts(e)
    <3>1. Played(x, C2 \o H2) = Played(x, C \o H)
      BY <2>2, <2>3, <2>5, <2>7, <2>8
    <3>2. /\ Played(x, C) \in RoundRecords
          /\ Played(x, C \o H) = Played(Played(x, C), H)
      BY <2>1, PlayedType, PlayedConcat
    <3>3. Alike(Played(x, C2 \o H2), round[Host])
      BY <2>3, <2>8, <3>1, <3>2
    <3> QED BY <3>3 DEF C2, H2, x
  <2>9. CASE ~Starts(e)
    <3>1. Played(x, C2 \o H2) = Played(x, C \o H)
      <4>1. CASE p = Host /\ c \in receivers
        BY <2>2, <2>5, <2>7, <4>1
      <4>2. CASE p = Host /\ c \notin receivers
        BY <2>2, <2>4, <2>5, <2>7, <2>9, <4>2
      <4>3. CASE p # Host /\ c \in receivers
        BY <1>7, <2>2, <2>6, <4>3
      <4>4. CASE p # Host /\ c \notin receivers
        BY <2>2, <4>4
      <4> QED BY <4>1, <4>2, <4>3, <4>4
    <3>2. Alike(Played(x, C2 \o H2), round[Host])
      BY <2>4, <2>9, <3>1
    <3> QED BY <3>2 DEF C2, H2, x
  <2> QED BY <2>8, <2>9
<1> QED BY <1>1, <1>11, <1>12, <1>13, <1>14, <1>15 DEF RoundInv

(* In a frame every event is taken in turn: what is left, and then t, is   *)
(* played on from where the events taken have led.                         *)
LEMMA TakenRound ==
  ASSUME TypeOK, NEW p \in Players, NEW m, NEW loaded, NEW k, NEW h,
         NEW f, NEW r, NEW c,
         FrameOf(p, m, loaded, k, h, f, r, c), NEW t \in Seq(Events)
  PROVE  Played(round[p], Coming(p) \o t)
           = Played(h[k].round, SubSeq(Coming(p), k + 1, Len(Coming(p))) \o t)
<1> DEFINE s == Coming(p)
           rest(i) == SubSeq(s, i + 1, Len(s))
           whole == Played(round[p], s \o t)
           good == {i \in 0 .. k : whole = Played(h[i].round, rest(i) \o t)}
<1>1. down[p] \in Seq(Messages)
  BY DEF TypeOK
<1>2. /\ m \in Maps /\ k \in Nat /\ k <= Len(down[p])
      /\ h \in [0 .. k -> Games] /\ h[0] = Resumed(p, loaded)
      /\ \A i \in 1 .. k : /\ down[p][i] \in Messages
                           /\ h[i] = ApplyEvent(h[i - 1], p, m, down[p][i])
  BY FrameTrace
<1>3. /\ s \in Seq(Events) /\ Len(s) = Len(down[p])
      /\ \A i \in 1 .. Len(s) : s[i] = down[p][i].event
  BY <1>1, EventsOfIs DEF Coming
<1> HIDE DEF s
<1>4. 0 \in good
  <2>1. h[0].round = round[p]
    BY <1>2 DEF Resumed
  <2>2. rest(0) = s
    BY <1>3, WholeSuffix
  <2>3. whole = Played(h[0].round, rest(0) \o t)
    BY <2>1, <2>2
  <2> QED BY <1>2, <2>3
<1> HIDE DEF whole
<1>5. \A i \in 1 .. k : i - 1 \in good => i \in good
  <2> SUFFICES ASSUME NEW i \in 1 .. k, i - 1 \in good PROVE i \in good
    OBVIOUS
  <2>1. whole = Played(h[i - 1].round, rest(i - 1) \o t)
    OBVIOUS
  <2>2. i \in 1 .. Len(s) /\ (i - 1) + 1 = i /\ i - 1 \in 0 .. k /\ i \in 0 .. k
    BY <1>2, <1>3
  <2>3. /\ rest(i - 1) \in Seq(Events) /\ rest(i - 1) # <<>>
        /\ Head(rest(i - 1)) = s[i] /\ Tail(rest(i - 1)) = rest(i)
    BY <1>3, <2>2, SuffixMoves
  <2> DEFINE x == h[i - 1].round
             u == rest(i - 1)
             v == rest(i)
             e == s[i]
  <2>4. x \in RoundRecords
    BY <1>2, <2>2 DEF Games
  <2>5. h[i].round = ModesApply(x, e)
    <3>1. h[i] = ApplyEvent(h[i - 1], p, m, down[p][i])
      BY <1>2
    <3> QED BY <1>3, <2>2, <3>1 DEF ApplyEvent
  <2> HIDE DEF x, u, v, e
  <2>6. Played(x, u \o t) = Played(ModesApply(x, e), v \o t)
    <3>1. u \in Seq(Events) /\ u # <<>> /\ Head(u) = e /\ Tail(u) = v
      BY <2>3 DEF u, v, e
    <3>2. Played(x, u \o t) = Played(ModesApply(x, Head(u)), Tail(u) \o t)
      BY <2>4, <3>1, PlayedNext
    <3> QED BY <3>1, <3>2
  <2>7. whole = Played(h[i].round, v \o t)
    BY <2>1, <2>5, <2>6 DEF x, u
  <2> QED BY <2>2, <2>7 DEF v
<1>6. k \in good
  <2> HIDE DEF good
  <2>1. 0 .. k \subseteq good
    BY <1>2, <1>4, <1>5, Counting
  <2> QED BY <1>2, <2>1
<1> QED BY <1>6 DEF s, whole

(* Only what is said about the round matters to it.                        *)
LEMMA SaysOfRound ==
  ASSUME NEW deaths, AllOf("DEAD", deaths), NEW calls, AllOf("MODE", calls),
         NEW moves, AllOf("CARRY", moves), NEW x \in RoundRecords
  PROVE  Played(x, deaths \o calls \o moves) = Played(x, calls)
<1>1. /\ deaths \in Seq(Events) /\ calls \in Seq(Events) /\ moves \in Seq(Events)
      /\ deaths \o calls \in Seq(Events)
  BY DEF AllOf
<1> DEFINE u == deaths \o calls
<1>2. Played(x, u) = Played(Played(x, deaths), calls)
  BY <1>1, PlayedConcat
<1>3. Played(x, deaths) = x
  BY <1>1, PlayedOther DEF AllOf
<1>4. u \in Seq(Events) /\ Played(x, u) \in RoundRecords
  BY <1>1, PlayedType
<1> HIDE DEF u
<1> DEFINE y == Played(x, u)
<1>5. Played(x, u \o moves) = Played(y, moves)
  BY <1>1, <1>4, PlayedConcat
<1> HIDE DEF y
<1>6. Played(y, moves) = y
  BY <1>1, <1>4, PlayedOther DEF AllOf, y
<1> QED BY <1>2, <1>3, <1>5, <1>6 DEF u, y

LEMMA FrameSaysOfRound ==
  ASSUME TypeOK, NEW p \in Players, NEW m, NEW loaded, NEW k, NEW h,
         NEW f, NEW r, NEW c,
         FrameOf(p, m, loaded, k, h, f, r, c)
  PROVE  /\ \A x \in RoundRecords :
              Played(x, FrameSays(m, h[k].enemies, r, c)) = Played(x, r.says)
         /\ Announced(h[k].round, r) /\ (p # Host => r.says = <<>>)
         /\ h[k].round \in RoundRecords
<1>1. m \in Maps /\ h[k] \in Games
  BY FrameIs
<1>2. /\ h[k].enemies \in EnemyRecords /\ h[k].round \in RoundRecords
      /\ h[k].carry \in CarryRecords
  BY <1>1 DEF Games
<1> DEFINE deaths == EnemySync(h[k].enemies, m).says
<1>3. AllOf("DEAD", deaths)
  BY <1>1, <1>2, EnemySyncIs
<1>4. Announced(h[k].round, r) /\ (p # Host => r.says = <<>>)
  BY <1>1, <1>2, RoundOutcomesAre DEF FrameOf
<1>5. AllOf("MODE", r.says)
  BY <1>4 DEF Announced
<1>6. AllOf("CARRY", c.says)
  <2> DEFINE now == h[k].carry
             shown == f.shown
  <2>1. now \in CarryRecords /\ c \in CarryOutcomes(p, now, m, shown)
    BY <1>2 DEF FrameOf
  <2> HIDE DEF now, shown
  <2> QED BY <1>1, <2>1, CarryOutcomesAre
<1>7. ASSUME NEW x \in RoundRecords
      PROVE  Played(x, FrameSays(m, h[k].enemies, r, c)) = Played(x, r.says)
  <2> DEFINE calls == r.says
             moves == c.says
  <2>1. FrameSays(m, h[k].enemies, r, c) = deaths \o calls \o moves
    BY DEF FrameSays
  <2> HIDE DEF deaths, calls, moves
  <2>2. Played(x, deaths \o calls \o moves) = Played(x, calls)
    BY <1>3, <1>5, <1>6, SaysOfRound DEF calls, moves
  <2> QED BY <2>1, <2>2 DEF calls
<1> QED BY <1>2, <1>4, <1>7

LEMMA FrameRounds ==
  ASSUME TypeOK, Routes, RoundInv, NEW p \in Players, Frame(p)
  PROVE  RoundInv'
<1>1. /\ \E m, loaded, k, h, f, r, c : FrameOf(p, m, loaded, k, h, f, r, c)
      /\ p \in online /\ UNCHANGED <<scene, online, seen, history>>
  BY FrameUnfolds
<1>2. PICK m, loaded, k, h, f, r, c : FrameOf(p, m, loaded, k, h, f, r, c)
  BY <1>1
<1> DEFINE says == FrameSays(m, h[k].enemies, r, c)
           x == h[k].round
           calls == r.says
           now == r.round
           rest == SubSeq(Coming(p), k + 1, Len(Coming(p)))
<1>3. /\ says \in Seq(Events) /\ k \in 0 .. Len(down[p])
      /\ \A i \in 1 .. Len(says) : \/ says[i].kind = "DEAD" /\ says[i].map = m
                                   \/ says[i].kind = "MODE" /\ p = Host
                                   \/ says[i].kind = "CARRY" /\ says[i].map = m
  BY <1>2, FrameIs
<1>4. /\ SaysMore(p, says)
      /\ down'[p] = SubSeq(down[p], k + 1, Len(down[p]))
      /\ round'[p] = now
      /\ \A q \in Players \ {p} : down'[q] = down[q] /\ round'[q] = round[q]
  BY <1>2, FrameMoves
<1>5. /\ \A y \in RoundRecords : Played(y, says) = Played(y, calls)
      /\ Announced(x, r) /\ (p # Host => calls = <<>>) /\ x \in RoundRecords
  BY <1>2, FrameSaysOfRound
<1>6. PICK w \in RoundRecords : Alike(w, x) /\ now = Played(w, calls)
  BY <1>5 DEF Announced
<1>7. \A t \in Seq(Events) : Played(round[p], Coming(p) \o t) = Played(x, rest \o t)
  BY <1>2, TakenRound
<1>8. /\ up[p] \in Seq(Events) /\ down[p] \in Seq(Messages) /\ Coming(p) \in Seq(Events)
      /\ Len(Coming(p)) = Len(down[p]) /\ round[p] \in RoundRecords /\ Host \in Players
      /\ up[Host] \in Seq(Events)
      /\ \A j \in 1 .. Len(Coming(p)) : Coming(p)[j] = down[p][j].event
  <2>1. up[p] \in Seq(Events) /\ down[p] \in Seq(Messages)
        /\ round[p] \in RoundRecords /\ Host \in Players /\ up[Host] \in Seq(Events)
    BY Sorts DEF TypeOK
  <2> QED BY <2>1, EventsOfIs DEF Coming
<1>9. /\ Coming(p)' = rest /\ rest \in Seq(Events)
      /\ \A q \in Players \ {p} : Coming(q)' = Coming(q)
  <2>1. EventsOf(SubSeq(down[p], k + 1, Len(down[p])))
          = SubSeq(EventsOf(down[p]), k + 1, Len(EventsOf(down[p])))
    BY <1>3, <1>8, EventsOfMoves
  <2>2. rest \in Seq(Events)
    BY <1>3, <1>8
  <2> QED BY <1>4, <2>1, <2>2 DEF Coming
<1>10. up'[p] = up[p] \o says /\ \A q \in Players \ {p} : up'[q] = up[q]
  BY <1>4 DEF SaysMore, UpChange
<1> HIDE DEF says, x, calls, now, rest
<1>11. /\ told' = told /\ online' = online /\ seen' = seen
  BY <1>1 DEF history
<1>12. \A q \in Players \ {Host} : ~Speaks("MODE", up'[q])
  <2> SUFFICES ASSUME NEW q \in Players \ {Host} PROVE ~Speaks("MODE", up'[q])
    OBVIOUS
  <2>1. ~Speaks("MODE", up[q])
    BY DEF RoundInv
  <2>2. CASE q = p
    <3>1. ~Speaks("MODE", says)
      BY <1>3, <2>2 DEF Speaks
    <3>2. Speaks("MODE", up[p] \o says) <=> Speaks("MODE", up[p]) \/ Speaks("MODE", says)
      BY <1>3, <1>8, SpeaksIs
    <3> QED BY <1>10, <2>1, <2>2, <3>1, <3>2
  <2>3. CASE q # p
    BY <1>10, <2>1, <2>3
  <2> QED BY <2>2, <2>3
<1>13. \A q \in Players : \A d \in ToSet(down'[q]) :
         d.event.kind = "MODE" => d.from = Host
  <2>1. ToSet(down'[p]) \subseteq ToSet(down[p])
    BY <1>3, <1>4, <1>8, SplitSet
  <2> QED BY <1>4, <2>1 DEF RoundInv
<1>14. CASE p = Host
  <2>1. \A j \in 1 .. Len(Coming(p)) : Coming(p)[j].kind # "MODE"
    <3>1. \A d \in ToSet(down[p]) : d.event.kind # "MODE"
      BY <1>14 DEF RoundInv, Routes
    <3> QED BY <1>8, <3>1, InSet
  <2>2. x = round[p]
    <3>1. <<>> \in Seq(Events)
      OBVIOUS
    <3>2. Coming(p) \o <<>> = Coming(p) /\ rest \o <<>> = rest
      BY <1>8, <1>9
    <3>3. Played(round[p], Coming(p)) = Played(x, rest)
      BY <1>7, <3>1, <3>2
    <3>4. \A j \in 1 .. Len(rest) : rest[j].kind # "MODE"
      BY <1>3, <1>8, <2>1 DEF rest
    <3>5. Played(round[p], Coming(p)) = round[p]
      BY <1>8, <2>1, PlayedOther
    <3>6. Played(x, rest) = x
      BY <1>5, <1>9, <3>4, PlayedOther
    <3> QED BY <3>3, <3>5, <3>6
  <2>3. /\ Alike(w, round[Host]) /\ up'[Host] = up[Host] \o says
        /\ Alike(Played(w, says), round'[Host])
    BY <1>4, <1>5, <1>6, <1>10, <1>14, <2>2 DEF Alike
  <2>4. /\ \A d \in told \cap online :
              Alike(Played(round[d], Coming(d) \o up'[Host]), round'[Host])
        /\ \A j \in 1 .. Len(up'[Host]) : Starts(up'[Host][j]) =>
              \A y \in RoundRecords :
                Alike(Played(y, SubSeq(up'[Host], j, Len(up'[Host]))), round'[Host])
    BY <1>3, <1>6, <2>3, HostSays
  <2>5. \A d \in told \cap online : d \in Players \ {Host}
    BY Sorts DEF RoundInv, TypeOK
  <2>6. \A d \in told \cap online :
          Alike(Played(round'[d], Coming(d)' \o up'[Host]), round'[Host])
    BY <1>4, <1>9, <1>14, <2>4, <2>5
  <2> QED BY <1>11, <1>12, <1>13, <2>4, <2>6 DEF RoundInv
<1>15. CASE p # Host
  <2>1. up'[Host] = up[Host] /\ round'[Host] = round[Host]
    BY <1>4, <1>8, <1>10, <1>15
  <2>2. Alike(now, x) /\ now \in RoundRecords
    BY <1>5, <1>6, <1>15, PlayedNothing
  <2>3. Alike(Played(now, rest \o up[Host]), Played(round[p], Coming(p) \o up[Host]))
    <3> DEFINE t == rest \o up[Host]
    <3>1. t \in Seq(Events)
      BY <1>8, <1>9, ConcatSet
    <3>2. Played(round[p], Coming(p) \o up[Host]) = Played(x, t)
      BY <1>7, <1>8
    <3> HIDE DEF t
    <3>3. Alike(Played(now, t), Played(x, t))
      BY <1>5, <2>2, <3>1, AlikePlayed
    <3> QED BY <3>2, <3>3 DEF t
  <2>4. ASSUME NEW d \in told \cap online
        PROVE  Alike(Played(round'[d], Coming(d)' \o up'[Host]), round'[Host])
    <3>1. Alike(Played(round[d], Coming(d) \o up[Host]), round[Host]) /\ d \in Players
      BY DEF RoundInv, TypeOK
    <3>2. CASE d = p
      <4>1. Alike(Played(now, rest \o up[Host]), round[Host])
        BY <2>3, <3>1, <3>2 DEF Alike
      <4> QED BY <1>4, <1>9, <2>1, <3>2, <4>1
    <3>3. CASE d # p
      BY <1>4, <1>9, <2>1, <3>1, <3>3
    <3> QED BY <3>2, <3>3
  <2> QED BY <1>11, <1>12, <1>13, <2>1, <2>4 DEF RoundInv
<1> QED BY <1>14, <1>15

LEMMA NextRounds == Core /\ Routes /\ RoundInv /\ [Next]_vars => RoundInv'
<1> SUFFICES ASSUME Core, Routes, RoundInv, [Next]_vars PROVE RoundInv'
  OBVIOUS
<1> USE DEF Core
<1>1. CASE \E p, q \in Players : Hear(p, q)
  BY <1>1, HearRounds
<1>2. CASE \E c \in Clients : Leave(c)
  BY <1>2, LeaveRounds
<1>3. CASE \E p \in Players : Adjudicate(p)
  BY <1>3, AdjudicateRounds
<1>4. CASE \E p \in Players : Frame(p)
  BY <1>4, FrameRounds
<1>5. CASE \E p \in Players, i \in Ids : Hit(p, i)
  BY <1>5, HitRounds
<1>6. CASE \E p \in Players, k \in Kinds, v \in Positions : Set(p, k, v)
  BY <1>6, SetRounds
<1>7. CASE UNCHANGED vars
  BY <1>7 DEF RoundInv, Coming, vars, network, games, history
<1> QED BY <1>1, <1>2, <1>3, <1>4, <1>5, <1>6, <1>7 DEF Next

(* All who were told of the start play the host's round: with nothing      *)
(* about it on its way, mode, running or over, and who has been found are  *)
(* the same on every screen (modes.c, relay_event).                        *)
THEOREM OneRoundForAll == Spec => []SameRound
<1>1. Core /\ RoundInv => SameRound
  <2> SUFFICES ASSUME Core, RoundInv, NEW c \in told \cap online,
                      \A e \in OnTheWay(Host, c) : e.kind # "MODE"
               PROVE  Alike(round[c], round[Host])
    BY DEF SameRound, Alike
  <2>1. /\ c \in Players /\ Host \in Players /\ up[Host] \in Seq(Events)
        /\ down[c] \in Seq(Messages) /\ round[c] \in RoundRecords
    BY Sorts DEF Core, TypeOK
  <2>2. /\ Coming(c) \in Seq(Events) /\ Len(Coming(c)) = Len(down[c])
        /\ \A j \in 1 .. Len(Coming(c)) : Coming(c)[j] = down[c][j].event
    BY <2>1, EventsOfIs DEF Coming
  <2>3. \A j \in 1 .. Len(up[Host]) : up[Host][j].kind # "MODE"
    <3>1. \A e \in ToSet(up[Host]) : e.kind # "MODE"
      BY DEF OnTheWay
    <3> QED BY <2>1, <3>1, InSet
  <2>4. \A j \in 1 .. Len(Coming(c)) : Coming(c)[j].kind # "MODE"
    <3>1. \A d \in ToSet(down[c]) : d.event.kind # "MODE"
      <4> SUFFICES ASSUME NEW d \in ToSet(down[c]), d.event.kind = "MODE" PROVE FALSE
        OBVIOUS
      <4>1. d.from = Host
        BY <2>1 DEF RoundInv
      <4>2. d.event \in OnTheWay(Host, c)
        BY <4>1 DEF OnTheWay
      <4> QED BY <4>2
    <3> QED BY <2>1, <2>2, <3>1, InSet
  <2> DEFINE s == Coming(c)
             t == up[Host]
  <2>5. Played(round[c], s) = round[c] /\ Played(round[c], t) = round[c]
    <3> HIDE DEF s, t
    <3>1. s \in Seq(Events) /\ \A j \in 1 .. Len(s) : s[j].kind # "MODE"
      BY <2>2, <2>4 DEF s
    <3>2. t \in Seq(Events) /\ \A j \in 1 .. Len(t) : t[j].kind # "MODE"
      BY <2>1, <2>3 DEF t
    <3> QED BY <2>1, <3>1, <3>2, PlayedOther
  <2>6. Played(round[c], s \o t) = round[c]
    BY <2>1, <2>2, <2>5, PlayedConcat
  <2> QED BY <2>6 DEF RoundInv
<1>2. Init => Core /\ Routes /\ RoundInv
  BY InitCore, InitRoutes, InitRounds
<1>3. Core /\ Routes /\ RoundInv /\ [Next]_vars => (Core /\ Routes /\ RoundInv)'
  BY NextCore, NextRoutes, NextRounds
<1> QED BY <1>1, <1>2, <1>3, PTL DEF Spec
-----------------------------------------------------------------------------
(* Fights.  The hits an enemy has taken on the screen of a player, with    *)
(* those on their way to it, are no more than those the host has passed on *)
(* and the player's own, and just as many while it stands before one that  *)
(* stays; and whatever is known dead, or announced, has taken the hits     *)
(* that kill it.                                                           *)

Death(m, i) == Event("DEAD", m, i, Nobody)

(* No death among s is announced before the hits that kill it: n of them,  *)
(* and those before it in s.                                               *)
Earned(s, m, i, n) ==
  \A j \in 1 .. Len(s) :
    s[j] = Death(m, i) => MaxHp <= n + HitsIn(SubSeq(s, 1, j - 1), m, i)

(* The hits on enemy i that p has taken or will take, and those dealt in   *)
(* its map as far as p and the host know.                                  *)
Taking(p, i) == MaxHp - enemies[p].hp[i] + HitsIn(Coming(p), at[p], i)
Given(p, i) == Landed(at[p], i) + HitsIn(up[p], at[p], i)

(* p knows i to be dead, or is about to hear of it; and p is to announce   *)
(* that i is dead.                                                         *)
Informed(p, i) ==
  i \in enemies[p].dead \/ Death(at[p], i) \in ToSet(Coming(p))
Announces(p, i) ==
  i \in enemies[p].dead /\ Death(at[p], i) \in ToSet(up[p])

QueuesInv ==
  \A m \in Maps, i \in Ids, p \in Players :
    /\ HitsIn(Coming(p), m, i) <= Landed(m, i)
    /\ Death(m, i) \in ToSet(Coming(p)) => MaxHp <= Landed(m, i)
    /\ Earned(up[p], m, i, Landed(m, i))

ScreensInv ==
  \A p \in online :
    /\ enemies[p].tracked = at[p]
    /\ \A i \in Ids :
         /\ i \in enemies[p].dead => enemies[p].hp[i] = 0 /\ MaxHp <= Given(p, i)
         /\ i \notin enemies[p].dead => Taking(p, i) <= Given(p, i)

SharedInv ==
  \A p \in Stayers \cap online, i \in Ids :
    /\ enemies[p].hp[i] > 0 => Taking(p, i) = Given(p, i)
    /\ i \in enemies[p].listed \cup enemies[p].dead
    /\ Death(at[p], i) \in ToSet(up[p]) => i \in enemies[p].dead
    /\ \A q \in Stayers \cap online :
         at[q] = at[p] /\ Informed(p, i) => Informed(q, i) \/ Announces(p, i)

FightInv == QueuesInv /\ ScreensInv /\ SharedInv

LEMMA EarnedMore ==
  ASSUME NEW s \in Seq(Events), NEW m, NEW i, NEW n \in Nat, NEW l \in Nat,
         Earned(s, m, i, n)
  PROVE  Earned(s, m, i, n + l)
<1> SUFFICES ASSUME NEW j \in 1 .. Len(s), s[j] = Death(m, i)
             PROVE  MaxHp <= (n + l) + HitsIn(SubSeq(s, 1, j - 1), m, i)
  BY DEF Earned
<1>1. SubSeq(s, 1, j - 1) \in Seq(Events)
  OBVIOUS
<1>2. HitsIn(SubSeq(s, 1, j - 1), m, i) \in Nat
  BY <1>1, HitsAre
<1>3. MaxHp <= n + HitsIn(SubSeq(s, 1, j - 1), m, i)
  BY DEF Earned
<1> QED BY <1>2, <1>3, EnemiesAssumption

(* What is announced after s has been earned by then.                      *)
LEMMA EarnedConcat ==
  ASSUME NEW s \in Seq(Events), NEW t \in Seq(Events), NEW m, NEW i, NEW n \in Nat,
         Earned(s, m, i, n),
         \A j \in 1 .. Len(t) : t[j] = Death(m, i) => MaxHp <= n + HitsIn(s, m, i)
  PROVE  Earned(s \o t, m, i, n)
<1> DEFINE u == s \o t
<1> SUFFICES ASSUME NEW j \in 1 .. Len(u), u[j] = Death(m, i)
             PROVE  MaxHp <= n + HitsIn(SubSeq(u, 1, j - 1), m, i)
  BY DEF Earned
<1>1. CASE j <= Len(s)
  <2>1. j \in 1 .. Len(s) /\ u[j] = s[j]
    BY <1>1
  <2>2. SubSeq(u, 1, j - 1) = SubSeq(s, 1, j - 1)
    BY <1>1
  <2>3. MaxHp <= n + HitsIn(SubSeq(s, 1, j - 1), m, i)
    BY <2>1 DEF Earned
  <2> HIDE DEF u
  <2> QED BY <2>2, <2>3
<1>2. CASE j > Len(s)
  <2> DEFINE l == j - Len(s)
             v == SubSeq(t, 1, l - 1)
  <2>1. l \in 1 .. Len(t) /\ u[j] = t[l] /\ v \in Seq(Events)
    BY <1>2
  <2>2. SubSeq(u, 1, j - 1) = s \o v
    BY <1>2
  <2>3. HitsIn(s \o v, m, i) = HitsIn(s, m, i) + HitsIn(v, m, i)
        /\ HitsIn(s, m, i) \in Nat /\ HitsIn(v, m, i) \in Nat
    <3> HIDE DEF v
    <3> QED BY <2>1, HitsAre
  <2>4. MaxHp <= n + HitsIn(s, m, i)
    BY <2>1
  <2> HIDE DEF u, v
  <2>5. HitsIn(SubSeq(u, 1, j - 1), m, i) = HitsIn(s \o v, m, i)
    BY <2>2
  <2> QED BY <2>3, <2>4, <2>5, EnemiesAssumption
<1> QED BY <1>1, <1>2

(* The first of s is heard: a hit counts from now on, a death was earned.  *)
LEMMA EarnedTail ==
  ASSUME NEW s \in Seq(Events), s # <<>>, NEW m, NEW i, NEW n \in Nat,
         Earned(s, m, i, n)
  PROVE  /\ Earned(Tail(s), m, i,
                   n + IF Head(s) = Event("HIT", m, i, Nobody) THEN 1 ELSE 0)
         /\ Head(s) = Death(m, i) => MaxHp <= n
<1> DEFINE e == Head(s)
           t == Tail(s)
           l == IF e = Event("HIT", m, i, Nobody) THEN 1 ELSE 0
<1>1. e \in Events /\ t \in Seq(Events) /\ s = <<e>> \o t /\ l \in Nat
  BY HeadTailSet
<1>2. e = Death(m, i) => MaxHp <= n
  <2> SUFFICES ASSUME e = Death(m, i) PROVE MaxHp <= n
    OBVIOUS
  <2>1. 1 \in 1 .. Len(s) /\ s[1] = e /\ SubSeq(s, 1, 1 - 1) = <<>>
    OBVIOUS
  <2> HIDE DEF e
  <2>2. MaxHp <= n + HitsIn(SubSeq(s, 1, 1 - 1), m, i)
    BY <2>1 DEF Earned
  <2>3. MaxHp <= n + 0
    BY <2>1, <2>2, NoHitsYet
  <2> QED BY <2>3
<1>3. ASSUME NEW j \in 1 .. Len(t), t[j] = Death(m, i)
      PROVE  MaxHp <= (n + l) + HitsIn(SubSeq(t, 1, j - 1), m, i)
  <2> DEFINE v == SubSeq(t, 1, j - 1)
             w == SubSeq(s, 1, j)
  <2>1. v \in Seq(Events) /\ w \in Seq(Events) /\ w # <<>> /\ Head(w) = e /\ Tail(w) = v
    BY <1>1
  <2>2. j + 1 \in 1 .. Len(s) /\ s[j + 1] = t[j] /\ (j + 1) - 1 = j
    BY <1>1
  <2> HIDE DEF e, t
  <2>3. MaxHp <= n + HitsIn(w, m, i)
    <3> HIDE DEF w
    <3>1. MaxHp <= n + HitsIn(SubSeq(s, 1, (j + 1) - 1), m, i)
      BY <1>3, <2>2 DEF Earned
    <3> QED BY <2>2, <3>1 DEF w
  <2>4. HitsIn(w, m, i) = HitsIn(v, m, i) + l /\ HitsIn(v, m, i) \in Nat
    <3> HIDE DEF v, w
    <3>1. /\ HitsIn(v, m, i) \in Nat
          /\ HitsIn(w, m, i) = HitsIn(Tail(w), m, i)
               + (IF Head(w) = Event("HIT", m, i, Nobody) THEN 1 ELSE 0)
      BY <2>1, HitsAre
    <3> QED BY <2>1, <3>1
  <2> HIDE DEF v, w, l
  <2>5. MaxHp <= (n + l) + HitsIn(v, m, i)
    BY <1>1, <2>3, <2>4, EnemiesAssumption
  <2> QED BY <2>5 DEF v
<1> HIDE DEF e, t, l
<1>4. Earned(t, m, i, n + l)
  BY <1>3 DEF Earned
<1> QED BY <1>2, <1>4 DEF e, t, l

LEMMA Numbers ==
  ASSUME Core, NEW p \in Players, NEW m \in Maps, NEW i \in Ids
  PROVE  /\ Landed(m, i) \in Nat /\ Landed(m, i) = dealt[m][i] - Unlanded(m, i)
         /\ dealt[m][i] \in Nat /\ Unlanded(m, i) \in Nat
         /\ HitsIn(up[p], m, i) \in Nat /\ HitsIn(up[p], m, i) <= Unlanded(m, i)
         /\ HitsIn(Coming(p), m, i) \in Nat
         /\ enemies[p].hp[i] \in 0 .. MaxHp /\ MaxHp \in Nat /\ MaxHp > 0
         /\ at[p] \in Maps /\ enemies[p] \in EnemyRecords
         /\ up[p] \in Seq(Events) /\ Coming(p) \in Seq(Events)
<1>1. /\ at[p] \in Maps /\ up[p] \in Seq(Events) /\ down[p] \in Seq(Messages)
      /\ enemies[p] \in EnemyRecords /\ dealt[m][i] \in Nat
  BY AdventureAssumption DEF Core, TypeOK
<1>2. Coming(p) \in Seq(Events)
  BY <1>1, EventsOfIs DEF Coming
<1>3. HitsIn(up[p], m, i) \in Nat /\ HitsIn(Coming(p), m, i) \in Nat
  BY <1>1, <1>2, HitsAre
<1>4. Unlanded(m, i) \in Nat /\ Unlanded(m, i) <= dealt[m][i]
  BY DEF Core, HitsCounted
<1>5. HitsIn(up[p], m, i) <= Unlanded(m, i)
  <2> DEFINE f == HitsUp(m, i)
  <2>1. f \in [Players -> Nat] /\ \A q \in Players : f[q] = HitsIn(up[q], m, i)
    BY HitsAre DEF Core, TypeOK, HitsUp
  <2>2. Unlanded(m, i) = SumFunctionOnSet(f, Players)
    BY DEF Unlanded
  <2> HIDE DEF f
  <2>3. f[p] <= SumFunctionOnSet(f, Players)
    BY <2>1, Sorts, SumChange
  <2> QED BY <2>1, <2>2, <2>3
<1>6. enemies[p].hp[i] \in 0 .. MaxHp /\ MaxHp \in Nat /\ MaxHp > 0
  BY <1>1, EnemiesAssumption DEF EnemyRecords
<1> QED BY <1>1, <1>2, <1>3, <1>4, <1>5, <1>6 DEF Landed

LEMMA InitFights == Init => FightInv
<1> SUFFICES ASSUME Init PROVE FightInv
  OBVIOUS
<1>1. Core
  BY InitCore
<1>2. /\ up = [p \in Players |-> <<>>] /\ down = [p \in Players |-> <<>>]
      /\ enemies = [p \in Players |-> EnemiesAt(at[p])] /\ online = Players
  BY DEF Init
<1>3. \A p \in Players : up[p] = <<>> /\ Coming(p) = <<>>
  <2>1. EventsOf(<<>>) = <<>>
    BY DEF EventsOf
  <2> QED BY <1>2, <2>1 DEF Coming
<1>4. ToSet(<<>>) = {} /\ \A m \in Maps, i \in Ids : HitsIn(<<>>, m, i) = 0
  BY NoHitsYet DEF ToSet
<1>5. \A p \in Players :
        /\ \A i \in Ids : enemies[p].hp[i] = MaxHp
        /\ enemies[p].dead = {} /\ enemies[p].listed = Ids
        /\ enemies[p].tracked = at[p]
  BY <1>2 DEF EnemiesAt, AllUp
<1>6. \A m \in Maps, i \in Ids : Landed(m, i) = 0
  <2> SUFFICES ASSUME NEW m \in Maps, NEW i \in Ids PROVE Landed(m, i) = 0
    OBVIOUS
  <2>1. dealt[m][i] = 0
    BY DEF Init
  <2>2. Unlanded(m, i) \in Nat /\ Unlanded(m, i) <= dealt[m][i]
    BY <1>1 DEF Core, HitsCounted
  <2> QED BY <2>1, <2>2 DEF Landed
<1>7. QueuesInv
  <2>1. \A m \in Maps, i \in Ids : Earned(<<>>, m, i, Landed(m, i))
    BY DEF Earned
  <2> QED BY <1>3, <1>4, <1>6, <2>1 DEF QueuesInv
<1>8. \A p \in Players, i \in Ids :
        Taking(p, i) = 0 /\ Given(p, i) = 0 /\ ~Informed(p, i)
  <2> SUFFICES ASSUME NEW p \in Players, NEW i \in Ids
               PROVE  Taking(p, i) = 0 /\ Given(p, i) = 0 /\ ~Informed(p, i)
    OBVIOUS
  <2>1. at[p] \in Maps /\ MaxHp \in Nat
    BY <1>1, EnemiesAssumption DEF Core, TypeOK
  <2>2. HitsIn(Coming(p), at[p], i) = 0 /\ HitsIn(up[p], at[p], i) = 0
    BY <1>3, <1>4, <2>1
  <2> QED BY <1>3, <1>4, <1>5, <1>6, <2>1, <2>2 DEF Taking, Given, Informed
<1>9. ScreensInv
  <2> SUFFICES ASSUME NEW p \in Players
               PROVE  /\ enemies[p].tracked = at[p]
                      /\ \A i \in Ids : i \notin enemies[p].dead /\ Taking(p, i) <= Given(p, i)
    BY <1>2 DEF ScreensInv
  <2> QED BY <1>5, <1>8
<1>10. SharedInv
  BY <1>2, <1>3, <1>4, <1>5, <1>8 DEF SharedInv
<1> QED BY <1>7, <1>9, <1>10 DEF FightInv

LEMMA HearFights ==
  ASSUME Core, FightInv, NEW p \in Players, NEW q \in Players, Hear(p, q)
  PROVE  FightInv'
<1>1. UNCHANGED <<online, at, up, down, enemies, dealt>>
  BY DEF Hear, games, history
<1>2. /\ \A m, i : Landed(m, i)' = Landed(m, i)
      /\ \A c \in Players : Coming(c)' = Coming(c)
  BY <1>1, UnlandedSame DEF Landed, Coming
<1>3. \A c \in Players, i \in Ids :
        /\ Taking(c, i)' = Taking(c, i) /\ Given(c, i)' = Given(c, i)
        /\ Informed(c, i)' <=> Informed(c, i)
        /\ Announces(c, i)' <=> Announces(c, i)
  BY <1>1, <1>2 DEF Taking, Given, Informed, Announces
<1>4. QueuesInv'
  BY <1>1, <1>2 DEF QueuesInv, FightInv, Earned
<1>5. ScreensInv'
  BY <1>1, <1>3 DEF ScreensInv, FightInv, Core, TypeOK
<1>6. SharedInv'
  BY <1>1, <1>3, Sorts DEF SharedInv, FightInv
<1> QED BY <1>4, <1>5, <1>6 DEF FightInv

(* p reports t and deals no hit in it: what has been dealt, and is known   *)
(* to have been, stays.                                                    *)
LEMMA QuietMoves ==
  ASSUME Core, NEW p \in Players, NEW t \in Seq(Events), SaysMore(p, t),
         \A j \in 1 .. Len(t) : t[j].kind # "HIT", UNCHANGED dealt
  PROVE  /\ \A m, i : Landed(m, i)' = Landed(m, i)
         /\ \A q \in Players : \A m, i : HitsIn(up'[q], m, i) = HitsIn(up[q], m, i)
         /\ ToSet(up'[p]) = ToSet(up[p]) \cup ToSet(t)
         /\ \A q \in Players \ {p} : up'[q] = up[q]
<1>1. \A m, i : /\ HitsIn(up'[p], m, i) = HitsIn(up[p], m, i)
                /\ Unlanded(m, i)' = Unlanded(m, i)
  BY UnlandedQuiet DEF Core
<1>2. \A q \in Players \ {p} : up'[q] = up[q]
  BY DEF SaysMore, UpChange
<1>3. ToSet(up'[p]) = ToSet(up[p]) \cup ToSet(t)
  BY ConcatSet DEF SaysMore, Core, TypeOK
<1>4. \A m, i : Landed(m, i)' = Landed(m, i)
  BY <1>1 DEF Landed
<1> QED BY <1>1, <1>2, <1>3, <1>4

LEMMA SetFights ==
  ASSUME Core, FightInv, NEW p \in Players, NEW k \in Kinds, NEW v \in Positions,
         Set(p, k, v)
  PROVE  FightInv'
<1> DEFINE t == SwitchReport(switches[p], k, v, at[p])
<1>1. /\ t \in Seq(Events)
      /\ \A j \in 1 .. Len(t) : t[j] = Event(k, at[p], v, Nobody)
      /\ SaysMore(p, t)
      /\ UNCHANGED <<online, at, down, enemies, dealt>>
  BY SetIs DEF Core
<1> HIDE DEF t
<1>2. \A j \in 1 .. Len(t) : t[j].kind \notin {"HIT", "DEAD"}
  BY <1>1 DEF Event, Kinds
<1>3. /\ \A m, i : Landed(m, i)' = Landed(m, i)
      /\ \A q \in Players : \A m, i : HitsIn(up'[q], m, i) = HitsIn(up[q], m, i)
      /\ ToSet(up'[p]) = ToSet(up[p]) \cup ToSet(t)
      /\ \A q \in Players \ {p} : up'[q] = up[q]
  BY <1>1, <1>2, QuietMoves
<1>4. \A q \in Players : \A m, i : Death(m, i) \in ToSet(up'[q]) <=> Death(m, i) \in ToSet(up[q])
  <2>1. \A m, i : Death(m, i) \notin ToSet(t)
    BY <1>1, <1>2, InSet DEF Death, Event
  <2> QED BY <1>3, <2>1
<1>5. \A c \in Players : Coming(c)' = Coming(c)
  BY <1>1 DEF Coming
<1>6. \A c \in Players, i \in Ids :
        /\ Taking(c, i)' = Taking(c, i) /\ Given(c, i)' = Given(c, i)
        /\ Informed(c, i)' <=> Informed(c, i)
        /\ Announces(c, i)' <=> Announces(c, i)
  BY <1>1, <1>3, <1>4, <1>5 DEF Taking, Given, Informed, Announces
<1>7. QueuesInv'
  <2> SUFFICES ASSUME NEW m \in Maps, NEW i \in Ids, NEW q \in Players
               PROVE  Earned(up'[q], m, i, Landed(m, i))
    BY <1>3, <1>5 DEF QueuesInv, FightInv
  <2>1. Earned(up[q], m, i, Landed(m, i)) /\ Landed(m, i) \in Nat /\ up[q] \in Seq(Events)
    BY Numbers DEF QueuesInv, FightInv
  <2>2. CASE q = p
    <3>1. \A j \in 1 .. Len(t) : t[j] # Death(m, i)
      BY <1>2 DEF Death, Event
    <3>2. Earned(up[q] \o t, m, i, Landed(m, i))
      BY <1>1, <2>1, <3>1, EarnedConcat
    <3> QED BY <1>1, <2>2, <3>2 DEF SaysMore
  <2>3. CASE q # p
    BY <1>3, <2>1, <2>3
  <2> QED BY <2>2, <2>3
<1>8. ScreensInv'
  BY <1>1, <1>6 DEF ScreensInv, FightInv, Core, TypeOK
<1>9. SharedInv'
  BY <1>1, <1>4, <1>6, Sorts DEF SharedInv, FightInv
<1> QED BY <1>7, <1>8, <1>9 DEF FightInv

LEMMA LeaveFights ==
  ASSUME Core, FightInv, NEW c \in Clients, Leave(c)
  PROVE  FightInv'
<1>1. /\ c \in Players /\ online' = online \ {c}
      /\ UpChange(c) /\ up'[c] = <<>> /\ down'[c] = <<>>
      /\ \A q \in Players \ {c} : down'[q] = down[q] /\ enemies'[q] = enemies[q]
      /\ at' = at
  BY LeaveIs DEF Core
<1>2. dealt' = [m \in Maps |-> [i \in Ids |-> dealt[m][i] - HitsIn(up[c], m, i)]]
  BY DEF Leave
<1>3. /\ Coming(c)' = <<>> /\ \A q \in Players \ {c} : Coming(q)' = Coming(q)
      /\ \A q \in Players \ {c} : up'[q] = up[q]
  <2>1. EventsOf(<<>>) = <<>>
    BY DEF EventsOf
  <2> QED BY <1>1, <2>1 DEF Coming, UpChange
<1>4. \A m \in Maps, i \in Ids : Landed(m, i)' = Landed(m, i) /\ HitsIn(<<>>, m, i) = 0
  <2> SUFFICES ASSUME NEW m \in Maps, NEW i \in Ids
               PROVE  Landed(m, i)' = Landed(m, i) /\ HitsIn(<<>>, m, i) = 0
    OBVIOUS
  <2>1. /\ Unlanded(m, i) \in Nat /\ HitsIn(up[c], m, i) \in Nat
        /\ Unlanded(m, i)' = Unlanded(m, i) - HitsIn(up[c], m, i) + HitsIn(up'[c], m, i)
    BY <1>1, UnlandedChange DEF Core
  <2>2. HitsIn(<<>>, m, i) = 0
    BY NoHitsYet
  <2>3. dealt'[m][i] = dealt[m][i] - HitsIn(up[c], m, i) /\ dealt[m][i] \in Nat
    BY <1>1, <1>2, Numbers
  <2> QED BY <1>1, <2>1, <2>2, <2>3 DEF Landed
<1>5. \A q \in Players \ {c}, i \in Ids :
        /\ Taking(q, i)' = Taking(q, i) /\ Given(q, i)' = Given(q, i)
        /\ Informed(q, i)' <=> Informed(q, i)
        /\ Announces(q, i)' <=> Announces(q, i)
  BY <1>1, <1>3, <1>4 DEF Taking, Given, Informed, Announces, Core, TypeOK
<1>6. QueuesInv'
  <2> SUFFICES ASSUME NEW m \in Maps, NEW i \in Ids, NEW q \in Players
               PROVE  /\ HitsIn(Coming(q)', m, i) <= Landed(m, i)
                      /\ Death(m, i) \in ToSet(Coming(q)') => MaxHp <= Landed(m, i)
                      /\ Earned(up'[q], m, i, Landed(m, i))
    BY <1>4 DEF QueuesInv
  <2>1. CASE q = c
    <3>1. ToSet(<<>>) = {} /\ Earned(<<>>, m, i, Landed(m, i)) /\ Landed(m, i) \in Nat
      BY Numbers DEF Earned, ToSet
    <3> QED BY <1>1, <1>3, <1>4, <2>1, <3>1
  <2>2. CASE q # c
    BY <1>3, <2>2 DEF QueuesInv, FightInv
  <2> QED BY <2>1, <2>2
<1>7. \A q \in online' : q \in online /\ q \in Players \ {c}
  BY <1>1 DEF Core, TypeOK
<1>8. ScreensInv'
  BY <1>1, <1>5, <1>7 DEF ScreensInv, FightInv
<1>9. SharedInv'
  BY <1>1, <1>3, <1>5, <1>7 DEF SharedInv, FightInv
<1> QED BY <1>6, <1>8, <1>9 DEF FightInv

(* p hits i: the hit counts where it was dealt, and is on its way.         *)
LEMMA HitMoves ==
  ASSUME Core, NEW p \in Players, NEW i \in Ids, Hit(p, i)
  PROVE  LET e == Event("HIT", at[p], i, Nobody)
         IN /\ p \in online /\ enemies[p].hp[i] > 0 /\ e \in Events
            /\ up'[p] = Append(up[p], e)
            /\ ToSet(up'[p]) = ToSet(up[p]) \cup {e}
            /\ \A q \in Players \ {p} : up'[q] = up[q] /\ enemies'[q] = enemies[q]
            /\ \A j \in Ids : enemies'[p].hp[j] = IF j = i THEN enemies[p].hp[j] - 1
                                                  ELSE enemies[p].hp[j]
            /\ enemies'[p].dead = enemies[p].dead
            /\ enemies'[p].listed = enemies[p].listed
            /\ enemies'[p].tracked = enemies[p].tracked
            /\ \A m \in Maps, j \in Ids :
                 /\ Landed(m, j)' = Landed(m, j)
                 /\ HitsIn(up'[p], m, j)
                      = HitsIn(up[p], m, j) + IF m = at[p] /\ j = i THEN 1 ELSE 0
            /\ UNCHANGED <<online, at, down>>
<1> DEFINE e == Event("HIT", at[p], i, Nobody)
<1>1. /\ Says(p, <<e>>) /\ p \in online /\ i \in Standing(enemies[p])
      /\ enemies' = [enemies EXCEPT ![p] = Damage(enemies[p], i)]
      /\ dealt' = [dealt EXCEPT ![at[p]][i] = @ + 1]
      /\ UNCHANGED <<online, at, down>>
  BY DEF Hit
<1>2. /\ at[p] \in Maps /\ enemies[p] \in EnemyRecords /\ up[p] \in Seq(Events)
      /\ enemies \in [Players -> EnemyRecords]
      /\ dealt \in [Maps -> [Ids -> 0 .. MaxHits]]
  BY DEF Core, TypeOK
<1>3. e \in Events
  BY <1>2, EventsAre
<1>4. UpChange(p) /\ up'[p] = Append(up[p], e)
  <2>1. <<e>> \in Seq(Events)
    BY <1>3
  <2>2. SaysMore(p, <<e>>)
    BY <1>1, <2>1, SaysIs DEF Core
  <2> HIDE DEF e
  <2>3. up[p] \o <<e>> = Append(up[p], e)
    BY <1>2, <1>3
  <2> QED BY <2>2, <2>3 DEF SaysMore
<1>5. ToSet(up'[p]) = ToSet(up[p]) \cup {e}
  <2> HIDE DEF e
  <2> QED BY <1>2, <1>3, <1>4, AppendSet
<1>6. enemies[p].hp[i] > 0
  BY <1>1 DEF Standing
<1>7. /\ \A j \in Ids : enemies'[p].hp[j] = IF j = i THEN enemies[p].hp[j] - 1
                                            ELSE enemies[p].hp[j]
      /\ enemies'[p].dead = enemies[p].dead
      /\ enemies'[p].listed = enemies[p].listed
      /\ enemies'[p].tracked = enemies[p].tracked
      /\ \A q \in Players \ {p} : enemies'[q] = enemies[q]
  <2>1. enemies'[p] = Damage(enemies[p], i)
    BY <1>1, <1>2
  <2> QED BY <1>1, <1>2, <1>6, <2>1 DEF Damage, EnemyRecords
<1>8. ASSUME NEW m \in Maps, NEW j \in Ids
      PROVE  /\ Landed(m, j)' = Landed(m, j)
             /\ HitsIn(up'[p], m, j)
                  = HitsIn(up[p], m, j) + IF m = at[p] /\ j = i THEN 1 ELSE 0
  <2>1. /\ Unlanded(m, j) \in Nat /\ HitsIn(up[p], m, j) \in Nat
        /\ Unlanded(m, j)' = Unlanded(m, j) - HitsIn(up[p], m, j) + HitsIn(up'[p], m, j)
    BY <1>4, UnlandedChange DEF Core
  <2>2. HitsIn(up'[p], m, j) = HitsIn(up[p], m, j) + IF m = at[p] /\ j = i THEN 1 ELSE 0
    <3>1. e = Event("HIT", m, j, Nobody) <=> m = at[p] /\ j = i
      BY DEF Event
    <3> HIDE DEF e
    <3> QED BY <1>2, <1>3, <1>4, <3>1, HitsAre
  <2>3. dealt'[m][j] = dealt[m][j] + IF m = at[p] /\ j = i THEN 1 ELSE 0
    BY <1>1, <1>2
  <2>4. dealt[m][j] \in Nat
    BY Numbers
  <2> QED BY <2>1, <2>2, <2>3, <2>4 DEF Landed
<1>9. \A q \in Players \ {p} : up'[q] = up[q]
  BY <1>4 DEF UpChange
<1> QED BY <1>1, <1>3, <1>4, <1>5, <1>6, <1>7, <1>8, <1>9

LEMMA HitFights ==
  ASSUME Core, FightInv, NEW p \in Players, NEW i \in Ids, Hit(p, i)
  PROVE  FightInv'
<1> DEFINE e == Event("HIT", at[p], i, Nobody)
<1>1. /\ p \in online /\ enemies[p].hp[i] > 0 /\ e \in Events
      /\ up'[p] = Append(up[p], e)
      /\ ToSet(up'[p]) = ToSet(up[p]) \cup {e}
      /\ \A q \in Players \ {p} : up'[q] = up[q] /\ enemies'[q] = enemies[q]
      /\ \A j \in Ids : enemies'[p].hp[j] = IF j = i THEN enemies[p].hp[j] - 1
                                            ELSE enemies[p].hp[j]
      /\ enemies'[p].dead = enemies[p].dead
      /\ enemies'[p].listed = enemies[p].listed
      /\ enemies'[p].tracked = enemies[p].tracked
      /\ \A m \in Maps, j \in Ids :
           /\ Landed(m, j)' = Landed(m, j)
           /\ HitsIn(up'[p], m, j)
                = HitsIn(up[p], m, j) + IF m = at[p] /\ j = i THEN 1 ELSE 0
      /\ UNCHANGED <<online, at, down>>
  BY HitMoves
<1>2. \A m, j : e # Death(m, j)
  BY DEF Event, Death
<1> HIDE DEF e
<1>3. \A c \in Players : Coming(c)' = Coming(c)
  BY <1>1 DEF Coming
<1>4. \A q \in Players : \A m, j : Death(m, j) \in ToSet(up'[q]) <=> Death(m, j) \in ToSet(up[q])
  <2> SUFFICES ASSUME NEW q \in Players, NEW m, NEW j
               PROVE  Death(m, j) \in ToSet(up'[q]) <=> Death(m, j) \in ToSet(up[q])
    OBVIOUS
  <2>1. Death(m, j) # e
    BY <1>2
  <2>2. q # p => up'[q] = up[q]
    BY <1>1
  <2>3. ToSet(up'[p]) = ToSet(up[p]) \cup {e}
    BY <1>1
  <2> QED BY <2>1, <2>2, <2>3
<1>5. /\ \A q \in Players, j \in Ids : q # p \/ j # i =>
           Taking(q, j)' = Taking(q, j) /\ Given(q, j)' = Given(q, j)
      /\ Taking(p, i)' = Taking(p, i) + 1 /\ Given(p, i)' = Given(p, i) + 1
  <2>1. \A q \in Players, j \in Ids :
          /\ at[q] \in Maps /\ enemies[q].hp[j] \in 0 .. MaxHp /\ MaxHp \in Nat
          /\ HitsIn(Coming(q), at[q], j) \in Nat /\ HitsIn(up[q], at[q], j) \in Nat
          /\ Landed(at[q], j) \in Nat
    <3> SUFFICES ASSUME NEW q \in Players, NEW j \in Ids
                 PROVE  /\ at[q] \in Maps /\ enemies[q].hp[j] \in 0 .. MaxHp /\ MaxHp \in Nat
                        /\ HitsIn(Coming(q), at[q], j) \in Nat
                        /\ HitsIn(up[q], at[q], j) \in Nat
                        /\ Landed(at[q], j) \in Nat
      OBVIOUS
    <3>1. at[q] \in Maps
      BY DEF Core, TypeOK
    <3> QED BY <3>1, Numbers
  <2>2. ASSUME NEW q \in Players, NEW j \in Ids, q # p \/ j # i
        PROVE  Taking(q, j)' = Taking(q, j) /\ Given(q, j)' = Given(q, j)
    <3>1. /\ enemies'[q].hp[j] = enemies[q].hp[j] /\ Coming(q)' = Coming(q)
          /\ at'[q] = at[q] /\ Landed(at[q], j)' = Landed(at[q], j)
      BY <1>1, <1>3, <2>1, <2>2
    <3>2. HitsIn(up'[q], at[q], j) = HitsIn(up[q], at[q], j)
      <4>1. CASE q # p
        BY <1>1, <4>1
      <4>2. CASE q = p
        <5>1. HitsIn(up'[p], at[p], j) = HitsIn(up[p], at[p], j)
                + IF at[p] = at[p] /\ j = i THEN 1 ELSE 0
          BY <1>1, <2>1
        <5>2. HitsIn(up[p], at[p], j) \in Nat /\ j # i
          BY <2>1, <2>2, <4>2
        <5> QED BY <4>2, <5>1, <5>2
      <4> QED BY <4>1, <4>2
    <3> QED BY <3>1, <3>2 DEF Taking, Given
  <2>3. Taking(p, i)' = Taking(p, i) + 1 /\ Given(p, i)' = Given(p, i) + 1
    <3>1. /\ enemies'[p].hp[i] = enemies[p].hp[i] - 1 /\ Coming(p)' = Coming(p)
          /\ at'[p] = at[p] /\ Landed(at[p], i)' = Landed(at[p], i)
          /\ HitsIn(up'[p], at[p], i) = HitsIn(up[p], at[p], i) + 1
      BY <1>1, <1>3, <2>1
    <3>2. /\ enemies[p].hp[i] \in 0 .. MaxHp /\ MaxHp \in Nat
          /\ HitsIn(Coming(p), at[p], i) \in Nat /\ HitsIn(up[p], at[p], i) \in Nat
          /\ Landed(at[p], i) \in Nat
      BY <2>1
    <3> QED BY <3>1, <3>2 DEF Taking, Given
  <2> QED BY <2>2, <2>3
<1>6. \A c \in Players, j \in Ids :
        /\ Informed(c, j)' <=> Informed(c, j)
        /\ Announces(c, j)' <=> Announces(c, j)
  BY <1>1, <1>3, <1>4 DEF Informed, Announces
<1>7. QueuesInv'
  <2> SUFFICES ASSUME NEW m \in Maps, NEW j \in Ids, NEW q \in Players
               PROVE  Earned(up'[q], m, j, Landed(m, j))
    BY <1>1, <1>3 DEF QueuesInv, FightInv
  <2>1. Earned(up[q], m, j, Landed(m, j)) /\ Landed(m, j) \in Nat /\ up[q] \in Seq(Events)
    BY Numbers DEF QueuesInv, FightInv
  <2>2. CASE q = p
    <3>1. <<e>> \in Seq(Events) /\ \A l \in 1 .. Len(<<e>>) : <<e>>[l] # Death(m, j)
      BY <1>1, <1>2, OneEvent
    <3>2. up'[p] = up[p] \o <<e>>
      BY <1>1, <2>1, <2>2
    <3> DEFINE t == <<e>>
    <3> HIDE DEF t
    <3>3. Earned(up[p] \o t, m, j, Landed(m, j))
      BY <2>1, <2>2, <3>1, EarnedConcat DEF t
    <3> QED BY <2>2, <3>2, <3>3 DEF t
  <2>3. CASE q # p
    BY <1>1, <2>1, <2>3
  <2> QED BY <2>2, <2>3
<1>8. i \notin enemies[p].dead
  BY <1>1 DEF FightInv, ScreensInv
<1>9. \A q \in Players, j \in Ids :
        Taking(q, j) \in Int /\ Given(q, j) \in Int /\ (q # p \/ j # i => enemies'[q].hp[j] = enemies[q].hp[j])
  <2> SUFFICES ASSUME NEW q \in Players, NEW j \in Ids
               PROVE  /\ Taking(q, j) \in Int /\ Given(q, j) \in Int
                      /\ q # p \/ j # i => enemies'[q].hp[j] = enemies[q].hp[j]
    OBVIOUS
  <2>1. at[q] \in Maps
    BY DEF Core, TypeOK
  <2>2. /\ enemies[q].hp[j] \in 0 .. MaxHp /\ MaxHp \in Nat
        /\ HitsIn(Coming(q), at[q], j) \in Nat /\ HitsIn(up[q], at[q], j) \in Nat
        /\ Landed(at[q], j) \in Nat
    BY <2>1, Numbers
  <2>3. Taking(q, j) \in Int /\ Given(q, j) \in Int
    BY <2>2 DEF Taking, Given
  <2>4. q # p \/ j # i => enemies'[q].hp[j] = enemies[q].hp[j]
    BY <1>1
  <2> QED BY <2>3, <2>4
<1>10. ScreensInv'
  <2> SUFFICES ASSUME NEW q \in online
               PROVE  /\ enemies'[q].tracked = at[q]
                      /\ \A j \in Ids :
                           /\ j \in enemies'[q].dead =>
                                enemies'[q].hp[j] = 0 /\ MaxHp <= Given(q, j)'
                           /\ j \notin enemies'[q].dead => Taking(q, j)' <= Given(q, j)'
    BY <1>1 DEF ScreensInv
  <2>1. q \in Players /\ enemies[q].tracked = at[q] /\ enemies'[q].dead = enemies[q].dead
        /\ enemies'[q].tracked = enemies[q].tracked
    BY <1>1 DEF FightInv, ScreensInv, Core, TypeOK
  <2>2. ASSUME NEW j \in Ids
        PROVE  /\ j \in enemies'[q].dead =>
                    enemies'[q].hp[j] = 0 /\ MaxHp <= Given(q, j)'
               /\ j \notin enemies'[q].dead => Taking(q, j)' <= Given(q, j)'
    <3>1. /\ j \in enemies[q].dead => enemies[q].hp[j] = 0 /\ MaxHp <= Given(q, j)
          /\ j \notin enemies[q].dead => Taking(q, j) <= Given(q, j)
      BY DEF FightInv, ScreensInv
    <3>2. CASE q = p /\ j = i
      BY <1>5, <1>8, <1>9, <2>1, <3>1, <3>2
    <3>3. CASE q # p \/ j # i
      BY <1>5, <1>9, <2>1, <3>1, <3>3
    <3> QED BY <3>2, <3>3
  <2> QED BY <2>1, <2>2
<1>11. SharedInv'
  <2> SUFFICES ASSUME NEW q \in Stayers \cap online, NEW j \in Ids
               PROVE  /\ enemies'[q].hp[j] > 0 => Taking(q, j)' = Given(q, j)'
                      /\ j \in enemies'[q].listed \cup enemies'[q].dead
                      /\ Death(at[q], j) \in ToSet(up'[q]) => j \in enemies'[q].dead
                      /\ \A w \in Stayers \cap online :
                           at[w] = at[q] /\ Informed(q, j) => Informed(w, j) \/ Announces(q, j)
    BY <1>1, <1>6, Sorts DEF SharedInv
  <2>1. q \in Players
    BY Sorts
  <2>2. /\ enemies[q].hp[j] > 0 => Taking(q, j) = Given(q, j)
        /\ j \in enemies[q].listed \cup enemies[q].dead
        /\ Death(at[q], j) \in ToSet(up[q]) => j \in enemies[q].dead
        /\ \A w \in Stayers \cap online :
             at[w] = at[q] /\ Informed(q, j) => Informed(w, j) \/ Announces(q, j)
    BY DEF SharedInv, FightInv
  <2>3. enemies'[q].listed = enemies[q].listed /\ enemies'[q].dead = enemies[q].dead
    BY <1>1, <2>1
  <2>4. enemies'[q].hp[j] > 0 => Taking(q, j)' = Given(q, j)'
    <3>1. CASE q = p /\ j = i
      BY <1>1, <1>5, <1>9, <2>2, <3>1
    <3>2. CASE q # p \/ j # i
      BY <1>5, <1>9, <2>1, <2>2, <3>2
    <3> QED BY <3>1, <3>2
  <2> QED BY <1>4, <2>1, <2>2, <2>3, <2>4
<1> QED BY <1>7, <1>10, <1>11 DEF FightInv

(* The host takes an event of p's: if it is a hit, it has landed.          *)
LEMMA AdjudicateMoves ==
  ASSUME Core, NEW p \in Players, Adjudicate(p)
  PROVE  LET e == Head(up[p])
             receivers == Receivers(p, e)
         IN /\ up[p] # <<>> /\ e \in Events /\ up'[p] = Tail(up[p])
            /\ ToSet(up[p]) = ToSet(up'[p]) \cup {e}
            /\ \A q \in Players \ {p} : up'[q] = up[q]
            /\ \A m \in Maps, i \in Ids :
                 LET hit == IF e = Event("HIT", m, i, Nobody) THEN 1 ELSE 0
                 IN /\ Landed(m, i)' = Landed(m, i) + hit
                    /\ HitsIn(up'[p], m, i) = HitsIn(up[p], m, i) - hit
                    /\ \A q \in Players :
                         HitsIn(Coming(q), m, i)' = HitsIn(Coming(q), m, i)
                                                      + IF q \in receivers THEN hit ELSE 0
            /\ \A q \in Players :
                 ToSet(Coming(q))' = ToSet(Coming(q))
                                       \cup IF q \in receivers THEN {e} ELSE {}
            /\ UNCHANGED <<online, at, enemies>>
<1> DEFINE e == Head(up[p])
           receivers == Receivers(p, e)
           hit(m, i) == IF e = Event("HIT", m, i, Nobody) THEN 1 ELSE 0
<1>1. /\ up[p] # <<>> /\ e \in Events /\ UpChange(p) /\ up'[p] = Tail(up[p])
      /\ UNCHANGED <<online, at, enemies, dealt>>
  BY AdjudicateIs DEF games, Core
<1>2. \A q \in Players :
        /\ Coming(q) \in Seq(Events)
        /\ Coming(q)' = IF q \in receivers THEN Append(Coming(q), e) ELSE Coming(q)
  BY ComingAfter DEF Core
<1>3. up[p] \in Seq(Events)
  BY DEF Core, TypeOK
<1>4. ToSet(up[p]) = ToSet(up'[p]) \cup {e}
  BY <1>1, <1>3, HeadTailSet
<1>5. \A q \in Players \ {p} : up'[q] = up[q]
  BY <1>1 DEF UpChange
<1> HIDE DEF receivers
<1>6. ASSUME NEW m \in Maps, NEW i \in Ids
      PROVE  /\ Landed(m, i)' = Landed(m, i) + hit(m, i)
             /\ HitsIn(up'[p], m, i) = HitsIn(up[p], m, i) - hit(m, i)
  <2>1. /\ Unlanded(m, i) \in Nat /\ Unlanded(m, i)' \in Nat
        /\ HitsIn(up[p], m, i) \in Nat /\ HitsIn(up'[p], m, i) \in Nat
        /\ Unlanded(m, i)' = Unlanded(m, i) - HitsIn(up[p], m, i) + HitsIn(up'[p], m, i)
    BY <1>1, UnlandedChange DEF Core
  <2>2. HitsIn(up[p], m, i) = HitsIn(Tail(up[p]), m, i) + hit(m, i)
    BY <1>1, <1>3, HitsAre
  <2>3. hit(m, i) \in Nat
    OBVIOUS
  <2> HIDE DEF hit, e
  <2>4. dealt'[m][i] = dealt[m][i] /\ dealt[m][i] \in Nat
    BY <1>1, Numbers
  <2>5. HitsIn(up'[p], m, i) = HitsIn(up[p], m, i) - hit(m, i)
    BY <1>1, <2>1, <2>2, <2>3
  <2>6. Landed(m, i) = dealt[m][i] - Unlanded(m, i)
        /\ Landed(m, i)' = dealt'[m][i] - Unlanded(m, i)'
    BY DEF Landed
  <2> QED BY <2>1, <2>3, <2>4, <2>5, <2>6
<1> HIDE DEF e
<1>7. ASSUME NEW m \in Maps, NEW i \in Ids, NEW q \in Players
      PROVE  HitsIn(Coming(q)', m, i) = HitsIn(Coming(q), m, i)
                                          + IF q \in receivers THEN hit(m, i) ELSE 0
  <2> DEFINE c == Coming(q)
  <2>1. c \in Seq(Events)
    BY <1>2
  <2> HIDE DEF c
  <2>2. HitsIn(Append(c, e), m, i) = HitsIn(c, m, i) + hit(m, i)
        /\ HitsIn(c, m, i) \in Nat
    BY <1>1, <2>1, HitsAre
  <2>3. CASE q \in receivers
    BY <1>2, <2>2, <2>3 DEF c
  <2>4. CASE q \notin receivers
    BY <1>2, <2>2, <2>4 DEF c
  <2> QED BY <2>3, <2>4
<1>8. ASSUME NEW q \in Players
      PROVE  ToSet(Coming(q)') = ToSet(Coming(q))
                                   \cup IF q \in receivers THEN {e} ELSE {}
  <2>1. ToSet(Append(Coming(q), e)) = ToSet(Coming(q)) \cup {e}
    BY <1>1, <1>2, AppendSet
  <2>2. CASE q \in receivers
    BY <1>2, <2>1, <2>2
  <2>3. CASE q \notin receivers
    BY <1>2, <2>3
  <2> QED BY <2>2, <2>3
<1> QED BY <1>1, <1>4, <1>5, <1>6, <1>7, <1>8 DEF e, receivers

(* What concerns a map is passed on to all who stay in it.                 *)
LEMMA PassedOn ==
  ASSUME Core, Routes, NEW p \in Players, NEW e, NEW q \in (Stayers \cap online) \ {p},
         at[q] = e.map
  PROVE  q \in Receivers(p, e)
<1>1. q \in Players /\ at[q] \in Maps /\ Nobody \notin Maps
  BY Sorts DEF Core, TypeOK
<1>2. KnownAt(q) = at[q]
  BY DEF Routes, KnownAt
<1> QED BY <1>1, <1>2 DEF Receivers, WantedBy

LEMMA AdjudicateFights ==
  ASSUME Core, Routes, FightInv, NEW p \in Players, Adjudicate(p)
  PROVE  FightInv'
<1> DEFINE e == Head(up[p])
           receivers == Receivers(p, e)
           hit(m, i) == IF e = Event("HIT", m, i, Nobody) THEN 1 ELSE 0
<1>1. /\ up[p] # <<>> /\ e \in Events /\ up'[p] = Tail(up[p])
      /\ ToSet(up[p]) = ToSet(up'[p]) \cup {e}
      /\ \A q \in Players \ {p} : up'[q] = up[q]
      /\ UNCHANGED <<online, at, enemies>>
      /\ \A q \in Players :
           ToSet(Coming(q))' = ToSet(Coming(q)) \cup IF q \in receivers THEN {e} ELSE {}
  BY AdjudicateMoves
<1>2. \A m \in Maps, i \in Ids :
        /\ Landed(m, i)' = Landed(m, i) + hit(m, i)
        /\ HitsIn(up'[p], m, i) = HitsIn(up[p], m, i) - hit(m, i)
        /\ \A q \in Players :
             HitsIn(Coming(q), m, i)' = HitsIn(Coming(q), m, i)
                                          + IF q \in receivers THEN hit(m, i) ELSE 0
  BY AdjudicateMoves
<1>3. receivers \subseteq online \ {p}
  BY ReceiversAre DEF Core
<1>4. \A q \in (Stayers \cap online) \ {p} : at[q] = e.map => q \in receivers
  BY PassedOn
<1>5. \A m, i : hit(m, i) \in {0, 1} /\ (hit(m, i) = 1 => e.map = m)
  BY DEF Event
<1>6. \A m, i : e = Death(m, i) => e.map = m /\ hit(m, i) = 0
  BY DEF Event, Death
<1>7. up[p] \in Seq(Events)
  BY DEF Core, TypeOK
<1> HIDE DEF receivers
<1>8. \A m \in Maps, i \in Ids :
        Earned(Tail(up[p]), m, i, Landed(m, i) + hit(m, i))
        /\ (e = Death(m, i) => MaxHp <= Landed(m, i))
  <2> SUFFICES ASSUME NEW m \in Maps, NEW i \in Ids
               PROVE  /\ Earned(Tail(up[p]), m, i, Landed(m, i) + hit(m, i))
                      /\ e = Death(m, i) => MaxHp <= Landed(m, i)
    OBVIOUS
  <2>1. Landed(m, i) \in Nat
    BY Numbers
  <2>2. Earned(up[p], m, i, Landed(m, i))
    BY DEF FightInv, QueuesInv
  <2>3. /\ Earned(Tail(up[p]), m, i, Landed(m, i) +
                   IF Head(up[p]) = Event("HIT", m, i, Nobody) THEN 1 ELSE 0)
        /\ Head(up[p]) = Death(m, i) => MaxHp <= Landed(m, i)
    BY <1>1, <1>7, <2>1, <2>2, EarnedTail
  <2> QED BY <2>3
<1> HIDE DEF e, hit
<1>9. QueuesInv'
  <2> SUFFICES ASSUME NEW m \in Maps, NEW i \in Ids, NEW q \in Players
               PROVE  /\ HitsIn(Coming(q), m, i)' <= Landed(m, i)'
                      /\ Death(m, i) \in ToSet(Coming(q))' => MaxHp <= Landed(m, i)'
                      /\ Earned(up'[q], m, i, Landed(m, i)')
    BY DEF QueuesInv
  <2>1. /\ HitsIn(Coming(q), m, i) <= Landed(m, i)
        /\ Death(m, i) \in ToSet(Coming(q)) => MaxHp <= Landed(m, i)
        /\ Earned(up[q], m, i, Landed(m, i))
    BY DEF FightInv, QueuesInv
  <2>2. /\ Landed(m, i) \in Nat /\ HitsIn(Coming(q), m, i) \in Nat /\ MaxHp \in Nat
        /\ up[q] \in Seq(Events) /\ hit(m, i) \in Nat
        /\ Landed(m, i)' = Landed(m, i) + hit(m, i)
    <3>1. hit(m, i) \in Nat
      BY <1>5
    <3>2. Landed(m, i)' = Landed(m, i) + hit(m, i)
      BY <1>2
    <3>3. /\ Landed(m, i) \in Nat /\ HitsIn(Coming(q), m, i) \in Nat
          /\ MaxHp \in Nat /\ up[q] \in Seq(Events)
      BY Numbers
    <3> QED BY <3>1, <3>2, <3>3
  <2>3. HitsIn(Coming(q), m, i)' <= Landed(m, i)'
    <3>1. HitsIn(Coming(q), m, i)' = HitsIn(Coming(q), m, i)
                                       + IF q \in receivers THEN hit(m, i) ELSE 0
      BY <1>2
    <3> QED BY <2>1, <2>2, <3>1
  <2>4. Death(m, i) \in ToSet(Coming(q))' => MaxHp <= Landed(m, i)'
    <3>1. Death(m, i) \in ToSet(Coming(q))' => Death(m, i) \in ToSet(Coming(q)) \/ e = Death(m, i)
      BY <1>1
    <3>2. e = Death(m, i) => MaxHp <= Landed(m, i)
      BY <1>8
    <3> QED BY <2>1, <2>2, <3>1, <3>2
  <2>5. Earned(up'[q], m, i, Landed(m, i)')
    <3>1. CASE q = p
      BY <1>1, <1>8, <2>2, <3>1
    <3>2. CASE q # p
      <4>1. Earned(up[q], m, i, Landed(m, i) + hit(m, i))
        BY <2>1, <2>2, EarnedMore
      <4> QED BY <1>1, <2>2, <3>2, <4>1
    <3> QED BY <3>1, <3>2
  <2> QED BY <2>3, <2>4, <2>5
<1>10. ASSUME NEW q \in Players, NEW i \in Ids
       PROVE  LET n == hit(at[q], i)
              IN /\ n \in {0, 1} /\ Taking(q, i) \in Int /\ Given(q, i) \in Int
                 /\ Taking(q, i)' = Taking(q, i) + IF q \in receivers THEN n ELSE 0
                 /\ Given(q, i)' = Given(q, i) + IF q = p THEN 0 ELSE n
  <2> DEFINE n == hit(at[q], i)
  <2>1. at[q] \in Maps
    BY DEF Core, TypeOK
  <2>2. /\ enemies[q].hp[i] \in 0 .. MaxHp /\ MaxHp \in Nat
        /\ HitsIn(Coming(q), at[q], i) \in Nat /\ HitsIn(up[q], at[q], i) \in Nat
        /\ Landed(at[q], i) \in Nat
    BY <2>1, Numbers
  <2>3. /\ Landed(at[q], i)' = Landed(at[q], i) + n
        /\ HitsIn(up'[p], at[q], i) = HitsIn(up[p], at[q], i) - n
        /\ HitsIn(Coming(q), at[q], i)' = HitsIn(Coming(q), at[q], i)
                                            + IF q \in receivers THEN n ELSE 0
    BY <1>1, <1>2, <2>1
  <2>4. n \in {0, 1}
    BY <1>5
  <2> HIDE DEF n
  <2>5. Taking(q, i)' = Taking(q, i) + IF q \in receivers THEN n ELSE 0
    <3>1. Taking(q, i)' = MaxHp - enemies[q].hp[i] + HitsIn(Coming(q), at[q], i)'
      BY <1>1 DEF Taking
    <3>2. Taking(q, i) = MaxHp - enemies[q].hp[i] + HitsIn(Coming(q), at[q], i)
      BY DEF Taking
    <3> QED BY <2>2, <2>3, <2>4, <3>1, <3>2
  <2>6. Given(q, i)' = Given(q, i) + IF q = p THEN 0 ELSE n
    <3>1. CASE q = p
      BY <1>1, <2>2, <2>3, <2>4, <3>1 DEF Given
    <3>2. CASE q # p
      BY <1>1, <2>2, <2>3, <2>4, <3>2 DEF Given
    <3> QED BY <3>1, <3>2
  <2>7. Taking(q, i) \in Int /\ Given(q, i) \in Int
    BY <2>2 DEF Taking, Given
  <2> QED BY <2>4, <2>5, <2>6, <2>7 DEF n
<1>11. ScreensInv'
  <2> SUFFICES ASSUME NEW q \in online, NEW i \in Ids
               PROVE  /\ i \in enemies[q].dead => enemies[q].hp[i] = 0 /\ MaxHp <= Given(q, i)'
                      /\ i \notin enemies[q].dead => Taking(q, i)' <= Given(q, i)'
    BY <1>1 DEF ScreensInv, FightInv
  <2>1. /\ i \in enemies[q].dead => enemies[q].hp[i] = 0 /\ MaxHp <= Given(q, i)
        /\ i \notin enemies[q].dead => Taking(q, i) <= Given(q, i)
        /\ q \in Players /\ MaxHp \in Nat
    BY EnemiesAssumption DEF ScreensInv, FightInv, Core, TypeOK
  <2> DEFINE n == hit(at[q], i)
             a == Taking(q, i)
             b == Given(q, i)
  <2>2. /\ n \in {0, 1} /\ a \in Int /\ b \in Int
        /\ Taking(q, i)' = a + IF q \in receivers THEN n ELSE 0
        /\ Given(q, i)' = b + IF q = p THEN 0 ELSE n
    BY <1>10, <2>1
  <2>3. q \in receivers => q # p
    BY <1>3
  <2> QED BY <2>1, <2>2, <2>3
<1>12. SharedInv'
  <2> SUFFICES ASSUME NEW q \in Stayers \cap online, NEW i \in Ids
               PROVE  /\ enemies[q].hp[i] > 0 => Taking(q, i)' = Given(q, i)'
                      /\ i \in enemies[q].listed \cup enemies[q].dead
                      /\ Death(at[q], i) \in ToSet(up'[q]) => i \in enemies[q].dead
                      /\ \A w \in Stayers \cap online :
                           at[w] = at[q] /\ Informed(q, i)' => Informed(w, i)' \/ Announces(q, i)'
    BY <1>1 DEF SharedInv
  <2>1. /\ enemies[q].hp[i] > 0 => Taking(q, i) = Given(q, i)
        /\ i \in enemies[q].listed \cup enemies[q].dead
        /\ Death(at[q], i) \in ToSet(up[q]) => i \in enemies[q].dead
        /\ \A w \in Stayers \cap online :
             at[w] = at[q] /\ Informed(q, i) => Informed(w, i) \/ Announces(q, i)
    BY DEF SharedInv, FightInv
  <2>2. q \in Players
    BY Sorts
  <2>3. enemies[q].hp[i] > 0 => Taking(q, i)' = Given(q, i)'
    <3> DEFINE n == hit(at[q], i)
               a == Taking(q, i)
               b == Given(q, i)
    <3>1. /\ n \in {0, 1} /\ a \in Int /\ b \in Int
          /\ Taking(q, i)' = a + IF q \in receivers THEN n ELSE 0
          /\ Given(q, i)' = b + IF q = p THEN 0 ELSE n
      BY <1>10, <2>2
    <3>2. (q \in receivers => q # p) /\ (q # p /\ n = 1 => q \in receivers)
      BY <1>3, <1>4, <1>5
    <3> QED BY <2>1, <3>1, <3>2
  <2>4. ToSet(up'[q]) \subseteq ToSet(up[q])
    BY <1>1, <2>2
  <2>5. ASSUME NEW w \in Stayers \cap online, at[w] = at[q], Informed(q, i)'
        PROVE  Informed(w, i)' \/ Announces(q, i)'
    <3> DEFINE d == Death(at[q], i)
    <3>1. w \in Players
      BY Sorts
    <3>2. \A c \in Players : at'[c] = at[c] /\ enemies'[c] = enemies[c]
                             /\ (Informed(c, i) => Informed(c, i)')
      BY <1>1 DEF Informed
    <3>3. CASE e = d
      <4>1. CASE w # p
        <5>1. w \in receivers
          BY <1>4, <1>6, <2>5, <3>3, <4>1
        <5>2. d \in ToSet(Coming(w))'
          BY <1>1, <3>1, <3>3, <5>1
        <5> QED BY <2>5, <3>1, <3>2, <5>2 DEF Informed
      <4>2. CASE w = p
        <5>1. Death(at[w], i) \in ToSet(up[w])
          BY <1>1, <2>5, <3>3, <4>2
        <5>2. i \in enemies[w].dead
          BY <5>1 DEF SharedInv, FightInv
        <5> QED BY <3>1, <3>2, <5>2 DEF Informed
      <4> QED BY <4>1, <4>2
    <3>4. CASE e # d
      <4>1. Informed(q, i)
        BY <1>1, <2>2, <2>5, <3>4 DEF Informed
      <4>2. Informed(w, i) \/ Announces(q, i)
        BY <2>1, <2>5, <4>1
      <4>3. Announces(q, i) => Announces(q, i)'
        <5>1. d \in ToSet(up[q]) => d \in ToSet(up'[q])
          BY <1>1, <2>2, <3>4
        <5> QED BY <2>2, <3>2, <5>1 DEF Announces
      <4> QED BY <3>1, <3>2, <4>2, <4>3
    <3> QED BY <3>3, <3>4
  <2> QED BY <2>1, <2>3, <2>4, <2>5
<1> QED BY <1>9, <1>11, <1>12 DEF FightInv

LEMMA OneFight ==
  ASSUME NEW x \in EnemyRecords, NEW e \in Events, NEW m \in Maps, NEW i \in Ids
  PROVE  LET y == ApplyFight(x, m, e)
         IN /\ y.listed = x.listed /\ y.tracked = x.tracked
            /\ i \in y.dead <=> i \in x.dead \/ e = Death(m, i)
            /\ y.hp[i] = IF e = Event("HIT", m, i, Nobody) /\ x.hp[i] > 0
                           THEN x.hp[i] - 1 ELSE x.hp[i]
<1> DEFINE y == ApplyFight(x, m, e)
<1>1. x.hp[i] \in 0 .. MaxHp /\ x.hp \in [Ids -> 0 .. MaxHp] /\ x.dead \in SUBSET Ids
      /\ MaxHp \in Nat
  BY EnemiesAssumption DEF EnemyRecords
<1>2. /\ e.kind \in {"HIT", "DEAD"} => e = Event(e.kind, e.map, e.a, Nobody) /\ e.a \in Ids
      /\ e = Event("HIT", m, i, Nobody) => e.kind = "HIT" /\ e.map = m /\ e.a = i
      /\ e = Death(m, i) => e.kind = "DEAD" /\ e.map = m /\ e.a = i
  BY EventData DEF Event, Death
<1>3. CASE e.kind = "HIT" /\ e.map = m
  <2>1. y = Damage(x, e.a)
    BY <1>3 DEF ApplyFight
  <2>2. /\ y.listed = x.listed /\ y.tracked = x.tracked /\ y.dead = x.dead
        /\ y.hp[i] = IF i = e.a /\ x.hp[i] > 0 THEN x.hp[i] - 1 ELSE x.hp[i]
    BY <1>1, <1>2, <1>3, <2>1 DEF Damage, EnemyRecords
  <2>3. e = Event("HIT", m, i, Nobody) <=> i = e.a
    BY <1>2, <1>3 DEF Event
  <2> QED BY <1>2, <1>3, <2>2, <2>3
<1>4. CASE e.kind = "DEAD" /\ e.map = m
  <2>1. y = [x EXCEPT !.dead = @ \cup {e.a}]
    BY <1>4 DEF ApplyFight
  <2>2. /\ y.listed = x.listed /\ y.tracked = x.tracked /\ y.hp = x.hp
        /\ y.dead = x.dead \cup {e.a}
    BY <2>1 DEF EnemyRecords
  <2>3. e = Death(m, i) <=> i = e.a
    BY <1>2, <1>4 DEF Event, Death
  <2> QED BY <1>2, <1>4, <2>2, <2>3
<1>5. CASE ~(e.kind \in {"HIT", "DEAD"} /\ e.map = m)
  <2>1. y = x
    BY <1>5 DEF ApplyFight
  <2> QED BY <1>2, <1>5, <2>1
<1> QED BY <1>3, <1>4, <1>5

(* What was seen in the last frame, and where, is not touched by events.   *)
LEMMA TakenLists ==
  ASSUME TypeOK, NEW p \in Players, NEW m, NEW loaded, NEW k, NEW h,
         NEW f, NEW r, NEW c,
         FrameOf(p, m, loaded, k, h, f, r, c)
  PROVE  LET first == Resumed(p, loaded).enemies
             last == h[k].enemies
         IN last.listed = first.listed /\ last.tracked = first.tracked
<1> DEFINE good == {i \in 0 .. k : /\ h[i].enemies.listed = h[0].enemies.listed
                                   /\ h[i].enemies.tracked = h[0].enemies.tracked}
<1>1. /\ m \in Maps /\ k \in Nat /\ k <= Len(down[p])
      /\ h \in [0 .. k -> Games] /\ h[0] = Resumed(p, loaded)
      /\ \A i \in 1 .. k : /\ down[p][i] \in Messages
                           /\ h[i] = ApplyEvent(h[i - 1], p, m, down[p][i])
  BY FrameTrace
<1>2. 0 \in good
  BY <1>1
<1>3. \A i \in 1 .. k : i - 1 \in good => i \in good
  <2> SUFFICES ASSUME NEW i \in 1 .. k, i - 1 \in good PROVE i \in good
    OBVIOUS
  <2> DEFINE x == h[i - 1].enemies
             e == down[p][i].event
  <2>1. i - 1 \in 0 .. k /\ i \in 0 .. k
    BY <1>1
  <2>2. /\ x.listed = h[0].enemies.listed /\ x.tracked = h[0].enemies.tracked
        /\ x \in EnemyRecords
    BY <1>1, <2>1 DEF Games
  <2>3. h[i].enemies = ApplyFight(x, m, e)
    <3>1. h[i] = ApplyEvent(h[i - 1], p, m, down[p][i])
      BY <1>1
    <3> QED BY <3>1 DEF ApplyEvent
  <2> HIDE DEF x, e
  <2>4. ApplyFight(x, m, e).listed = x.listed /\ ApplyFight(x, m, e).tracked = x.tracked
    BY <2>2 DEF ApplyFight, Damage, EnemyRecords
  <2> QED BY <2>1, <2>2, <2>3, <2>4
<1>4. k \in good
  <2> HIDE DEF good
  <2>1. 0 .. k \subseteq good
    BY <1>1, <1>2, <1>3, Counting
  <2> QED BY <1>1, <2>1
<1> QED BY <1>1, <1>4

(* In a frame in map m every hit and death that is about it is applied: no *)
(* hit is taken twice or forgotten, while there is strength left.          *)
LEMMA TakenFight ==
  ASSUME TypeOK, NEW p \in Players, NEW m, NEW loaded, NEW k, NEW h,
         NEW f, NEW r, NEW c,
         FrameOf(p, m, loaded, k, h, f, r, c), NEW n \in Ids
  PROVE  LET first == Resumed(p, loaded).enemies
             last == h[k].enemies
             rest == SubSeq(Coming(p), k + 1, Len(Coming(p)))
             before == MaxHp - first.hp[n] + HitsIn(Coming(p), m, n)
             after == MaxHp - last.hp[n] + HitsIn(rest, m, n)
         IN /\ n \in first.dead => n \in last.dead
            /\ n \in last.dead \/ Death(m, n) \in ToSet(rest)
                 <=> n \in first.dead \/ Death(m, n) \in ToSet(Coming(p))
            /\ after <= before /\ (last.hp[n] > 0 => first.hp[n] > 0 /\ after = before)
<1> DEFINE s == Coming(p)
           rest(i) == SubSeq(s, i + 1, Len(s))
           fought(i) == MaxHp - h[i].enemies.hp[n] + HitsIn(rest(i), m, n)
           knows(i) == n \in h[i].enemies.dead \/ Death(m, n) \in ToSet(rest(i))
           fine(i) == /\ n \in h[0].enemies.dead => n \in h[i].enemies.dead
                      /\ knows(i) <=> knows(0)
                      /\ fought(i) \in Int /\ fought(i) <= fought(0)
                      /\ h[i].enemies.hp[n] > 0 =>
                           h[0].enemies.hp[n] > 0 /\ fought(i) = fought(0)
           good == {i \in 0 .. k : fine(i)}
<1>1. down[p] \in Seq(Messages)
  BY DEF TypeOK
<1>2. /\ m \in Maps /\ k \in Nat /\ k <= Len(down[p])
      /\ h \in [0 .. k -> Games] /\ h[0] = Resumed(p, loaded)
      /\ \A i \in 1 .. k : /\ down[p][i] \in Messages
                           /\ h[i] = ApplyEvent(h[i - 1], p, m, down[p][i])
  BY FrameTrace
<1>3. /\ s \in Seq(Events) /\ Len(s) = Len(down[p])
      /\ \A i \in 1 .. Len(s) : s[i] = down[p][i].event
  BY <1>1, EventsOfIs DEF Coming
<1> HIDE DEF s
<1>4. \A i \in 0 .. k : /\ h[i].enemies \in EnemyRecords
                        /\ h[i].enemies.hp[n] \in 0 .. MaxHp /\ MaxHp \in Nat
                        /\ rest(i) \in Seq(Events) /\ HitsIn(rest(i), m, n) \in Nat
  <2> SUFFICES ASSUME NEW i \in 0 .. k
               PROVE  /\ h[i].enemies \in EnemyRecords
                      /\ h[i].enemies.hp[n] \in 0 .. MaxHp /\ MaxHp \in Nat
                      /\ rest(i) \in Seq(Events) /\ HitsIn(rest(i), m, n) \in Nat
    OBVIOUS
  <2>1. h[i].enemies \in EnemyRecords
    BY <1>2 DEF Games
  <2>2. h[i].enemies.hp[n] \in 0 .. MaxHp /\ MaxHp \in Nat
    BY <2>1, EnemiesAssumption DEF EnemyRecords
  <2>3. rest(i) \in Seq(Events)
    BY <1>2, <1>3
  <2> HIDE DEF rest
  <2>4. HitsIn(rest(i), m, n) \in Nat
    BY <2>3, HitsAre
  <2> QED BY <2>1, <2>2, <2>3, <2>4
<1> HIDE DEF rest
<1>5. 0 \in good
  <2>1. 0 \in 0 .. k
    BY <1>2
  <2>2. fought(0) \in Int
    BY <1>4, <2>1
  <2> HIDE DEF fought, knows
  <2>3. fine(0)
    BY <2>2
  <2> QED BY <2>1, <2>3
<1>6. \A i \in 1 .. k : i - 1 \in good => i \in good
  <2> SUFFICES ASSUME NEW i \in 1 .. k, i - 1 \in good PROVE i \in good
    OBVIOUS
  <2>1. fine(i - 1)
    OBVIOUS
  <2>2. i \in 1 .. Len(s) /\ (i - 1) + 1 = i /\ i - 1 \in 0 .. k /\ i \in 0 .. k
    BY <1>2, <1>3
  <2>3. /\ rest(i - 1) \in Seq(Events) /\ rest(i - 1) # <<>>
        /\ Head(rest(i - 1)) = s[i] /\ Tail(rest(i - 1)) = rest(i)
    BY <1>3, <2>2, SuffixMoves DEF rest
  <2> DEFINE x == h[i - 1].enemies
             y == h[i].enemies
             e == s[i]
             u == rest(i - 1)
             v == rest(i)
             hit == IF e = Event("HIT", m, n, Nobody) THEN 1 ELSE 0
  <2>4. /\ x \in EnemyRecords /\ e \in Events /\ y = ApplyFight(x, m, e)
        /\ x.hp[n] \in 0 .. MaxHp /\ MaxHp \in Nat /\ HitsIn(v, m, n) \in Nat
    <3>1. h[i] = ApplyEvent(h[i - 1], p, m, down[p][i])
      BY <1>2
    <3>2. y = ApplyFight(x, m, e)
      BY <1>3, <2>2, <3>1 DEF ApplyEvent
    <3> QED BY <1>3, <1>4, <2>2, <3>2
  <2>5. HitsIn(u, m, n) = HitsIn(v, m, n) + hit
    <3> HIDE DEF u, v, e
    <3>1. u \in Seq(Events) /\ u # <<>> /\ Head(u) = e /\ Tail(u) = v
      BY <2>3 DEF u, v, e
    <3>2. HitsIn(u, m, n) = HitsIn(Tail(u), m, n)
            + (IF Head(u) = Event("HIT", m, n, Nobody) THEN 1 ELSE 0)
      BY <3>1, HitsAre
    <3> QED BY <3>1, <3>2
  <2>6. ToSet(u) = ToSet(v) \cup {e}
    <3> HIDE DEF u, v, e
    <3>1. u \in Seq(Events) /\ u # <<>> /\ Head(u) = e /\ Tail(u) = v
      BY <2>3 DEF u, v, e
    <3> QED BY <3>1, HeadTailSet
  <2> HIDE DEF x, y, e, u, v
  <2>7. /\ y.listed = x.listed /\ y.tracked = x.tracked
        /\ n \in y.dead <=> n \in x.dead \/ e = Death(m, n)
        /\ y.hp[n] = IF hit = 1 /\ x.hp[n] > 0 THEN x.hp[n] - 1 ELSE x.hp[n]
    BY <1>2, <2>4, OneFight
  <2> HIDE DEF hit
  <2>8. hit \in {0, 1}
    BY DEF hit
  <2>9. knows(i) <=> knows(i - 1)
    BY <2>6, <2>7 DEF x, y, u, v
  <2>10. /\ fought(i) \in Int /\ fought(i - 1) \in Int /\ fought(i) <= fought(i - 1)
         /\ y.hp[n] > 0 => x.hp[n] > 0 /\ fought(i) = fought(i - 1)
    <3>1. fought(i) = MaxHp - y.hp[n] + HitsIn(v, m, n)
          /\ fought(i - 1) = MaxHp - x.hp[n] + HitsIn(u, m, n)
      BY DEF x, y, u, v
    <3> HIDE DEF fought
    <3> QED BY <2>4, <2>5, <2>7, <2>8, <3>1
  <2> HIDE DEF knows, fought
  <2>11. fine(i)
    <3>1. fought(i - 1) <= fought(0)
          /\ (x.hp[n] > 0 => h[0].enemies.hp[n] > 0 /\ fought(i - 1) = fought(0))
      BY <2>1 DEF x
    <3>2. fought(0) \in Int
      BY <1>2, <1>5
    <3>3. /\ fought(i) \in Int /\ fought(i) <= fought(0)
          /\ y.hp[n] > 0 => h[0].enemies.hp[n] > 0 /\ fought(i) = fought(0)
      BY <2>10, <3>1, <3>2
    <3> QED BY <2>1, <2>7, <2>9, <3>3 DEF x, y
  <2> HIDE DEF fine
  <2> QED BY <2>2, <2>11
<1>7. k \in good
  <2> HIDE DEF good
  <2>1. 0 .. k \subseteq good
    BY <1>2, <1>5, <1>6, Counting
  <2> QED BY <1>2, <2>1
<1>8. rest(0) = s
  BY <1>3, WholeSuffix DEF rest
<1>9. fine(k)
  BY <1>7
<1> QED BY <1>2, <1>8, <1>9 DEF s, rest

(* The deaths announced in a frame are those of the enemies missed.        *)
LEMMA FrameDeaths ==
  ASSUME TypeOK, NEW p \in Players, NEW m, NEW loaded, NEW k, NEW h,
         NEW f, NEW r, NEW c,
         FrameOf(p, m, loaded, k, h, f, r, c)
  PROVE  LET says == FrameSays(m, h[k].enemies, r, c)
             gone == Missing(h[k].enemies, m)
         IN /\ says \in Seq(Events) /\ \A j \in 1 .. Len(says) : says[j].kind # "HIT"
            /\ \A x : x.kind = "DEAD" => (x \in ToSet(says) <=> \E i \in gone : x = Death(m, i))
<1> DEFINE deaths == EnemySync(h[k].enemies, m).says
           says == FrameSays(m, h[k].enemies, r, c)
           gone == Missing(h[k].enemies, m)
<1>1. /\ m \in Maps /\ h[k] \in Games /\ says \in Seq(Events)
      /\ \A j \in 1 .. Len(says) : says[j].kind # "HIT"
  <2> HIDE DEF says
  <2>1. /\ m \in Maps /\ h[k] \in Games /\ says \in Seq(Events)
        /\ \A j \in 1 .. Len(says) :
             \/ says[j].kind = "DEAD" /\ says[j].map = m
             \/ says[j].kind = "MODE" /\ p = Host
             \/ says[j].kind = "CARRY" /\ says[j].map = m
    BY FrameIs DEF says
  <2> QED BY <2>1
<1>2. h[k].enemies \in EnemyRecords /\ h[k].carry \in CarryRecords
  BY <1>1 DEF Games
<1>3. /\ AllOf("DEAD", deaths)
      /\ ToSet(deaths) = {Death(m, i) : i \in gone}
  BY <1>1, <1>2, EnemySyncIs DEF Death
<1>4. AllOf("MODE", r.says)
  BY FrameSaysOfRound DEF Announced
<1>5. AllOf("CARRY", c.says)
  <2> DEFINE now == h[k].carry
             shown == f.shown
  <2>1. now \in CarryRecords /\ c \in CarryOutcomes(p, now, m, shown)
    BY <1>2 DEF FrameOf
  <2> HIDE DEF now, shown
  <2> QED BY <1>1, <2>1, CarryOutcomesAre
<1> DEFINE calls == r.says
           moves == c.says
           z == deaths \o calls
<1>6. says = z \o moves
  BY DEF FrameSays
<1> HIDE DEF deaths, says, calls, moves
<1>7. deaths \in Seq(Events) /\ calls \in Seq(Events) /\ moves \in Seq(Events)
  BY <1>3, <1>4, <1>5 DEF AllOf, calls, moves
<1>8. z \in Seq(Events) /\ ToSet(z) = ToSet(deaths) \cup ToSet(calls)
  BY <1>7, ConcatSet
<1> HIDE DEF z
<1>9. ToSet(says) = ToSet(z) \cup ToSet(moves)
  BY <1>6, <1>7, <1>8, ConcatSet
<1>10. \A x : x.kind = "DEAD" => x \notin ToSet(calls) /\ x \notin ToSet(moves)
  BY <1>4, <1>5, <1>7, InSet DEF AllOf, calls, moves
<1> HIDE DEF gone
<1>11. \A x : x.kind = "DEAD" => (x \in ToSet(says) <=> \E i \in gone : x = Death(m, i))
  BY <1>3, <1>8, <1>9, <1>10
<1> QED BY <1>1, <1>11 DEF says, gone

(* A player's enemies after a frame: in the map it was in before, loaded   *)
(* anew or not, those that it has heard to be dead are dead, and those     *)
(* that are not there any more; in another map all is as the game has just *)
(* loaded it.                                                              *)
LEMMA FrameEnemies ==
  ASSUME Core, FightInv, NEW p \in online, NEW m, NEW loaded, NEW k, NEW h,
         NEW f, NEW r, NEW c,
         FrameOf(p, m, loaded, k, h, f, r, c)
  PROVE  LET first == Resumed(p, loaded).enemies
             last == h[k].enemies
             gone == Missing(last, m)
         IN /\ p \in Players /\ last \in EnemyRecords /\ enemies'[p].tracked = m
            /\ first.dead = enemies[p].dead
            /\ first.hp = IF loaded THEN AllUp ELSE enemies[p].hp
            /\ m = at[p] =>
                 /\ last.listed = enemies[p].listed
                 /\ gone = {i \in last.listed : last.hp[i] = 0 /\ i \notin last.dead}
                 /\ enemies'[p].dead = last.dead \cup gone
                 /\ enemies'[p].listed = {i \in Ids : last.hp[i] > 0}
                 /\ \A i \in Ids : enemies'[p].hp[i] = IF i \in last.dead THEN 0
                                                       ELSE last.hp[i]
            /\ m # at[p] =>
                 /\ loaded /\ gone = {} /\ enemies'[p].dead = {}
                 /\ \A i \in Ids : enemies'[p].hp[i] = last.hp[i]
<1> DEFINE last == h[k].enemies
           gone == Missing(last, m)
           first == Resumed(p, loaded).enemies
           now == ForMap(last, m)
<1>1. p \in Players /\ enemies[p] \in EnemyRecords /\ enemies[p].tracked = at[p]
  BY DEF Core, TypeOK, FightInv, ScreensInv
<1>2. m \in Maps /\ last \in EnemyRecords
  <2>1. m \in Maps /\ h[k] \in Games
    BY <1>1, FrameIs DEF Core
  <2> QED BY <2>1 DEF Games
<1>3. enemies'[p] = EnemySync(last, m).enemies
  BY <1>1, FrameMoves DEF Core
<1>4. /\ now.hp = last.hp
      /\ now.dead = IF m = last.tracked THEN last.dead ELSE {}
      /\ now.listed = IF m = last.tracked THEN last.listed ELSE {}
  BY <1>2, ForMapIs
<1>5. /\ enemies'[p].dead = now.dead \cup gone /\ enemies'[p].listed = Standing(now)
      /\ enemies'[p].tracked = m
      /\ \A i \in Ids : enemies'[p].hp[i] = IF i \in now.dead THEN 0 ELSE now.hp[i]
  BY <1>2, <1>3, EnemySyncIs
<1>6. gone = now.listed \ (Standing(now) \cup now.dead)
  BY DEF Missing
<1>7. Standing(now) = {i \in Ids : last.hp[i] > 0}
  BY <1>4 DEF Standing
<1>8. /\ last.listed \subseteq Ids /\ last.hp \in [Ids -> 0 .. MaxHp]
  BY <1>2 DEF EnemyRecords
<1>9. /\ first.dead = enemies[p].dead /\ first.listed = enemies[p].listed
      /\ first.tracked = at[p]
      /\ first.hp = IF loaded THEN AllUp ELSE enemies[p].hp
  <2>1. first = IF loaded THEN EnemiesAfterLoad(enemies[p]) ELSE enemies[p]
    BY DEF Resumed
  <2> QED BY <1>1, <2>1 DEF EnemiesAfterLoad, EnemyRecords
<1>10. last.listed = first.listed /\ last.tracked = first.tracked
  BY <1>1, TakenLists DEF Core
<1> HIDE DEF last, now
<1>11. CASE m = at[p]
  <2>1. last.tracked = m
    BY <1>9, <1>10, <1>11
  <2>2. gone = {i \in last.listed : last.hp[i] = 0 /\ i \notin last.dead}
    <3>1. \A i \in Ids : ~(last.hp[i] > 0) <=> last.hp[i] = 0
      BY <1>8, EnemiesAssumption
    <3> HIDE DEF gone
    <3> QED BY <1>4, <1>6, <1>7, <1>8, <2>1, <3>1
  <2> HIDE DEF first, gone
  <2>3. last.listed = enemies[p].listed
    BY <1>9, <1>10
  <2> QED BY <1>1, <1>2, <1>4, <1>5, <1>7, <1>9, <1>11, <2>1, <2>2, <2>3 DEF last, first, gone
<1>12. CASE m # at[p]
  <2>1. loaded
    BY <1>12 DEF FrameOf, Loads
  <2>2. now.dead = {} /\ now.listed = {}
    BY <1>4, <1>9, <1>10, <1>12
  <2> HIDE DEF first
  <2>3. gone = {}
    BY <1>6, <2>2
  <2> HIDE DEF gone
  <2> QED BY <1>1, <1>2, <1>4, <1>5, <1>9, <1>12, <2>1, <2>2, <2>3 DEF last, first, gone
<1> QED BY <1>11, <1>12

(* What p has not taken yet after a frame was on its way to it before.     *)
LEMMA FrameQueue ==
  ASSUME TypeOK, NEW p \in Players, NEW m, NEW loaded, NEW k, NEW h,
         NEW f, NEW r, NEW c,
         FrameOf(p, m, loaded, k, h, f, r, c)
  PROVE  LET rest == SubSeq(Coming(p), k + 1, Len(Coming(p)))
         IN /\ Coming(p)' = rest /\ rest \in Seq(Events)
            /\ ToSet(rest) \subseteq ToSet(Coming(p))
            /\ \A x, i : HitsIn(rest, x, i) <= HitsIn(Coming(p), x, i)
            /\ \A q \in Players \ {p} : Coming(q)' = Coming(q)
<1> DEFINE s == Coming(p)
           rest == SubSeq(s, k + 1, Len(s))
           taken == SubSeq(s, 1, k)
<1>1. /\ k \in 0 .. Len(down[p]) /\ down'[p] = SubSeq(down[p], k + 1, Len(down[p]))
      /\ \A q \in Players \ {p} : down'[q] = down[q]
  BY FrameIs, FrameMoves
<1>2. down[p] \in Seq(Messages)
  BY DEF TypeOK
<1>3. s \in Seq(Events) /\ Len(s) = Len(down[p])
  BY <1>2, EventsOfIs DEF Coming
<1>4. Coming(p)' = rest /\ \A q \in Players \ {p} : Coming(q)' = Coming(q)
  <2>1. EventsOf(SubSeq(down[p], k + 1, Len(down[p])))
          = SubSeq(EventsOf(down[p]), k + 1, Len(EventsOf(down[p])))
    BY <1>1, <1>2, EventsOfMoves
  <2> QED BY <1>1, <2>1 DEF Coming
<1> HIDE DEF s
<1>5. /\ taken \in Seq(Events) /\ rest \in Seq(Events)
      /\ ToSet(s) = ToSet(taken) \cup ToSet(rest)
  BY <1>1, <1>3, SplitSet
<1>6. s = taken \o rest
  <2>1. k \in 0 .. Len(s)
    BY <1>1, <1>3
  <2>2. /\ Len(taken) = k /\ Len(rest) = Len(s) - k
        /\ \A j \in 1 .. k : taken[j] = s[j]
        /\ \A j \in 1 .. Len(s) - k : rest[j] = s[k + j]
    BY <1>3, <2>1
  <2> HIDE DEF taken, rest
  <2>3. taken \o rest \in Seq(Events) /\ Len(taken \o rest) = Len(s)
    BY <1>3, <1>5, <2>1, <2>2
  <2>4. \A j \in 1 .. Len(s) : (taken \o rest)[j] = s[j]
    BY <1>3, <1>5, <2>1, <2>2
  <2> DEFINE u == taken \o rest
  <2> HIDE DEF u
  <2>5. u = s
    BY <1>3, <2>3, <2>4, SameSeq DEF u
  <2> QED BY <2>5 DEF u
<1> HIDE DEF taken, rest
<1>7. ASSUME NEW x, NEW i PROVE HitsIn(rest, x, i) <= HitsIn(s, x, i)
  <2>1. /\ HitsIn(taken \o rest, x, i) = HitsIn(taken, x, i) + HitsIn(rest, x, i)
        /\ HitsIn(taken, x, i) \in Nat /\ HitsIn(rest, x, i) \in Nat
    BY <1>5, HitsAre
  <2> QED BY <1>6, <2>1
<1> QED BY <1>4, <1>5, <1>7 DEF s, rest

(* p's enemies after a frame in the map it has been in before: loaded anew *)
(* after a death, they stand again but for those known to be dead.         *)
LEMMA StayingFights ==
  ASSUME Core, FightInv, NEW p \in online, NEW m, NEW loaded, NEW k, NEW h,
         NEW f, NEW r, NEW c,
         FrameOf(p, m, loaded, k, h, f, r, c), m = at[p], NEW i \in Ids
  PROVE  LET says == FrameSays(m, h[k].enemies, r, c)
         IN /\ i \in enemies'[p].dead => enemies'[p].hp[i] = 0 /\ MaxHp <= Given(p, i)
            /\ i \notin enemies'[p].dead => Taking(p, i)' <= Given(p, i)
            /\ ~loaded /\ enemies'[p].hp[i] > 0 =>
                 enemies[p].hp[i] > 0 /\ Taking(p, i)' = Taking(p, i)
            /\ i \in enemies[p].listed \cup enemies[p].dead =>
                 i \in enemies'[p].listed \cup enemies'[p].dead
            /\ i \in enemies[p].dead => i \in enemies'[p].dead
            /\ Death(m, i) \in ToSet(says) => i \in enemies'[p].dead
            /\ Informed(p, i) => Informed(p, i)'
            /\ Informed(p, i)' =>
                 Informed(p, i) \/ (Death(m, i) \in ToSet(says) /\ i \in enemies'[p].dead)
<1> DEFINE says == FrameSays(m, h[k].enemies, r, c)
           first == Resumed(p, loaded).enemies
           last == h[k].enemies
           gone == Missing(last, m)
           rest == SubSeq(Coming(p), k + 1, Len(Coming(p)))
           before == MaxHp - first.hp[i] + HitsIn(Coming(p), m, i)
           after == MaxHp - last.hp[i] + HitsIn(rest, m, i)
<1>1. /\ p \in Players /\ last \in EnemyRecords
      /\ first.dead = enemies[p].dead /\ last.listed = enemies[p].listed
      /\ first.hp = IF loaded THEN AllUp ELSE enemies[p].hp
      /\ gone = {n \in last.listed : last.hp[n] = 0 /\ n \notin last.dead}
      /\ enemies'[p].dead = last.dead \cup gone
      /\ enemies'[p].listed = {n \in Ids : last.hp[n] > 0}
      /\ enemies'[p].hp[i] = IF i \in last.dead THEN 0 ELSE last.hp[i]
  BY FrameEnemies
<1>2. /\ i \in enemies[p].dead => i \in last.dead
      /\ i \in last.dead \/ Death(m, i) \in ToSet(rest)
           <=> i \in enemies[p].dead \/ Death(m, i) \in ToSet(Coming(p))
      /\ after <= before
      /\ last.hp[i] > 0 => first.hp[i] > 0 /\ after = before
  <2>1. /\ i \in first.dead => i \in last.dead
        /\ i \in last.dead \/ Death(m, i) \in ToSet(rest)
             <=> i \in first.dead \/ Death(m, i) \in ToSet(Coming(p))
        /\ after <= before /\ (last.hp[i] > 0 => first.hp[i] > 0 /\ after = before)
    BY <1>1, TakenFight DEF Core
  <2> HIDE DEF after, before, first, rest
  <2> QED BY <1>1, <2>1
<1>3. /\ Coming(p)' = rest /\ at'[p] = m /\ rest \in Seq(Events)
  BY <1>1, FrameQueue, FrameMoves DEF Core
<1>4. Death(m, i) \in ToSet(says) <=> i \in gone
  <2>1. \A x : x.kind = "DEAD" => (x \in ToSet(says) <=> \E n \in gone : x = Death(m, n))
    BY <1>1, FrameDeaths DEF Core
  <2>2. Death(m, i).kind = "DEAD" /\ \A n : Death(m, i) = Death(m, n) => i = n
    BY DEF Death, Event
  <2> HIDE DEF says, gone
  <2> QED BY <2>1, <2>2
<1>5. /\ Landed(m, i) \in Nat /\ HitsIn(up[p], m, i) \in Nat
      /\ HitsIn(Coming(p), m, i) \in Nat /\ HitsIn(rest, m, i) \in Nat
      /\ last.hp[i] \in 0 .. MaxHp /\ first.hp[i] \in 0 .. MaxHp /\ MaxHp \in Nat
  <2>1. last.hp[i] \in 0 .. MaxHp
    BY <1>1 DEF EnemyRecords
  <2>2. HitsIn(rest, m, i) \in Nat
    <3> HIDE DEF rest
    <3> QED BY <1>3, HitsAre
  <2>3. m \in Maps
    BY <1>1, FrameIs DEF Core
  <2>4. /\ Landed(m, i) \in Nat /\ HitsIn(up[p], m, i) \in Nat
        /\ HitsIn(Coming(p), m, i) \in Nat
        /\ enemies[p].hp[i] \in 0 .. MaxHp /\ MaxHp \in Nat
    BY <1>1, <2>3, Numbers
  <2>5. first.hp[i] \in 0 .. MaxHp
    BY <1>1, <2>4 DEF AllUp
  <2> QED BY <2>1, <2>2, <2>4, <2>5
<1> HIDE DEF rest, says, gone, last, first
<1>6. /\ ~loaded => Taking(p, i) = before
      /\ Given(p, i) = Landed(m, i) + HitsIn(up[p], m, i)
  BY <1>1 DEF Taking, Given
<1>7. i \notin last.dead => Taking(p, i)' = after
  BY <1>1, <1>3 DEF Taking, HitsIn
<1>17. /\ HitsIn(Coming(p), m, i) <= Landed(m, i)
       /\ Death(m, i) \in ToSet(Coming(p)) => MaxHp <= Landed(m, i)
  <2>1. m \in Maps
    BY <1>1, FrameIs DEF Core
  <2> QED BY <1>1, <2>1 DEF FightInv, QueuesInv
<1>8. /\ i \in enemies[p].dead => MaxHp <= Given(p, i)
      /\ i \notin enemies[p].dead => before <= Given(p, i)
  <2>1. /\ i \in enemies[p].dead => MaxHp <= Given(p, i)
        /\ i \notin enemies[p].dead => Taking(p, i) <= Given(p, i)
    BY DEF FightInv, ScreensInv
  <2>2. loaded => first.hp[i] = MaxHp
    BY <1>1 DEF AllUp
  <2>3. loaded => before <= Given(p, i)
    BY <1>5, <1>6, <1>17, <2>2
  <2> HIDE DEF before
  <2> QED BY <1>6, <2>1, <2>3
<1>9. Death(m, i) \in ToSet(Coming(p)) => MaxHp <= Given(p, i)
  BY <1>5, <1>6, <1>17
<1>10. i \in last.dead => MaxHp <= Given(p, i)
  BY <1>2, <1>8, <1>9
<1>11. i \in gone => last.hp[i] = 0 /\ i \notin last.dead /\ MaxHp <= Given(p, i)
  BY <1>1, <1>2, <1>5, <1>6, <1>8
<1>12. i \notin last.dead => Taking(p, i)' <= Given(p, i)
  BY <1>2, <1>5, <1>6, <1>7, <1>8
<1>13. ~loaded /\ enemies'[p].hp[i] > 0 =>
         enemies[p].hp[i] > 0 /\ Taking(p, i)' = Taking(p, i)
  BY <1>1, <1>2, <1>6, <1>7
<1>14. i \in enemies[p].listed \cup enemies[p].dead =>
         i \in enemies'[p].listed \cup enemies'[p].dead
  BY <1>1, <1>2, <1>5
<1>15. Informed(p, i)' <=> i \in last.dead \cup gone \/ Death(m, i) \in ToSet(rest)
  BY <1>1, <1>3 DEF Informed, Death
<1>16. Informed(p, i) <=> i \in last.dead \/ Death(m, i) \in ToSet(rest)
  BY <1>2 DEF Informed
<1> QED BY <1>1, <1>2, <1>4, <1>10, <1>11, <1>12, <1>13, <1>14, <1>15, <1>16 DEF says

(* And in a map it has come into: all its enemies stand, but for what it   *)
(* has heard of hits that were dealt there.                                *)
LEMMA WalkingFights ==
  ASSUME Core, FightInv, NEW p \in online, NEW m, NEW loaded, NEW k, NEW h,
         NEW f, NEW r, NEW c,
         FrameOf(p, m, loaded, k, h, f, r, c), m # at[p], NEW i \in Ids
  PROVE  /\ enemies'[p].dead = {} /\ Taking(p, i)' <= Landed(m, i)
         /\ Death(m, i) \notin ToSet(FrameSays(m, h[k].enemies, r, c))
<1> DEFINE says == FrameSays(m, h[k].enemies, r, c)
           last == h[k].enemies
           gone == Missing(last, m)
           rest == SubSeq(Coming(p), k + 1, Len(Coming(p)))
           first == Resumed(p, loaded).enemies
           after == MaxHp - last.hp[i] + HitsIn(rest, m, i)
<1>1. /\ p \in Players /\ last \in EnemyRecords /\ first.hp[i] = MaxHp
      /\ gone = {} /\ enemies'[p].dead = {} /\ enemies'[p].hp[i] = last.hp[i]
  BY FrameEnemies DEF AllUp
<1>2. m \in Maps
  BY <1>1, FrameIs DEF Core
<1>3. after <= MaxHp - first.hp[i] + HitsIn(Coming(p), m, i)
  BY <1>1, TakenFight DEF Core
<1>4. Coming(p)' = rest /\ at'[p] = m /\ rest \in Seq(Events)
  BY <1>1, FrameQueue, FrameMoves DEF Core
<1>5. Death(m, i) \notin ToSet(says)
  <2>1. \A x : x.kind = "DEAD" => (x \in ToSet(says) <=> \E n \in gone : x = Death(m, n))
    BY <1>1, FrameDeaths DEF Core
  <2>2. Death(m, i).kind = "DEAD"
    BY DEF Death, Event
  <2> HIDE DEF says, gone
  <2> QED BY <1>1, <2>1, <2>2
<1>6. Taking(p, i)' = after
  BY <1>1, <1>4 DEF Taking, HitsIn
<1>7. /\ Landed(m, i) \in Nat /\ HitsIn(Coming(p), m, i) \in Nat /\ MaxHp \in Nat
  BY <1>1, <1>2, Numbers
<1>8. HitsIn(Coming(p), m, i) <= Landed(m, i)
  BY <1>1, <1>2 DEF FightInv, QueuesInv
<1> HIDE DEF after, first
<1>9. after <= HitsIn(Coming(p), m, i)
  BY <1>1, <1>3, <1>7
<1>10. after \in Int
  <2>1. HitsIn(rest, m, i) \in Nat
    <3> HIDE DEF rest
    <3> QED BY <1>4, HitsAre
  <2>2. last.hp[i] \in 0 .. MaxHp
    BY <1>1 DEF EnemyRecords
  <2> HIDE DEF rest, last
  <2> QED BY <1>7, <2>1, <2>2 DEF after
<1> QED BY <1>1, <1>5, <1>6, <1>7, <1>8, <1>9, <1>10

LEMMA FrameFights ==
  ASSUME Core, FightInv, NEW p \in Players, Frame(p)
  PROVE  FightInv'
<1>1. /\ \E m, loaded, k, h, f, r, c : FrameOf(p, m, loaded, k, h, f, r, c)
      /\ p \in online /\ UNCHANGED <<scene, online, seen, history>>
  BY FrameUnfolds DEF Core
<1>2. PICK m, loaded, k, h, f, r, c : FrameOf(p, m, loaded, k, h, f, r, c)
  BY <1>1
<1> DEFINE says == FrameSays(m, h[k].enemies, r, c)
<1>3. /\ SaysMore(p, says) /\ at'[p] = m
      /\ \A q \in Players \ {p} : at'[q] = at[q] /\ enemies'[q] = enemies[q]
  BY <1>2, FrameMoves DEF Core
<1>4. m \in Maps /\ says \in Seq(Events) /\ \A j \in 1 .. Len(says) : says[j].kind # "HIT"
  BY <1>2, FrameIs, FrameDeaths DEF Core
<1>5. UNCHANGED <<online, dealt>>
  BY <1>1 DEF history
<1>6. \A i \in Ids : m = at[p] =>
        /\ i \in enemies'[p].dead => enemies'[p].hp[i] = 0 /\ MaxHp <= Given(p, i)
        /\ i \notin enemies'[p].dead => Taking(p, i)' <= Given(p, i)
        /\ ~loaded /\ enemies'[p].hp[i] > 0 =>
             enemies[p].hp[i] > 0 /\ Taking(p, i)' = Taking(p, i)
        /\ i \in enemies[p].listed \cup enemies[p].dead =>
             i \in enemies'[p].listed \cup enemies'[p].dead
        /\ i \in enemies[p].dead => i \in enemies'[p].dead
        /\ Death(m, i) \in ToSet(says) => i \in enemies'[p].dead
        /\ Informed(p, i) => Informed(p, i)'
        /\ Informed(p, i)' =>
             Informed(p, i) \/ (Death(m, i) \in ToSet(says) /\ i \in enemies'[p].dead)
  BY <1>1, <1>2, StayingFights
<1>7. \A i \in Ids : m # at[p] =>
        /\ enemies'[p].dead = {} /\ Taking(p, i)' <= Landed(m, i)
        /\ Death(m, i) \notin ToSet(says)
  BY <1>1, <1>2, WalkingFights
<1>8. \A x \in Maps, i \in Ids : Death(x, i) \in ToSet(says) => x = m
  <2>1. \A y : y.kind = "DEAD" => (y \in ToSet(says) =>
                 \E n \in Missing(h[k].enemies, m) : y = Death(m, n))
    BY <1>2, FrameDeaths DEF Core
  <2>2. \A x, i : Death(x, i).kind = "DEAD" /\ Death(x, i).map = x
    BY DEF Death, Event
  <2> HIDE DEF says
  <2> QED BY <2>1, <2>2
<1>9. enemies'[p].tracked = m
  BY <1>1, <1>2, FrameEnemies
<1>10. /\ ToSet(Coming(p)') \subseteq ToSet(Coming(p)) /\ Coming(p)' \in Seq(Events)
       /\ \A x, i : HitsIn(Coming(p)', x, i) <= HitsIn(Coming(p), x, i)
       /\ \A q \in Players \ {p} : Coming(q)' = Coming(q)
  BY <1>2, FrameQueue DEF Core
<1> HIDE DEF says
<1>11. /\ \A x, i : Landed(x, i)' = Landed(x, i)
       /\ \A q \in Players : \A x, i : HitsIn(up'[q], x, i) = HitsIn(up[q], x, i)
       /\ ToSet(up'[p]) = ToSet(up[p]) \cup ToSet(says)
       /\ \A q \in Players \ {p} : up'[q] = up[q]
  BY <1>3, <1>4, <1>5, QuietMoves
<1>12. \A q \in Players \ {p}, i \in Ids :
         /\ Taking(q, i)' = Taking(q, i) /\ Given(q, i)' = Given(q, i)
         /\ Informed(q, i)' <=> Informed(q, i)
         /\ Announces(q, i)' <=> Announces(q, i)
  BY <1>3, <1>10, <1>11 DEF Taking, Given, Informed, Announces
<1>13. \A i \in Ids : m = at[p] => Given(p, i)' = Given(p, i)
  BY <1>3, <1>11 DEF Given
<1>14. QueuesInv'
  <2> SUFFICES ASSUME NEW x \in Maps, NEW i \in Ids, NEW q \in Players
               PROVE  /\ HitsIn(Coming(q)', x, i) <= Landed(x, i)
                      /\ Death(x, i) \in ToSet(Coming(q)') => MaxHp <= Landed(x, i)
                      /\ Earned(up'[q], x, i, Landed(x, i))
    BY <1>11 DEF QueuesInv
  <2>1. /\ HitsIn(Coming(q), x, i) <= Landed(x, i)
        /\ Death(x, i) \in ToSet(Coming(q)) => MaxHp <= Landed(x, i)
        /\ Earned(up[q], x, i, Landed(x, i))
    BY DEF QueuesInv, FightInv
  <2>2. /\ Landed(x, i) \in Nat /\ HitsIn(Coming(q), x, i) \in Nat /\ up[q] \in Seq(Events)
    BY Numbers
  <2>3. CASE q # p
    BY <1>10, <1>11, <2>1, <2>3
  <2>4. CASE q = p
    <3>1. HitsIn(Coming(p)', x, i) \in Nat
      BY <1>10, HitsAre
    <3>2. HitsIn(Coming(p)', x, i) <= Landed(x, i)
      BY <1>10, <2>1, <2>2, <2>4, <3>1
    <3>3. Earned(up[p] \o says, x, i, Landed(x, i))
      <4>1. \A j \in 1 .. Len(says) :
              says[j] = Death(x, i) => MaxHp <= Landed(x, i) + HitsIn(up[p], x, i)
        <5> SUFFICES ASSUME Death(x, i) \in ToSet(says)
                     PROVE  MaxHp <= Landed(x, i) + HitsIn(up[p], x, i)
          BY <1>4, InSet
        <5>1. x = m /\ m = at[p]
          BY <1>7, <1>8
        <5>2. i \in enemies'[p].dead
          BY <1>6, <5>1
        <5>3. MaxHp <= Given(p, i)
          BY <1>6, <5>1, <5>2
        <5> QED BY <5>1, <5>3 DEF Given
      <4> QED BY <1>4, <2>1, <2>2, <2>4, <4>1, EarnedConcat
    <3>4. up'[p] = up[p] \o says
      BY <1>3 DEF SaysMore
    <3> QED BY <1>10, <2>1, <2>4, <3>2, <3>3, <3>4
  <2> QED BY <2>3, <2>4
<1>15. ScreensInv'
  <2> SUFFICES ASSUME NEW q \in online
               PROVE  /\ enemies'[q].tracked = at'[q]
                      /\ \A i \in Ids :
                           /\ i \in enemies'[q].dead =>
                                enemies'[q].hp[i] = 0 /\ MaxHp <= Given(q, i)'
                           /\ i \notin enemies'[q].dead => Taking(q, i)' <= Given(q, i)'
    BY <1>5 DEF ScreensInv
  <2>1. CASE q # p
    <3>1. q \in Players \ {p}
      BY <2>1 DEF Core, TypeOK
    <3> QED BY <1>3, <1>12, <3>1 DEF ScreensInv, FightInv
  <2>2. CASE q = p /\ m = at[p]
    BY <1>3, <1>6, <1>9, <1>13, <2>2
  <2>3. CASE q = p /\ m # at[p]
    <3> SUFFICES ASSUME NEW i \in Ids PROVE Taking(p, i)' <= Given(p, i)'
      BY <1>3, <1>7, <1>9, <2>3
    <3>1. Taking(p, i)' <= Landed(m, i)
      BY <1>7, <2>3
    <3>2. Given(p, i)' = Landed(m, i) + HitsIn(up[p], m, i)
      BY <1>3, <1>11 DEF Given
    <3>3. Landed(m, i) \in Nat /\ HitsIn(up[p], m, i) \in Nat
      BY <1>4, Numbers
    <3>4. Taking(p, i)' \in Int
      <4>1. /\ enemies'[p].hp[i] \in 0 .. MaxHp /\ MaxHp \in Nat
        <5>1. enemies'[p] \in EnemyRecords
          BY <1>2, FrameMoves DEF Core
        <5> QED BY <5>1, EnemiesAssumption DEF EnemyRecords
      <4>2. HitsIn(Coming(p)', m, i) \in Nat
        BY <1>10, HitsAre
      <4>3. Taking(p, i)' = MaxHp - enemies'[p].hp[i] + HitsIn(Coming(p)', m, i)
        BY <1>3 DEF Taking
      <4> QED BY <4>1, <4>2, <4>3
    <3> QED BY <3>1, <3>2, <3>3, <3>4
  <2> QED BY <2>1, <2>2, <2>3
<1>16. p \in Stayers => m = at[p] /\ ~loaded
  BY <1>2 DEF FrameOf, MapsAfter, Loads, MayLoad, Stayers
<1>17. \A q \in Stayers : at'[q] = at[q]
  BY <1>3, <1>16, Sorts
<1>18. ASSUME p \in Stayers, NEW i \in Ids
       PROVE  /\ Informed(p, i) => Informed(p, i)'
              /\ Announces(p, i) => Announces(p, i)'
              /\ Informed(p, i)' => Informed(p, i) \/ Announces(p, i)'
              /\ Death(at[p], i) \in ToSet(up'[p]) =>
                   Death(at[p], i) \in ToSet(up[p]) \/ i \in enemies'[p].dead
  <2>1. m = at[p]
    BY <1>16, <1>18
  <2>2. Announces(p, i)' <=> i \in enemies'[p].dead /\ Death(m, i) \in ToSet(up'[p])
    BY <1>3 DEF Announces, Death
  <2> QED BY <1>6, <1>11, <2>1, <2>2 DEF Announces
<1>19. SharedInv'
  <2> SUFFICES ASSUME NEW q \in Stayers \cap online, NEW i \in Ids
               PROVE  /\ enemies'[q].hp[i] > 0 => Taking(q, i)' = Given(q, i)'
                      /\ i \in enemies'[q].listed \cup enemies'[q].dead
                      /\ Death(at[q], i) \in ToSet(up'[q]) => i \in enemies'[q].dead
                      /\ \A w \in Stayers \cap online :
                           at[w] = at[q] /\ Informed(q, i)' =>
                             Informed(w, i)' \/ Announces(q, i)'
    BY <1>5, <1>17 DEF SharedInv, Death
  <2>1. q \in Players
    BY Sorts
  <2>2. /\ enemies[q].hp[i] > 0 => Taking(q, i) = Given(q, i)
        /\ i \in enemies[q].listed \cup enemies[q].dead
        /\ Death(at[q], i) \in ToSet(up[q]) => i \in enemies[q].dead
        /\ \A w \in Stayers \cap online :
             at[w] = at[q] /\ Informed(q, i) => Informed(w, i) \/ Announces(q, i)
    BY DEF SharedInv, FightInv
  <2>3. \A w \in Stayers \cap online : Informed(w, i) => Informed(w, i)'
    BY <1>12, <1>18, Sorts
  <2>4. CASE q # p
    <3>1. Announces(q, i)' <=> Announces(q, i)
      BY <1>12, <2>1, <2>4
    <3>2. Informed(q, i)' <=> Informed(q, i)
      BY <1>12, <2>1, <2>4
    <3> QED BY <1>3, <1>11, <1>12, <2>1, <2>2, <2>3, <2>4, <3>1, <3>2
  <2>5. CASE q = p
    <3>1. m = at[p]
      BY <1>16, <2>5
    <3>2. enemies'[q].hp[i] > 0 => Taking(q, i)' = Given(q, i)'
      BY <1>6, <1>13, <1>16, <2>2, <2>5, <3>1
    <3>3. i \in enemies'[q].listed \cup enemies'[q].dead
      BY <1>6, <2>2, <2>5, <3>1
    <3>4. Death(at[q], i) \in ToSet(up'[q]) => i \in enemies'[q].dead
      BY <1>6, <1>18, <2>2, <2>5, <3>1
    <3>5. ASSUME NEW w \in Stayers \cap online, at[w] = at[q], Informed(q, i)'
          PROVE  Informed(w, i)' \/ Announces(q, i)'
      <4>1. Informed(q, i) \/ Announces(q, i)'
        BY <1>18, <2>5, <3>5
      <4>2. Announces(q, i) => Announces(q, i)'
        BY <1>18, <2>5
      <4> QED BY <2>2, <2>3, <3>5, <4>1, <4>2
    <3> QED BY <3>2, <3>3, <3>4, <3>5
  <2> QED BY <2>4, <2>5
<1> QED BY <1>14, <1>15, <1>19 DEF FightInv

LEMMA NextFights == Core /\ Routes /\ FightInv /\ [Next]_vars => FightInv'
<1> SUFFICES ASSUME Core, Routes, FightInv, [Next]_vars PROVE FightInv'
  OBVIOUS
<1>1. CASE \E p, q \in Players : Hear(p, q)
  BY <1>1, HearFights
<1>2. CASE \E c \in Clients : Leave(c)
  BY <1>2, LeaveFights
<1>3. CASE \E p \in Players : Adjudicate(p)
  BY <1>3, AdjudicateFights
<1>4. CASE \E p \in Players : Frame(p)
  BY <1>4, FrameFights
<1>5. CASE \E p \in Players, i \in Ids : Hit(p, i)
  BY <1>5, HitFights
<1>6. CASE \E p \in Players, k \in Kinds, v \in Positions : Set(p, k, v)
  BY <1>6, SetFights
<1>7. CASE UNCHANGED vars
  <2>1. UNCHANGED <<online, at, up, down, enemies, dealt>>
    BY <1>7 DEF vars, network, games, history
  <2>2. /\ \A x, i : Landed(x, i)' = Landed(x, i)
        /\ \A c \in Players : Coming(c)' = Coming(c)
    BY <2>1, UnlandedSame DEF Landed, Coming
  <2>3. \A c \in Players, i \in Ids :
          /\ Taking(c, i)' = Taking(c, i) /\ Given(c, i)' = Given(c, i)
          /\ Informed(c, i)' <=> Informed(c, i)
          /\ Announces(c, i)' <=> Announces(c, i)
    BY <2>1, <2>2 DEF Taking, Given, Informed, Announces
  <2>4. QueuesInv'
    BY <2>1, <2>2 DEF QueuesInv, FightInv, Earned
  <2>5. ScreensInv'
    BY <2>1, <2>3 DEF ScreensInv, FightInv, Core, TypeOK
  <2>6. SharedInv'
    BY <2>1, <2>3, Sorts DEF SharedInv, FightInv
  <2> QED BY <2>4, <2>5, <2>6 DEF FightInv
<1> QED BY <1>1, <1>2, <1>3, <1>4, <1>5, <1>6, <1>7 DEF Next

(* DeathsAreShared: an enemy that has died before a player who stays is    *)
(* known or announced to be dead to the others that stay there, and what   *)
(* is dead on anybody's screen has taken the hits that kill it             *)
(* (enemy_sync, enemy_mark_dead).                                          *)
THEOREM DeathsShared == Spec => []DeathsAreShared
<1>1. Core /\ FightInv => DeathsAreShared
  <2> SUFFICES ASSUME Core, FightInv PROVE DeathsAreShared
    OBVIOUS
  <2>1. ASSUME NEW p \in Stayers \cap online, NEW q \in Stayers \cap online, NEW i \in Ids,
               at[p] = at[q], enemies[p].hp[i] = 0
        PROVE  \/ i \in enemies[p].listed \ enemies[p].dead
               \/ i \in enemies[q].dead
               \/ \E r \in Players : Event("DEAD", at[q], i, Nobody) \in OnTheWay(r, q)
    <3>1. p \in Players /\ q \in Players
      BY Sorts
    <3>2. /\ i \in enemies[p].listed \cup enemies[p].dead
          /\ Informed(p, i) => Informed(q, i) \/ Announces(p, i)
      BY <2>1 DEF FightInv, SharedInv
    <3>3. CASE Announces(p, i)
      <4>1. Event("DEAD", at[q], i, Nobody) \in OnTheWay(p, q)
        BY <2>1, <3>3 DEF Announces, OnTheWay, Death
      <4> QED BY <3>1, <4>1
    <3>4. CASE Informed(q, i)
      <4> SUFFICES ASSUME Death(at[q], i) \in ToSet(Coming(q))
                   PROVE  \E r \in Players : Death(at[q], i) \in OnTheWay(r, q)
        BY <3>4 DEF Informed, Death
      <4>1. down[q] \in Seq(Messages)
        BY <3>1 DEF Core, TypeOK
      <4>2. /\ Coming(q) \in Seq(Events) /\ Len(Coming(q)) = Len(down[q])
            /\ \A j \in 1 .. Len(down[q]) : /\ Coming(q)[j] = down[q][j].event
                                            /\ down[q][j].from \in Players
        BY <4>1, EventsOfIs DEF Coming
      <4>3. PICK j \in 1 .. Len(Coming(q)) : Coming(q)[j] = Death(at[q], i)
        BY <4>2, InSet
      <4>4. down[q][j] \in ToSet(down[q])
        BY <4>1, <4>2, InSet
      <4> DEFINE d == down[q][j]
      <4> HIDE DEF d
      <4>5. d \in ToSet(down[q]) /\ d.event = Death(at[q], i) /\ d.from \in Players
        BY <4>2, <4>3, <4>4 DEF d
      <4>6. Death(at[q], i) \in OnTheWay(d.from, q)
        BY <4>5 DEF OnTheWay
      <4> QED BY <4>5, <4>6
    <3> QED BY <3>2, <3>3, <3>4 DEF Informed
  <2>2. ASSUME NEW p \in online, NEW i \in Ids, i \in enemies[p].dead \/ enemies[p].hp[i] = 0
        PROVE  dealt[at[p]][i] >= MaxHp
    <3>1. p \in Players
      BY DEF Core, TypeOK
    <3>2. at[p] \in Maps
      BY <3>1 DEF Core, TypeOK
    <3> DEFINE m == at[p]
    <3>3. /\ Landed(m, i) = dealt[m][i] - Unlanded(m, i)
          /\ dealt[m][i] \in Nat /\ Unlanded(m, i) \in Nat
          /\ HitsIn(up[p], m, i) \in Nat /\ HitsIn(up[p], m, i) <= Unlanded(m, i)
          /\ HitsIn(Coming(p), m, i) \in Nat /\ MaxHp \in Nat
      BY <3>1, <3>2, Numbers
    <3>4. /\ i \in enemies[p].dead => MaxHp <= Given(p, i)
          /\ i \notin enemies[p].dead => Taking(p, i) <= Given(p, i)
      BY DEF FightInv, ScreensInv
    <3>5. /\ Given(p, i) = Landed(m, i) + HitsIn(up[p], m, i)
          /\ Taking(p, i) = MaxHp - enemies[p].hp[i] + HitsIn(Coming(p), m, i)
      BY DEF Given, Taking
    <3> HIDE DEF m
    <3>6. MaxHp <= Given(p, i)
      BY <2>2, <3>3, <3>4, <3>5
    <3>7. dealt[m][i] >= MaxHp
      BY <3>3, <3>5, <3>6
    <3> QED BY <3>7 DEF m
  <2> QED BY <2>1, <2>2 DEF DeathsAreShared
<1>2. Init => Core /\ Routes /\ FightInv
  BY InitCore, InitRoutes, InitFights
<1>3. Core /\ Routes /\ FightInv /\ [Next]_vars => (Core /\ Routes /\ FightInv)'
  BY NextCore, NextRoutes, NextFights
<1> QED BY <1>1, <1>2, <1>3, PTL DEF Spec

(* DamagePooled: an enemy that still stands before a player who has stayed *)
(* has taken every hit anybody dealt it, once, but for those on their way  *)
(* (enemy_apply_hit, relay_event).                                         *)
THEOREM DamageIsPooled == Spec => []DamagePooled
<1>1. Core /\ FightInv => DamagePooled
  <2> SUFFICES ASSUME Core, FightInv, NEW p \in Stayers \cap online, NEW i \in Ids,
                      enemies[p].hp[i] > 0
               PROVE  dealt[at[p]][i]
                        = MaxHp - enemies[p].hp[i]
                            + HitsIn([j \in DOMAIN down[p] |-> down[p][j].event], at[p], i)
                            + SumFunctionOnSet([q \in Players |->
                                IF q = p THEN 0 ELSE HitsIn(up[q], at[p], i)], Players)
    BY DEF DamagePooled
  <2> DEFINE m == at[p]
             f == HitsUp(m, i)
             unheard == [q \in Players |-> IF q = p THEN 0 ELSE HitsIn(up[q], m, i)]
  <2>1. p \in Players /\ m \in Maps
    BY Sorts DEF Core, TypeOK
  <2>2. /\ f \in [Players -> Nat] /\ unheard \in [Players -> Nat] /\ unheard[p] = 0
        /\ f[p] = HitsIn(up[p], m, i)
        /\ \A q \in Players \ {p} : unheard[q] = f[q]
    <3>1. \A q \in Players : HitsIn(up[q], m, i) \in Nat
      BY HitsAre DEF Core, TypeOK
    <3> QED BY <2>1, <3>1 DEF HitsUp
  <2>3. Unlanded(m, i) = SumFunctionOnSet(f, Players)
    BY DEF Unlanded
  <2> HIDE DEF f, unheard
  <2>4. SumFunctionOnSet(unheard, Players)
          = SumFunctionOnSet(f, Players) - f[p] + unheard[p]
    BY <2>1, <2>2, Sorts, SumChange
  <2>5. /\ Landed(m, i) = dealt[m][i] - Unlanded(m, i)
        /\ dealt[m][i] \in Nat /\ Unlanded(m, i) \in Nat
        /\ HitsIn(up[p], m, i) \in Nat /\ HitsIn(Coming(p), m, i) \in Nat
        /\ MaxHp \in Nat /\ enemies[p].hp[i] \in 0 .. MaxHp
    BY <2>1, Numbers
  <2>6. Taking(p, i) = Given(p, i)
    BY DEF FightInv, SharedInv
  <2>7. /\ Given(p, i) = Landed(m, i) + HitsIn(up[p], m, i)
        /\ Taking(p, i) = MaxHp - enemies[p].hp[i] + HitsIn(Coming(p), m, i)
    BY DEF Given, Taking
  <2> HIDE DEF m
  <2>8. dealt[m][i] = MaxHp - enemies[p].hp[i] + HitsIn(Coming(p), m, i)
                        + SumFunctionOnSet(unheard, Players)
    BY <2>2, <2>3, <2>4, <2>5, <2>6, <2>7
  <2>9. Coming(p) = [j \in DOMAIN down[p] |-> down[p][j].event]
    BY DEF Coming, EventsOf
  <2> HIDE DEF HitsIn
  <2> QED BY <2>8, <2>9 DEF m, unheard
<1>2. Init => Core /\ Routes /\ FightInv
  BY InitCore, InitRoutes, InitFights
<1>3. Core /\ Routes /\ FightInv /\ [Next]_vars => (Core /\ Routes /\ FightInv)'
  BY NextCore, NextRoutes, NextFights
<1> QED BY <1>1, <1>2, <1>3, PTL DEF Spec

-----------------------------------------------------------------------------

(* Carrying.  Whoever holds a player no more has said so after it last     *)
(* said otherwise: what the held one has been told by it, with what is on  *)
(* the way, ends on the put-down.                                          *)

Takes(b, e) == e.kind = "CARRY" /\ e.a = b /\ e.b = TRUE
Releases(b, e) == e.kind = "CARRY" /\ e.a = b /\ e.b = FALSE
Quiet(b, e) == ~Takes(b, e) /\ ~Releases(b, e)

Released(b, s) == \E j \in 1 .. Len(s) : Releases(b, s[j])
Settled(b, s) ==
  \A j \in 1 .. Len(s) :
    Takes(b, s[j]) => \E l \in j + 1 .. Len(s) : Releases(b, s[l])

(* b, held or not, is not held any more after s.                           *)
Over(held, b, s) == Settled(b, s) /\ (held => Released(b, s))

(* What is on its way from a, passed on, among all that b is to take.      *)
Hush == Event("HUSH", Nobody, Nobody, Nobody)
Words == Events \cup {Hush}
Word(a, d) == IF d.from = a THEN d.event ELSE Hush
WordsOf(a, queue) == [j \in DOMAIN queue |-> Word(a, queue[j])]
Said(a, b) == WordsOf(a, down[b])

HeldBy(a, b) == carry[b].carriedBy = a

Apart(a, b) == a = b \/ at[a] # at[b]

CarryInv ==
  \A a, b \in Stayers \cap online :
    /\ Apart(a, b) => Over(HeldBy(a, b), b, Said(a, b)) /\ ~Released(b, Said(a, b))
    /\ ~Apart(a, b) /\ carry[a].carrying # b =>
         /\ Settled(b, up[a])
         /\ Released(b, up[a]) \/ Over(HeldBy(a, b), b, Said(a, b))

(* The first of s is taken.                                                *)
LEMMA OverNext ==
  ASSUME NEW T, NEW s \in Seq(T), s # <<>>, NEW b, NEW held, NEW now, Over(held, b, s),
         now => Takes(b, Head(s)) \/ (held /\ ~Releases(b, Head(s)))
  PROVE  /\ Over(now, b, Tail(s))
         /\ Quiet(b, Head(s)) => (Released(b, Tail(s)) <=> Released(b, s))
         /\ Takes(b, Head(s)) => Released(b, Tail(s))
<1> DEFINE t == Tail(s)
           n == Len(t)
<1>1. /\ n \in Nat /\ Len(s) = n + 1 /\ s[1] = Head(s)
      /\ \A j \in 1 .. n : t[j] = s[j + 1]
  OBVIOUS
<1> HIDE DEF t, n
<1>2. \A j \in 2 .. n + 1 : j - 1 \in 1 .. n /\ t[j - 1] = s[j]
  <2> SUFFICES ASSUME NEW j \in 2 .. n + 1 PROVE j - 1 \in 1 .. n /\ t[j - 1] = s[j]
    OBVIOUS
  <2>1. j - 1 \in 1 .. n /\ (j - 1) + 1 = j
    BY <1>1
  <2> QED BY <1>1, <2>1
<1>3. Settled(b, t)
  <2> SUFFICES ASSUME NEW j \in 1 .. n, Takes(b, t[j])
               PROVE  \E l \in j + 1 .. n : Releases(b, t[l])
    BY DEF Settled, n
  <2>1. Takes(b, s[j + 1]) /\ j + 1 \in 1 .. n + 1
    BY <1>1
  <2>2. PICK l \in (j + 1) + 1 .. n + 1 : Releases(b, s[l])
    BY <1>1, <2>1 DEF Over, Settled
  <2>3. l \in 2 .. n + 1 /\ l - 1 \in j + 1 .. n
    BY <1>1
  <2> QED BY <1>2, <2>2, <2>3
<1>4. ASSUME NEW l \in 2 .. n + 1, Releases(b, s[l])
      PROVE  Released(b, t)
  BY <1>2, <1>4 DEF Released, n
<1>5. Takes(b, Head(s)) => Released(b, t)
  <2> SUFFICES ASSUME Takes(b, Head(s)) PROVE Released(b, t)
    OBVIOUS
  <2>1. 1 \in 1 .. n + 1 /\ Takes(b, s[1])
    BY <1>1
  <2>2. PICK l \in 1 + 1 .. n + 1 : Releases(b, s[l])
    BY <1>1, <2>1 DEF Over, Settled
  <2> QED BY <1>4, <2>2
<1>6. Released(b, s) /\ ~Releases(b, Head(s)) => Released(b, t)
  <2> SUFFICES ASSUME Released(b, s), ~Releases(b, Head(s)) PROVE Released(b, t)
    OBVIOUS
  <2>1. PICK l \in 1 .. n + 1 : Releases(b, s[l])
    BY <1>1 DEF Released
  <2>2. l # 1
    BY <1>1, <2>1
  <2>3. l \in 2 .. n + 1
    BY <1>1, <2>2
  <2> QED BY <1>4, <2>1, <2>3
<1>7. Released(b, t) => Released(b, s)
  <2> SUFFICES ASSUME NEW j \in 1 .. n, Releases(b, t[j]) PROVE Released(b, s)
    BY DEF Released, n
  <2>1. j + 1 \in 1 .. Len(s) /\ Releases(b, s[j + 1])
    BY <1>1
  <2> QED BY <2>1 DEF Released
<1> QED BY <1>3, <1>5, <1>6, <1>7 DEF Over, Quiet, t

(* Nothing about b is said, or a release is the last that is said.         *)
LEMMA OverMore ==
  ASSUME NEW T, NEW s \in Seq(T), NEW t \in Seq(T), NEW b
  PROVE  /\ (\A j \in 1 .. Len(t) : Quiet(b, t[j])) =>
              /\ Settled(b, s) => Settled(b, s \o t)
              /\ Released(b, s \o t) <=> Released(b, s)
         /\ Len(t) > 0 /\ Releases(b, t[Len(t)]) =>
              Settled(b, s \o t) /\ Released(b, s \o t)
<1> DEFINE u == s \o t
           n == Len(s)
           k == Len(t)
<1>1. /\ n \in Nat /\ k \in Nat /\ Len(u) = n + k
      /\ \A j \in 1 .. n : u[j] = s[j]
      /\ \A j \in 1 .. k : u[n + j] = t[j]
  OBVIOUS
<1>2. \A j \in 1 .. n + k : j \in 1 .. n \/ (j - n \in 1 .. k /\ n + (j - n) = j)
  BY <1>1
<1> HIDE DEF u, n, k
<1>3. ASSUME \A j \in 1 .. k : Quiet(b, t[j])
      PROVE  /\ Settled(b, s) => Settled(b, u)
             /\ Released(b, u) <=> Released(b, s)
  <2>1. \A j \in 1 .. n + k : ~Quiet(b, u[j]) => j \in 1 .. n /\ u[j] = s[j]
    <3> SUFFICES ASSUME NEW j \in 1 .. n + k, ~Quiet(b, u[j])
                 PROVE  j \in 1 .. n /\ u[j] = s[j]
      OBVIOUS
    <3>1. CASE j - n \in 1 .. k /\ n + (j - n) = j
      BY <1>1, <1>3, <3>1
    <3> QED BY <1>1, <1>2, <3>1
  <2>2. Released(b, u) => Released(b, s)
    BY <1>1, <2>1 DEF Released, Quiet, n
  <2>3. Released(b, s) => Released(b, u)
    <3> SUFFICES ASSUME NEW j \in 1 .. n, Releases(b, s[j]) PROVE Released(b, u)
      BY DEF Released, n
    <3>1. j \in 1 .. Len(u) /\ Releases(b, u[j])
      BY <1>1
    <3> QED BY <3>1 DEF Released
  <2>4. ASSUME Settled(b, s) PROVE Settled(b, u)
    <3> SUFFICES ASSUME NEW j \in 1 .. n + k, Takes(b, u[j])
                 PROVE  \E l \in j + 1 .. n + k : Releases(b, u[l])
      BY <1>1 DEF Settled
    <3>1. j \in 1 .. n /\ u[j] = s[j]
      BY <2>1 DEF Quiet
    <3>2. PICK l \in j + 1 .. n : Releases(b, s[l])
      BY <2>4, <3>1 DEF Settled, n
    <3>3. l \in 1 .. n /\ l \in j + 1 .. n + k
      BY <1>1, <3>1
    <3> QED BY <1>1, <3>2, <3>3
  <2> QED BY <2>2, <2>3, <2>4
<1>4. ASSUME k > 0, Releases(b, t[k])
      PROVE  Settled(b, u) /\ Released(b, u)
  <2>1. n + k \in 1 .. n + k /\ Releases(b, u[n + k])
    BY <1>1, <1>4
  <2>2. ASSUME NEW j \in 1 .. n + k, Takes(b, u[j])
        PROVE  \E l \in j + 1 .. n + k : Releases(b, u[l])
    <3>1. j # n + k
      BY <2>1, <2>2 DEF Takes, Releases
    <3>2. n + k \in j + 1 .. n + k
      BY <1>1, <3>1
    <3> QED BY <2>1, <3>2
  <2> QED BY <1>1, <2>1, <2>2 DEF Settled, Released
<1> QED BY <1>3, <1>4 DEF u, k

(* The same of one word more.                                              *)
LEMMA OverAppend ==
  ASSUME NEW T, NEW s \in Seq(T), NEW x \in T, NEW b
  PROVE  /\ Quiet(b, x) =>
              /\ \A held \in BOOLEAN : Over(held, b, s) => Over(held, b, Append(s, x))
              /\ Released(b, Append(s, x)) <=> Released(b, s)
         /\ Releases(b, x) =>
              \A held \in BOOLEAN : Over(held, b, Append(s, x))
<1> DEFINE t == <<x>>
<1>1. /\ Append(s, x) = s \o t /\ t \in Seq(T) /\ Len(t) = 1
      /\ t[Len(t)] = x /\ \A j \in 1 .. Len(t) : t[j] = x
  OBVIOUS
<1> HIDE DEF t
<1>2. /\ (\A j \in 1 .. Len(t) : Quiet(b, t[j])) =>
           /\ Settled(b, s) => Settled(b, s \o t)
           /\ Released(b, s \o t) <=> Released(b, s)
      /\ Len(t) > 0 /\ Releases(b, t[Len(t)]) =>
           Settled(b, s \o t) /\ Released(b, s \o t)
  BY <1>1, OverMore
<1>3. Quiet(b, x) => /\ Settled(b, s) => Settled(b, s \o t)
                     /\ Released(b, s \o t) <=> Released(b, s)
  BY <1>1, <1>2
<1>4. Releases(b, x) => Settled(b, s \o t) /\ Released(b, s \o t)
  BY <1>1, <1>2
<1> QED BY <1>1, <1>3, <1>4 DEF Over

LEMMA WordsOfIs ==
  ASSUME NEW q \in Seq(Messages), NEW a
  PROVE  /\ WordsOf(a, q) \in Seq(Words) /\ Len(WordsOf(a, q)) = Len(q)
         /\ \A j \in 1 .. Len(q) : WordsOf(a, q)[j] = Word(a, q[j])
<1>1. \A d \in Messages : Word(a, d) \in Words
  BY DEF Word, Words, Messages
<1>2. \A j \in 1 .. Len(q) : q[j] \in Messages
  OBVIOUS
<1>3. \A j \in 1 .. Len(q) : Word(a, q[j]) \in Words
  BY <1>1, <1>2
<1> QED BY <1>3 DEF WordsOf

LEMMA WordsOfMoves ==
  ASSUME NEW q \in Seq(Messages), NEW a
  PROVE  /\ \A d \in Messages : WordsOf(a, Append(q, d)) = Append(WordsOf(a, q), Word(a, d))
         /\ \A k \in 0 .. Len(q) : WordsOf(a, SubSeq(q, k + 1, Len(q)))
                                     = SubSeq(WordsOf(a, q), k + 1, Len(WordsOf(a, q)))
<1>1. \A d \in Messages : Word(a, d) \in Words
  BY DEF Word, Words, Messages
<1>2. /\ WordsOf(a, q) \in Seq(Words) /\ Len(WordsOf(a, q)) = Len(q)
      /\ \A j \in 1 .. Len(q) : WordsOf(a, q)[j] = Word(a, q[j])
  BY WordsOfIs
<1>3. ASSUME NEW d \in Messages
      PROVE  WordsOf(a, Append(q, d)) = Append(WordsOf(a, q), Word(a, d))
  <2> DEFINE x == WordsOf(a, Append(q, d))
             y == Append(WordsOf(a, q), Word(a, d))
  <2>1. Word(a, d) \in Words
    BY <1>1
  <2>2. /\ Append(q, d) \in Seq(Messages) /\ Len(Append(q, d)) = Len(q) + 1
        /\ \A j \in 1 .. Len(q) : Append(q, d)[j] = q[j]
        /\ Append(q, d)[Len(q) + 1] = d
    OBVIOUS
  <2>3. /\ x \in Seq(Words) /\ Len(x) = Len(q) + 1
        /\ \A j \in 1 .. Len(q) + 1 : x[j] = Word(a, Append(q, d)[j])
    BY <2>2, WordsOfIs
  <2>4. /\ y \in Seq(Words) /\ Len(y) = Len(q) + 1
        /\ \A j \in 1 .. Len(q) : y[j] = Word(a, q[j])
        /\ y[Len(q) + 1] = Word(a, d)
    BY <1>2, <2>1
  <2> HIDE DEF x, y
  <2>5. \A j \in 1 .. Len(q) + 1 : x[j] = y[j]
    BY <2>2, <2>3, <2>4
  <2>6. x = y
    BY <2>3, <2>4, <2>5, SameSeq
  <2> QED BY <2>6 DEF x, y
<1>4. ASSUME NEW k \in 0 .. Len(q)
      PROVE  WordsOf(a, SubSeq(q, k + 1, Len(q)))
               = SubSeq(WordsOf(a, q), k + 1, Len(WordsOf(a, q)))
  <2> DEFINE u == SubSeq(q, k + 1, Len(q))
             x == WordsOf(a, u)
             y == SubSeq(WordsOf(a, q), k + 1, Len(WordsOf(a, q)))
             n == Len(q) - k
  <2>1. /\ n \in Nat /\ u \in Seq(Messages) /\ Len(u) = n
        /\ \A j \in 1 .. n : u[j] = q[k + j] /\ k + j \in 1 .. Len(q)
    OBVIOUS
  <2>2. /\ x \in Seq(Words) /\ Len(x) = n /\ \A j \in 1 .. n : x[j] = Word(a, u[j])
    BY <2>1, WordsOfIs
  <2>3. /\ y \in Seq(Words) /\ Len(y) = n
        /\ \A j \in 1 .. n : y[j] = WordsOf(a, q)[k + j]
    BY <1>2
  <2> HIDE DEF u, x, y, n
  <2>4. \A j \in 1 .. n : x[j] = y[j]
    BY <1>2, <2>1, <2>2, <2>3
  <2>5. x = y
    BY <2>1, <2>2, <2>3, <2>4, SameSeq
  <2> QED BY <2>5 DEF x, y, u
<1> QED BY <1>3, <1>4

(* What a player takes in of a carrier's words, and of anybody else's.     *)
LEMMA OneWord ==
  ASSUME NEW x \in CarryRecords, NEW b, NEW a, NEW d \in Messages
  PROVE  LET y == ApplyCarry(x, b, d.from, d.event)
             w == Word(a, d)
         IN /\ y.carrying = x.carrying
            /\ y.carriedBy = a /\ a \in Players =>
                 Takes(b, w) \/ (x.carriedBy = a /\ ~Releases(b, w))
<1> DEFINE y == ApplyCarry(x, b, d.from, d.event)
           w == Word(a, d)
           e == d.event
<1>1. e \in Events /\ d.from \in Players
  BY DEF Messages
<1>2. e.kind = "CARRY" => e.b \in BOOLEAN
  BY <1>1, EventData
<1>3. Nobody \notin Players
  BY Sorts
<1>4. CASE e.kind = "CARRY" /\ e.a = b
  <2>1. y = [x EXCEPT !.carriedBy = IF e.b THEN d.from ELSE Nobody]
    BY <1>4 DEF ApplyCarry
  <2>2. y.carrying = x.carrying /\ y.carriedBy = IF e.b THEN d.from ELSE Nobody
    BY <2>1 DEF CarryRecords
  <2>3. y.carriedBy = a /\ a \in Players => d.from = a /\ e.b = TRUE
    BY <1>2, <1>3, <1>4, <2>2
  <2>4. d.from = a => w = e
    BY DEF Word
  <2> HIDE DEF y, w, e
  <2> QED BY <1>4, <2>2, <2>3, <2>4 DEF Takes, w, y, e
<1>5. CASE ~(e.kind = "CARRY" /\ e.a = b)
  <2>1. y = x
    BY <1>5 DEF ApplyCarry
  <2>2. w \in {e, Hush}
    BY DEF Word
  <2>3. Hush.kind # "CARRY"
    BY DEF Hush, Event
  <2> HIDE DEF w, e
  <2>4. ~Releases(b, w)
    BY <1>5, <2>2, <2>3 DEF Releases
  <2> QED BY <2>1, <2>4 DEF w, e
<1> QED BY <1>4, <1>5

(* In a frame the one held takes in its carrier's words in their order.    *)
LEMMA TakenWords ==
  ASSUME TypeOK, NEW p \in Players, NEW m, NEW loaded, NEW k, NEW h,
         NEW f, NEW r, NEW c,
         FrameOf(p, m, loaded, k, h, f, r, c), NEW a \in Players
  PROVE  LET rest == SubSeq(Said(a, p), k + 1, Len(Said(a, p)))
         IN /\ h[k].carry.carrying = carry[p].carrying
            /\ Over(HeldBy(a, p), p, Said(a, p)) =>
                 Over(h[k].carry.carriedBy = a, p, rest)
            /\ Released(p, rest) => Released(p, Said(a, p))
<1> DEFINE s == Said(a, p)
           rest(i) == SubSeq(s, i + 1, Len(s))
           held(i) == h[i].carry.carriedBy = a
           fine(i) == /\ h[i].carry.carrying = carry[p].carrying
                      /\ Over(HeldBy(a, p), p, s) => Over(held(i), p, rest(i))
           good == {i \in 0 .. k : fine(i)}
<1>1. down[p] \in Seq(Messages)
  BY DEF TypeOK
<1>2. /\ m \in Maps /\ k \in Nat /\ k <= Len(down[p])
      /\ h \in [0 .. k -> Games] /\ h[0] = Resumed(p, loaded)
      /\ \A i \in 1 .. k : /\ down[p][i] \in Messages
                           /\ h[i] = ApplyEvent(h[i - 1], p, m, down[p][i])
  BY FrameTrace
<1>3. /\ s \in Seq(Words) /\ Len(s) = Len(down[p])
      /\ \A i \in 1 .. Len(s) : s[i] = Word(a, down[p][i])
  BY <1>1, WordsOfIs DEF Said
<1>4. h[0].carry = carry[p]
  BY <1>2 DEF Resumed
<1> HIDE DEF s
<1>5. 0 \in good
  <2>1. rest(0) = s
    BY <1>3, WholeSuffix
  <2>2. held(0) <=> HeldBy(a, p)
    BY <1>4 DEF HeldBy
  <2> HIDE DEF rest, held
  <2>3. Over(HeldBy(a, p), p, s) => Over(held(0), p, rest(0))
    BY <2>1, <2>2 DEF Over
  <2> QED BY <1>2, <1>4, <2>3
<1>6. \A i \in 1 .. k : i - 1 \in good => i \in good
  <2> SUFFICES ASSUME NEW i \in 1 .. k, i - 1 \in good PROVE i \in good
    OBVIOUS
  <2>1. /\ h[i - 1].carry.carrying = carry[p].carrying
        /\ Over(HeldBy(a, p), p, s) => Over(held(i - 1), p, rest(i - 1))
    OBVIOUS
  <2>2. i \in 1 .. Len(s) /\ (i - 1) + 1 = i /\ i - 1 \in 0 .. k /\ i \in 0 .. k
    BY <1>2, <1>3
  <2>3. /\ rest(i - 1) \in Seq(Words) /\ rest(i - 1) # <<>>
        /\ Head(rest(i - 1)) = s[i] /\ Tail(rest(i - 1)) = rest(i)
    BY <1>3, <2>2, SuffixMoves
  <2> DEFINE x == h[i - 1].carry
             d == down[p][i]
  <2>4. x \in CarryRecords /\ d \in Messages
    BY <1>2, <2>2 DEF Games
  <2>5. h[i].carry = ApplyCarry(x, p, d.from, d.event)
    <3>1. h[i] = ApplyEvent(h[i - 1], p, m, down[p][i])
      BY <1>2
    <3> QED BY <3>1 DEF ApplyEvent
  <2> HIDE DEF x, d
  <2>6. /\ h[i].carry.carrying = x.carrying
        /\ h[i].carry.carriedBy = a =>
             Takes(p, Word(a, d)) \/ (x.carriedBy = a /\ ~Releases(p, Word(a, d)))
    BY <2>4, <2>5, OneWord
  <2>7. s[i] = Word(a, d)
    BY <1>3, <2>2 DEF d
  <2>8. held(i) => Takes(p, s[i]) \/ (held(i - 1) /\ ~Releases(p, s[i]))
    BY <2>6, <2>7 DEF x
  <2> HIDE DEF rest, held
  <2>9. ASSUME Over(HeldBy(a, p), p, s) PROVE Over(held(i), p, rest(i))
    <3>1. Over(held(i - 1), p, rest(i - 1))
      BY <2>1, <2>9
    <3>2. Over(held(i), p, Tail(rest(i - 1)))
      BY <2>3, <2>8, <3>1, OverNext
    <3> QED BY <2>3, <3>2
  <2>10. h[i].carry.carrying = carry[p].carrying
    BY <2>1, <2>6 DEF x
  <2> QED BY <2>2, <2>9, <2>10
<1>7. k \in good
  <2> HIDE DEF good
  <2>1. 0 .. k \subseteq good
    BY <1>2, <1>5, <1>6, Counting
  <2> QED BY <1>2, <2>1
<1>8. Released(p, rest(k)) => Released(p, s)
  <2>1. /\ Len(rest(k)) = Len(s) - k
        /\ \A j \in 1 .. Len(s) - k : rest(k)[j] = s[k + j] /\ k + j \in 1 .. Len(s)
    BY <1>2, <1>3
  <2> HIDE DEF rest
  <2> QED BY <2>1 DEF Released
<1> QED BY <1>7, <1>8 DEF s

(* What a frame says of carrying: nothing about those who were not carried *)
(* and are not, and at its end that the one is put down who was.           *)
LEMMA FrameCarries ==
  ASSUME TypeOK, NEW p \in Players, NEW m, NEW loaded, NEW k, NEW h,
         NEW f, NEW r, NEW c,
         FrameOf(p, m, loaded, k, h, f, r, c), NEW b \in Players, c.carry.carrying # b
  PROVE  LET says == FrameSays(m, h[k].enemies, r, c)
         IN /\ carry[p].carrying # b => \A j \in 1 .. Len(says) : Quiet(b, says[j])
            /\ carry[p].carrying = b => Len(says) > 0 /\ Releases(b, says[Len(says)])
<1> DEFINE deaths == EnemySync(h[k].enemies, m).says
           calls == r.says
           moves == c.says
           says == FrameSays(m, h[k].enemies, r, c)
           z == deaths \o calls
           x == h[k].carry
<1>1. m \in Maps /\ h[k].enemies \in EnemyRecords /\ x \in CarryRecords
  <2>1. m \in Maps /\ h[k] \in Games
    BY FrameIs
  <2> QED BY <2>1 DEF Games
<1>2. x.carrying = carry[p].carrying
  BY TakenWords
<1>3. AllOf("DEAD", deaths) /\ AllOf("MODE", calls)
  BY <1>1, EnemySyncIs, FrameSaysOfRound DEF Announced
<1>4. /\ AllOf("CARRY", moves)
      /\ \/ GoesOn(x, c)
         \/ Ends(x, m, c)
         \/ \E q \in Players : PicksUp(x, m, q, c)
  <2> DEFINE shown == f.shown
  <2>1. c \in CarryOutcomes(p, x, m, shown)
    BY DEF FrameOf
  <2> HIDE DEF x, shown
  <2> QED BY <1>1, <2>1, CarryOutcomesAre
<1>5. says = z \o moves
  BY DEF FrameSays
<1>6. \A q, on : /\ Report(m, q, on).kind = "CARRY" /\ Report(m, q, on).a = q
                 /\ Report(m, q, on).b = on
  BY DEF Report, Event
<1>7. carry[p].carrying # b => \A j \in 1 .. Len(moves) : Quiet(b, moves[j])
  <2> SUFFICES ASSUME carry[p].carrying # b
               PROVE  \A j \in 1 .. Len(moves) : Quiet(b, moves[j])
    OBVIOUS
  <2>1. CASE GoesOn(x, c)
    BY <2>1 DEF GoesOn
  <2>2. CASE Ends(x, m, c)
    <3>1. CASE x.carrying = Nobody
      BY <2>2, <3>1 DEF Ends
    <3>2. CASE x.carrying # Nobody
      <4> DEFINE e == Report(m, x.carrying, FALSE)
      <4>1. moves = <<e>> /\ e.a # b
        BY <1>2, <1>6, <2>2, <3>2 DEF Ends
      <4> HIDE DEF e
      <4> QED BY <4>1, OneEvent DEF Quiet, Takes, Releases
    <3> QED BY <3>1, <3>2
  <2>3. CASE \E q \in Players : PicksUp(x, m, q, c)
    <3>1. PICK q \in Players : PicksUp(x, m, q, c)
      BY <2>3
    <3>2. c.carry.carrying = q
      BY <1>1, <3>1 DEF PicksUp, CarryRecords
    <3> DEFINE e == Report(m, q, TRUE)
    <3>3. moves = <<e>> /\ e.a # b
      BY <1>6, <3>1, <3>2 DEF PicksUp
    <3> HIDE DEF e
    <3> QED BY <3>3, OneEvent DEF Quiet, Takes, Releases
  <2> QED BY <1>4, <2>1, <2>2, <2>3
<1>8. carry[p].carrying = b => Len(moves) = 1 /\ Releases(b, moves[1])
  <2> SUFFICES ASSUME carry[p].carrying = b
               PROVE  Len(moves) = 1 /\ Releases(b, moves[1])
    OBVIOUS
  <2>1. b # Nobody
    BY Sorts
  <2>2. ~GoesOn(x, c)
    BY <1>1, <1>2 DEF GoesOn, CarryRecords
  <2>3. \A q \in Players : ~PicksUp(x, m, q, c)
    <3>1. \A q : PicksUp(x, m, q, c) => x = NoCarry
      BY DEF PicksUp
    <3>2. NoCarry.carrying = Nobody
      BY DEF NoCarry
    <3>3. x.carrying # Nobody
      BY <1>2, <2>1
    <3> HIDE DEF x
    <3> QED BY <3>1, <3>2, <3>3
  <2>4. Ends(x, m, c)
    BY <1>4, <2>2, <2>3
  <2> DEFINE e == Report(m, b, FALSE)
  <2>5. moves = <<e>> /\ Releases(b, e)
    BY <1>2, <1>6, <2>1, <2>4 DEF Ends, Releases
  <2> HIDE DEF e
  <2> QED BY <2>5
<1> HIDE DEF deaths, calls, moves, says
<1>9. z \in Seq(Events) /\ \A j \in 1 .. Len(z) : Quiet(b, z[j])
  <2>1. deaths \in Seq(Events) /\ calls \in Seq(Events)
    BY <1>3 DEF AllOf
  <2>2. z \in Seq(Events) /\ Len(z) = Len(deaths) + Len(calls)
        /\ (\A j \in 1 .. Len(deaths) : z[j] = deaths[j])
        /\ \A j \in 1 .. Len(calls) : z[Len(deaths) + j] = calls[j]
    BY <2>1
  <2>3. \A j \in 1 .. Len(z) : j \in 1 .. Len(deaths)
          \/ (j - Len(deaths) \in 1 .. Len(calls) /\ Len(deaths) + (j - Len(deaths)) = j)
    BY <2>1, <2>2
  <2> HIDE DEF z
  <2>4. \A j \in 1 .. Len(z) : z[j].kind \in {"DEAD", "MODE"}
    <3> SUFFICES ASSUME NEW j \in 1 .. Len(z) PROVE z[j].kind \in {"DEAD", "MODE"}
      OBVIOUS
    <3>1. CASE j \in 1 .. Len(deaths)
      BY <1>3, <2>2, <3>1 DEF AllOf
    <3>2. CASE j - Len(deaths) \in 1 .. Len(calls) /\ Len(deaths) + (j - Len(deaths)) = j
      <4>1. z[j] = calls[j - Len(deaths)]
        BY <2>2, <3>2
      <4> QED BY <1>3, <3>2, <4>1 DEF AllOf
    <3> QED BY <2>3, <3>1, <3>2
  <2> QED BY <2>2, <2>4 DEF Quiet, Takes, Releases
<1> HIDE DEF z
<1>10. moves \in Seq(Events)
  BY <1>4 DEF AllOf
<1>11. /\ Len(says) = Len(z) + Len(moves)
       /\ \A j \in 1 .. Len(z) : says[j] = z[j]
       /\ \A j \in 1 .. Len(moves) : says[Len(z) + j] = moves[j]
       /\ Len(z) \in Nat /\ Len(moves) \in Nat
  BY <1>5, <1>9, <1>10
<1>12. ASSUME carry[p].carrying # b, NEW j \in 1 .. Len(says)
       PROVE  Quiet(b, says[j])
  <2>1. CASE j <= Len(z)
    BY <1>9, <1>11, <2>1
  <2>2. CASE j > Len(z)
    <3>1. j - Len(z) \in 1 .. Len(moves) /\ Len(z) + (j - Len(z)) = j
      BY <1>11, <2>2
    <3>2. says[j] = moves[j - Len(z)]
      BY <1>11, <3>1
    <3> QED BY <1>7, <1>12, <3>1, <3>2
  <2> QED BY <1>11, <2>1, <2>2
<1>13. ASSUME carry[p].carrying = b
       PROVE  Len(says) > 0 /\ Releases(b, says[Len(says)])
  <2>1. Len(moves) = 1 /\ Releases(b, moves[1])
    BY <1>8, <1>13
  <2>2. Len(says) = Len(z) + 1 /\ says[Len(z) + 1] = moves[1]
    BY <1>11, <2>1
  <2> QED BY <1>11, <2>1, <2>2
<1> QED BY <1>12, <1>13 DEF says

LEMMA FrameLetsGo ==
  ASSUME TypeOK, NEW p \in Players, NEW m, NEW loaded, NEW k, NEW h,
         NEW f, NEW r, NEW c,
         FrameOf(p, m, loaded, k, h, f, r, c)
  PROVE  c.carry.carriedBy \in {h[k].carry.carriedBy, Nobody}
<1>1. m \in Maps /\ h[k].carry \in CarryRecords
  <2>1. m \in Maps /\ h[k] \in Games
    BY FrameIs
  <2> QED BY <2>1 DEF Games
<1> DEFINE x == h[k].carry
           shown == f.shown
<1>2. x \in CarryRecords /\ c \in CarryOutcomes(p, x, m, shown)
  BY <1>1 DEF FrameOf
<1> HIDE DEF x, shown
<1>3. \/ GoesOn(x, c)
      \/ Ends(x, m, c)
      \/ \E q \in Players : PicksUp(x, m, q, c)
  BY <1>1, <1>2, CarryOutcomesAre
<1>4. GoesOn(x, c) => c.carry.carriedBy \in {x.carriedBy, Nobody}
  BY <1>2 DEF GoesOn, CarryRecords
<1>5. Ends(x, m, c) => c.carry.carriedBy = Nobody
  BY DEF Ends, NoCarry
<1>6. ASSUME NEW q \in Players, PicksUp(x, m, q, c)
      PROVE  c.carry.carriedBy = Nobody
  BY <1>6 DEF PicksUp, NoCarry
<1> QED BY <1>3, <1>4, <1>5, <1>6 DEF x

LEMMA InitCarries == Init => CarryInv
<1> SUFFICES ASSUME Init, NEW a \in Stayers \cap online, NEW b \in Stayers \cap online
             PROVE  /\ Over(HeldBy(a, b), b, Said(a, b)) /\ ~Released(b, Said(a, b))
                    /\ Settled(b, up[a])
  BY DEF CarryInv
<1>1. a \in Players /\ b \in Players /\ Nobody \notin Players
  BY Sorts
<1>2. up[a] = <<>> /\ down[b] = <<>> /\ carry[b] = NoCarry
  BY <1>1 DEF Init
<1>3. ~HeldBy(a, b)
  BY <1>1, <1>2 DEF HeldBy, NoCarry
<1>4. Said(a, b) = <<>>
  BY <1>2 DEF Said, WordsOf
<1> QED BY <1>2, <1>3, <1>4 DEF Over, Settled, Released

(* Somebody reports something, but not of carrying.                        *)
LEMMA OtherReports ==
  ASSUME Core, CarryInv, NEW p \in Players, NEW t \in Seq(Events), SaysMore(p, t),
         \A j \in 1 .. Len(t) : t[j].kind # "CARRY",
         UNCHANGED <<online, at, down, carry>>
  PROVE  CarryInv'
<1> SUFFICES ASSUME NEW a \in Stayers \cap online, NEW b \in Stayers \cap online,
                    Settled(b, up[a])
             PROVE  Settled(b, up'[a]) /\ (Released(b, up'[a]) <=> Released(b, up[a]))
  BY DEF CarryInv, Said, HeldBy, Apart
<1>1. a \in Players /\ up[a] \in Seq(Events)
  BY Sorts DEF Core, TypeOK
<1>2. \A j \in 1 .. Len(t) : Quiet(b, t[j])
  BY DEF Quiet, Takes, Releases
<1>3. CASE a = p
  <2>1. up'[a] = up[a] \o t
    BY <1>3 DEF SaysMore
  <2> QED BY <1>1, <1>2, <2>1, OverMore
<1>4. CASE a # p
  BY <1>1, <1>4 DEF SaysMore, UpChange
<1> QED BY <1>3, <1>4

LEMMA LeaveCarries ==
  ASSUME Core, CarryInv, NEW c \in Clients, Leave(c)
  PROVE  CarryInv'
<1>1. /\ online' = online \ {c} /\ UpChange(c)
      /\ \A q \in Players \ {c} : down'[q] = down[q] /\ carry'[q] = carry[q]
      /\ at' = at
  BY LeaveIs DEF Core
<1>2. ASSUME NEW a \in Players \ {c}, NEW b \in Players \ {c}
      PROVE  /\ HeldBy(a, b)' <=> HeldBy(a, b)
             /\ Said(a, b)' = Said(a, b) /\ up'[a] = up[a] /\ carry'[a] = carry[a]
  BY <1>1 DEF HeldBy, Said, UpChange
<1> SUFFICES ASSUME NEW a \in (Stayers \cap online)', NEW b \in (Stayers \cap online)'
             PROVE  /\ Apart(a, b) =>
                         Over(HeldBy(a, b), b, Said(a, b))' /\ ~Released(b, Said(a, b)')
                    /\ ~Apart(a, b) /\ carry'[a].carrying # b =>
                         /\ Settled(b, up'[a])
                         /\ Released(b, up'[a]) \/ Over(HeldBy(a, b), b, Said(a, b))'
  BY <1>1 DEF CarryInv, Apart
<1>3. /\ a \in Players \ {c} /\ b \in Players \ {c}
      /\ a \in Stayers \cap online /\ b \in Stayers \cap online
  BY <1>1, Sorts
<1>4. Over(HeldBy(a, b), b, Said(a, b))' <=> Over(HeldBy(a, b), b, Said(a, b))
  BY <1>2, <1>3 DEF Over
<1> QED BY <1>2, <1>3, <1>4 DEF CarryInv

(* The host takes an event of p's: what it says of carrying goes on to the *)
(* one it is about, if that is in the map, as the last that one is to hear *)
(* of p.                                                                   *)
LEMMA AdjudicateCarries ==
  ASSUME Core, Routes, CarryInv, NEW p \in Players, Adjudicate(p)
  PROVE  CarryInv'
<1> DEFINE e == Head(up[p])
           d == [from |-> p, event |-> e]
           receivers == Receivers(p, e)
<1>1. /\ up[p] # <<>> /\ UpChange(p) /\ up'[p] = Tail(up[p])
      /\ d \in Messages
      /\ \A q \in Players : /\ q \in receivers => down'[q] = Append(down[q], d)
                            /\ q \notin receivers => down'[q] = down[q]
      /\ UNCHANGED <<online, at, carry>>
  BY AdjudicateIs DEF Core, games
<1>2. /\ receivers \subseteq online \ {p}
      /\ \A q \in (Stayers \cap online) \ {p} :
           q \in receivers <=> e.kind = "MODE" \/ e.map = at[q]
  BY ReceiversAre DEF Core
<1>3. up[p] \in Seq(Events) /\ e \in Events
  BY <1>1, HeadTailSet DEF Core, TypeOK
<1>4. p \in Stayers => e.kind = "MODE" \/ e.map = at[p]
  <2>1. e \in ToSet(up[p])
    BY <1>1, <1>3, HeadTailSet
  <2> QED BY <2>1 DEF Routes
<1>5. d.from = p /\ d.event = e
  OBVIOUS
<1> HIDE DEF receivers, d
<1> SUFFICES ASSUME NEW a \in Stayers \cap online, NEW b \in Stayers \cap online
             PROVE  /\ Apart(a, b) =>
                         Over(HeldBy(a, b), b, Said(a, b)') /\ ~Released(b, Said(a, b)')
                    /\ ~Apart(a, b) /\ carry[a].carrying # b =>
                         /\ Settled(b, up'[a])
                         /\ Released(b, up'[a]) \/ Over(HeldBy(a, b), b, Said(a, b)')
  <2>1. \A a, b : /\ HeldBy(a, b)' <=> HeldBy(a, b)
                  /\ Apart(a, b)' <=> Apart(a, b)
    BY <1>1 DEF HeldBy, Apart
  <2>2. \A a, b : Over(HeldBy(a, b), b, Said(a, b))' <=> Over(HeldBy(a, b), b, Said(a, b)')
    BY <2>1 DEF Over
  <2> QED BY <1>1, <2>1, <2>2 DEF CarryInv
<1>6. /\ a \in Players /\ b \in Players /\ down[b] \in Seq(Messages)
      /\ up[a] \in Seq(Events)
  BY Sorts DEF Core, TypeOK
<1> DEFINE s == Said(a, b)
           t == Said(a, b)'
           held == HeldBy(a, b)
<1>7. s \in Seq(Words)
  BY <1>6, WordsOfIs DEF Said
<1>8. /\ b \in receivers => t = Append(s, Word(a, d))
      /\ b \notin receivers => t = s
  <2>1. WordsOf(a, Append(down[b], d)) = Append(WordsOf(a, down[b]), Word(a, d))
    BY <1>1, <1>6, WordsOfMoves
  <2>2. Said(a, b)' = WordsOf(a, down'[b])
    BY DEF Said, WordsOf, Word, Hush, Event
  <2> QED BY <1>1, <1>6, <2>1, <2>2 DEF Said
<1>9. Word(a, d) \in Words /\ Word(a, d) = IF p = a THEN e ELSE Hush
  BY <1>3, <1>5 DEF Word, Words
<1>10. /\ Apart(a, b) => Over(held, b, s) /\ ~Released(b, s)
       /\ ~Apart(a, b) /\ carry[a].carrying # b =>
            /\ Settled(b, up[a])
            /\ Released(b, up[a]) \/ Over(held, b, s)
  BY DEF CarryInv
<1>11. held \in BOOLEAN
  BY DEF HeldBy
<1> HIDE DEF s, t, held, e
<1>12. Quiet(b, Word(a, d)) \/ b \notin receivers =>
         /\ Over(held, b, s) => Over(held, b, t)
         /\ Released(b, t) <=> Released(b, s)
  <2>1. CASE b \notin receivers
    BY <1>8, <2>1
  <2>2. CASE b \in receivers
    <3>1. Quiet(b, Word(a, d)) =>
            /\ \A x \in BOOLEAN :
                 Over(x, b, s) => Over(x, b, Append(s, Word(a, d)))
            /\ Released(b, Append(s, Word(a, d))) <=> Released(b, s)
      BY <1>7, <1>9, OverAppend
    <3>2. t = Append(s, Word(a, d))
      BY <1>8, <2>2
    <3> QED BY <1>11, <2>2, <3>1, <3>2
  <2> QED BY <2>1, <2>2
<1>13. Releases(b, Word(a, d)) /\ b \in receivers => Over(held, b, t)
  BY <1>7, <1>8, <1>9, <1>11, OverAppend
<1>14. Quiet(b, Hush)
  BY DEF Quiet, Takes, Releases, Hush, Event
<1>15. CASE a # p
  <2>1. Quiet(b, Word(a, d))
    BY <1>9, <1>14, <1>15
  <2>2. up'[a] = up[a]
    BY <1>1, <1>6, <1>15 DEF UpChange
  <2> QED BY <1>10, <1>12, <2>1, <2>2 DEF t, held
<1>16. CASE a = p
  <2>1. Word(a, d) = e
    BY <1>9, <1>16
  <2>2. ~Quiet(b, e) => e.kind = "CARRY" /\ e.map = at[a]
    BY <1>4, <1>16 DEF Quiet, Takes, Releases
  <2>3. ASSUME Apart(a, b)
        PROVE  Over(held, b, t) /\ ~Released(b, t)
    <3>1. Quiet(b, e) \/ b \notin receivers
      BY <1>2, <1>6, <1>16, <2>2, <2>3 DEF Apart
    <3> QED BY <1>10, <1>12, <2>1, <2>3, <3>1
  <2>4. ASSUME ~Apart(a, b), carry[a].carrying # b
        PROVE  /\ Settled(b, up'[a])
               /\ Released(b, up'[a]) \/ Over(held, b, t)
    <3>1. ~Quiet(b, e) => b \in receivers
      BY <1>2, <1>6, <1>16, <2>2, <2>4 DEF Apart
    <3>2. Over(FALSE, b, up[a])
      BY <1>10, <2>4 DEF Over
    <3>3. /\ Over(FALSE, b, Tail(up[a]))
          /\ Quiet(b, Head(up[a])) => (Released(b, Tail(up[a])) <=> Released(b, up[a]))
          /\ Takes(b, Head(up[a])) => Released(b, Tail(up[a]))
      BY <1>1, <1>6, <1>16, <3>2, OverNext
    <3>4. /\ Settled(b, up'[a])
          /\ Quiet(b, e) => (Released(b, up'[a]) <=> Released(b, up[a]))
          /\ Takes(b, e) => Released(b, up'[a])
      BY <1>1, <1>16, <3>3 DEF Over, e
    <3>5. CASE Quiet(b, e)
      BY <1>10, <1>12, <2>1, <2>4, <3>4, <3>5
    <3>6. CASE Takes(b, e)
      BY <3>4, <3>6
    <3>7. CASE Releases(b, e)
      <4>1. b \in receivers
        BY <3>1, <3>7 DEF Quiet
      <4> QED BY <1>13, <2>1, <3>4, <3>7, <4>1
    <3> QED BY <3>5, <3>6, <3>7 DEF Quiet
  <2> QED BY <2>3, <2>4 DEF t, held
<1> QED BY <1>15, <1>16

LEMMA FrameCarrying ==
  ASSUME Core, CarryInv, NEW p \in Players, Frame(p)
  PROVE  CarryInv'
<1>1. /\ \E m, loaded, k, h, f, r, c : FrameOf(p, m, loaded, k, h, f, r, c)
      /\ p \in online /\ UNCHANGED <<scene, online, seen, history>>
  BY FrameUnfolds DEF Core
<1>2. PICK m, loaded, k, h, f, r, c : FrameOf(p, m, loaded, k, h, f, r, c)
  BY <1>1
<1> DEFINE says == FrameSays(m, h[k].enemies, r, c)
<1>3. /\ SaysMore(p, says) /\ at'[p] = m
      /\ down'[p] = SubSeq(down[p], k + 1, Len(down[p])) /\ carry'[p] = c.carry
      /\ \A q \in Players \ {p} :
           at'[q] = at[q] /\ down'[q] = down[q] /\ carry'[q] = carry[q]
  BY <1>2, FrameMoves DEF Core
<1>4. says \in Seq(Events) /\ k \in 0 .. Len(down[p])
  BY <1>2, FrameIs DEF Core
<1>5. \A b \in Players : c.carry.carrying # b =>
        /\ carry[p].carrying # b => \A j \in 1 .. Len(says) : Quiet(b, says[j])
        /\ carry[p].carrying = b => Len(says) > 0 /\ Releases(b, says[Len(says)])
  BY <1>2, FrameCarries DEF Core
<1>6. c.carry.carriedBy \in {h[k].carry.carriedBy, Nobody}
  BY <1>2, FrameLetsGo DEF Core
<1> HIDE DEF says
<1>7. \A q \in Stayers : at'[q] = at[q]
  <2>1. p \in Stayers => m = at[p]
    BY <1>2 DEF FrameOf, MapsAfter, MayLoad, Stayers
  <2> QED BY <1>3, <2>1, Sorts
<1>8. \A a \in Players : p \in Players =>
        LET rest == SubSeq(Said(a, p), k + 1, Len(Said(a, p)))
        IN /\ Over(HeldBy(a, p), p, Said(a, p)) =>
                Over(h[k].carry.carriedBy = a, p, rest)
           /\ Released(p, rest) => Released(p, Said(a, p))
  BY <1>2, TakenWords DEF Core
<1>9. ASSUME NEW a \in Players, NEW b \in Players
      PROVE  /\ Over(HeldBy(a, b), b, Said(a, b)) => Over(HeldBy(a, b), b, Said(a, b))'
             /\ Released(b, Said(a, b))' => Released(b, Said(a, b))
  <2>1. CASE b # p
    <3>1. Said(a, b)' = Said(a, b) /\ (HeldBy(a, b)' <=> HeldBy(a, b))
      BY <1>3, <2>1 DEF Said, HeldBy
    <3> QED BY <3>1 DEF Over
  <2>2. CASE b = p
    <3> DEFINE rest == SubSeq(Said(a, p), k + 1, Len(Said(a, p)))
    <3>1. down[p] \in Seq(Messages)
      BY DEF Core, TypeOK
    <3>2. WordsOf(a, SubSeq(down[p], k + 1, Len(down[p]))) = rest
      BY <1>4, <3>1, WordsOfMoves DEF Said
    <3>3. Said(a, p)' = WordsOf(a, down'[p])
      BY DEF Said, WordsOf, Word, Hush, Event
    <3>4. Said(a, p)' = rest
      BY <1>3, <3>2, <3>3
    <3>5. HeldBy(a, p)' => h[k].carry.carriedBy = a
      BY <1>3, <1>6, Sorts DEF HeldBy
    <3> HIDE DEF rest
    <3>6. /\ Over(HeldBy(a, p), p, Said(a, p)) =>
               Over(h[k].carry.carriedBy = a, p, rest)
          /\ Released(p, rest) => Released(p, Said(a, p))
      BY <1>8 DEF rest
    <3>7. Over(h[k].carry.carriedBy = a, p, rest) => Over(HeldBy(a, p), p, Said(a, p))'
      BY <3>4, <3>5 DEF Over
    <3> QED BY <2>2, <3>4, <3>6, <3>7
  <2> QED BY <2>1, <2>2
<1> SUFFICES ASSUME NEW a \in Stayers \cap online, NEW b \in Stayers \cap online
             PROVE  /\ Apart(a, b) =>
                         Over(HeldBy(a, b), b, Said(a, b))' /\ ~Released(b, Said(a, b))'
                    /\ ~Apart(a, b) /\ carry'[a].carrying # b =>
                         /\ Settled(b, up'[a])
                         /\ Released(b, up'[a]) \/ Over(HeldBy(a, b), b, Said(a, b))'
  BY <1>1, <1>7 DEF CarryInv, Apart
<1>10. a \in Players /\ b \in Players /\ up[a] \in Seq(Events)
  BY Sorts DEF Core, TypeOK
<1>11. Apart(a, b) => Over(HeldBy(a, b), b, Said(a, b))' /\ ~Released(b, Said(a, b))'
  BY <1>9, <1>10 DEF CarryInv
<1>12. ASSUME ~Apart(a, b), carry'[a].carrying # b
       PROVE  /\ Settled(b, up'[a])
              /\ Released(b, up'[a]) \/ Over(HeldBy(a, b), b, Said(a, b))'
  <2>1. carry[a].carrying # b =>
          /\ Settled(b, up[a])
          /\ Released(b, up[a]) \/ Over(HeldBy(a, b), b, Said(a, b))
    BY <1>12 DEF CarryInv
  <2>2. CASE a # p
    <3>1. up'[a] = up[a] /\ carry'[a] = carry[a]
      BY <1>3, <1>10, <2>2 DEF SaysMore, UpChange
    <3> QED BY <1>9, <1>10, <1>12, <2>1, <3>1
  <2>3. CASE a = p
    <3>1. up'[a] = up[a] \o says /\ c.carry.carrying # b
      BY <1>3, <1>12, <2>3 DEF SaysMore
    <3>2. /\ (\A j \in 1 .. Len(says) : Quiet(b, says[j])) =>
               /\ Settled(b, up[a]) => Settled(b, up[a] \o says)
               /\ Released(b, up[a] \o says) <=> Released(b, up[a])
          /\ Len(says) > 0 /\ Releases(b, says[Len(says)]) =>
               Settled(b, up[a] \o says) /\ Released(b, up[a] \o says)
      BY <1>4, <1>10, OverMore
    <3>3. CASE carry[a].carrying = b
      BY <1>5, <1>10, <2>3, <3>1, <3>2, <3>3
    <3>4. CASE carry[a].carrying # b
      BY <1>5, <1>9, <1>10, <2>1, <2>3, <3>1, <3>2, <3>4
    <3> QED BY <3>3, <3>4
  <2> QED BY <2>2, <2>3
<1> QED BY <1>11, <1>12

LEMMA NextCarries == Core /\ Routes /\ CarryInv /\ [Next]_vars => CarryInv'
<1> SUFFICES ASSUME Core, Routes, CarryInv, [Next]_vars PROVE CarryInv'
  OBVIOUS
<1>1. ASSUME UNCHANGED <<online, at, up, down, carry>> PROVE CarryInv'
  BY <1>1 DEF CarryInv, Said, HeldBy, Apart, Over
<1>2. CASE \E p, q \in Players : Hear(p, q)
  BY <1>1, <1>2 DEF Hear, games
<1>3. CASE \E c \in Clients : Leave(c)
  BY <1>3, LeaveCarries
<1>4. CASE \E p \in Players : Adjudicate(p)
  BY <1>4, AdjudicateCarries
<1>5. CASE \E p \in Players : Frame(p)
  BY <1>5, FrameCarrying
<1>6. ASSUME NEW p \in Players, NEW i \in Ids, Hit(p, i) PROVE CarryInv'
  <2> DEFINE e == Event("HIT", at[p], i, Nobody)
             t == <<e>>
  <2>1. Says(p, t) /\ UNCHANGED <<online, at, down, carry>>
    BY <1>6 DEF Hit
  <2>2. e \in Events /\ e.kind = "HIT"
    <3>1. at[p] \in Maps
      BY DEF Core, TypeOK
    <3> QED BY <3>1, EventsAre DEF Event
  <2> HIDE DEF e
  <2>3. t \in Seq(Events) /\ \A j \in 1 .. Len(t) : t[j].kind # "CARRY"
    BY <2>2, OneEvent
  <2> HIDE DEF t
  <2>4. SaysMore(p, t)
    BY <2>1, <2>3, SaysIs DEF Core
  <2> QED BY <2>1, <2>3, <2>4, OtherReports
<1>7. ASSUME NEW p \in Players, NEW k \in Kinds, NEW v \in Positions, Set(p, k, v)
      PROVE  CarryInv'
  <2> DEFINE t == SwitchReport(switches[p], k, v, at[p])
  <2>1. /\ t \in Seq(Events) /\ \A j \in 1 .. Len(t) : t[j] = Event(k, at[p], v, Nobody)
        /\ SaysMore(p, t) /\ UNCHANGED <<online, at, down, carry>>
    BY <1>7, SetIs DEF Core
  <2> HIDE DEF t
  <2>2. \A j \in 1 .. Len(t) : t[j].kind # "CARRY"
    BY <2>1 DEF Event, Kinds
  <2> QED BY <2>1, <2>2, OtherReports
<1>8. CASE UNCHANGED vars
  BY <1>1, <1>8 DEF vars, network, games
<1> QED BY <1>2, <1>3, <1>4, <1>5, <1>6, <1>7, <1>8 DEF Next

(* NobodyHeldForNothing: nobody is held by a player that holds it no more, *)
(* unless the report of the put-down is on its way (carry_update,          *)
(* carry_set_carried_by).                                                  *)
THEOREM HeldForSomething == Spec => []NobodyHeldForNothing
<1>1. Core /\ CarryInv => NobodyHeldForNothing
  <2> SUFFICES ASSUME Core, CarryInv, NEW a \in Stayers \cap online,
                      NEW b \in Stayers \cap online,
                      carry[b].carriedBy = a, carry[a].carrying # b
               PROVE  \E e \in OnTheWay(a, b) : e.kind = "CARRY" /\ e.a = b /\ ~e.b
    BY DEF NobodyHeldForNothing
  <2>1. /\ a \in Players /\ up[a] \in Seq(Events) /\ down[b] \in Seq(Messages)
    BY Sorts DEF Core, TypeOK
  <2>2. HeldBy(a, b)
    BY DEF HeldBy
  <2>3. ~Apart(a, b)
    BY <2>2 DEF CarryInv, Over
  <2>4. Released(b, up[a]) \/ Released(b, Said(a, b))
    BY <2>2, <2>3 DEF CarryInv, Over
  <2>5. CASE Released(b, up[a])
    <3>1. PICK j \in 1 .. Len(up[a]) : Releases(b, up[a][j])
      BY <2>5 DEF Released
    <3>2. up[a][j] \in OnTheWay(a, b)
      BY <2>1, InSet DEF OnTheWay
    <3> QED BY <3>1, <3>2 DEF Releases
  <2>6. CASE Released(b, Said(a, b))
    <3>1. PICK j \in 1 .. Len(Said(a, b)) : Releases(b, Said(a, b)[j])
      BY <2>6 DEF Released
    <3>2. j \in 1 .. Len(down[b]) /\ Said(a, b)[j] = Word(a, down[b][j])
      BY <2>1, WordsOfIs DEF Said
    <3> DEFINE d == down[b][j]
    <3>3. d \in ToSet(down[b])
      BY <2>1, <3>2, InSet
    <3>4. Releases(b, Word(a, d))
      BY <3>1, <3>2
    <3> HIDE DEF d
    <3>5. ~Releases(b, Hush)
      BY DEF Releases, Hush, Event
    <3>6. d.from = a /\ Releases(b, d.event)
      BY <3>4, <3>5 DEF Word
    <3>7. d.event \in OnTheWay(a, b)
      BY <3>3, <3>6 DEF OnTheWay
    <3> QED BY <3>6, <3>7 DEF Releases
  <2> QED BY <2>4, <2>5, <2>6
<1>2. Init => Core /\ Routes /\ CarryInv
  BY InitCore, InitRoutes, InitCarries
<1>3. Core /\ Routes /\ CarryInv /\ [Next]_vars => (Core /\ Routes /\ CarryInv)'
  BY NextCore, NextRoutes, NextCarries
<1> QED BY <1>1, <1>2, <1>3, PTL DEF Spec
=============================================================================

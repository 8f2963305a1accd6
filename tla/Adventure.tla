------------------------------ MODULE Adventure ------------------------------
(***************************************************************************)
(* A session under way: what the players' games show and do with each      *)
(* other beside collecting.  Every player runs the frame hook of main.c;   *)
(* in it, the positions heard make the figures, the events received are    *)
(* applied, enemies are synchronised, the round goes on and so does the    *)
(* carrying.  What a player reports goes to the host, which passes it on   *)
(* to whom it concerns as far as the host knows where everybody is.        *)
(*                                                                         *)
(* Everybody has been admitted.  The host may not have a position yet of   *)
(* a walker that has only just been.  A client that leaves does not come   *)
(* back.  What a frame reports is handed over with the frame: the code     *)
(* does it at the start of the next one, before anything else.             *)
(***************************************************************************)
EXTENDS Figures, Carry, Rounds, Enemies, Switches

CONSTANTS
  Walkers,   \* the players whose game loads maps: another than the one they
             \* are in, or the same one again after a death (revive.c)
  Scenes,    \* bound: the features used together in one behaviour, with
             \* the room for events on their way to or from one player
  MaxHits,   \* bound: hits dealt to one enemy of one map
  MaxSets    \* bound: settings of the switches by the games

Features == {"WALKING", "FIGURES", "CARRYING", "PARTY", "FIGHT"} \cup Kinds

ASSUME AdventureAssumption ==
  /\ Walkers \subseteq Players
  /\ Scenes \subseteq [uses : SUBSET Features, room : Nat]
  /\ MaxHits \in Nat /\ MaxSets \in Nat

VARIABLES
  scene,     \* the features used, and the room
  online,    \* the players in the session
  at,        \* at[p]: the map p is in, as of its last frame
  seen,      \* seen[p][q]: the map p has last heard q to be in, or Nobody
  up,        \* up[p]: p's events the host has not seen yet
  down,      \* down[p]: events for p that its game has not taken yet
  figures, carry, round, enemies, switches,   \* the records of each player
  told,      \* history: the players to whom the last start was passed on
  dealt,     \* history: dealt[m][i], the hits dealt to enemy i of map m but
             \* for those lost with the player who dealt them
  crossed,   \* history: the switches set by a player on whose way, or on
             \* whose way to the host, another setting already was
  sets       \* number of changes of switches so far

network == <<online, at, seen, up, down>>
games == <<figures, carry, round, enemies, switches>>
history == <<told, dealt, crossed, sets>>
vars == <<scene, network, games, history>>

Stayers == Players \ Walkers

Events ==
  [kind : {"CARRY"}, map : Maps, a : Players, b : BOOLEAN]
    \cup [kind : {"MODE"}, map : {Nobody}, a : {"START"}, b : Modes]
    \cup [kind : {"MODE"}, map : {Nobody}, a : {"FOUND"}, b : Players]
    \cup [kind : {"MODE"}, map : {Nobody}, a : {"END"}, b : {Nobody}]
    \cup [kind : {"HIT", "DEAD"}, map : Maps, a : Ids, b : {Nobody}]
    \cup [kind : Kinds, map : Maps, a : Positions, b : {Nobody}]

(* An event as the host passes it on: with whom it is from.                *)
Messages == [from : Players, event : Events]

TypeOK ==
  /\ scene \in Scenes
  /\ online \subseteq Players
  /\ at \in [Players -> Maps]
  /\ seen \in [Players -> [Players -> Maps \cup {Nobody}]]
  /\ up \in [Players -> Seq(Events)]
  /\ down \in [Players -> Seq(Messages)]
  /\ figures \in [Players -> FigureRecords]
  /\ carry \in [Players -> CarryRecords]
  /\ round \in [Players -> RoundRecords]
  /\ enemies \in [Players -> EnemyRecords]
  /\ switches \in [Players -> SwitchRecords]
  /\ told \subseteq Players
  /\ dealt \in [Maps -> [Ids -> 0 .. MaxHits]]
  /\ crossed \subseteq Kinds
  /\ sets \in 0 .. MaxSets

Init ==
  /\ scene \in Scenes
  /\ online = Players
  /\ \E start \in Maps : at = [p \in Players |-> start]
  /\ \E late \in SUBSET (Clients \cap Walkers) :
       seen = [p \in Players |-> [q \in Players |->
                 IF q \in late \/ p = q THEN Nobody ELSE at[q]]]
  /\ up = [p \in Players |-> <<>>]
  /\ down = [p \in Players |-> <<>>]
  /\ figures = [p \in Players |-> NoFigures]
  /\ carry = [p \in Players |-> NoCarry]
  /\ round = [p \in Players |-> NoRound]
  /\ enemies = [p \in Players |-> EnemiesAt(at[p])]
  /\ switches = [p \in Players |-> AllAtRest]
  /\ told = {}
  /\ dealt = [m \in Maps |-> [i \in Ids |-> 0]]
  /\ crossed = {}
  /\ sets = 0

-----------------------------------------------------------------------------
(* The network.                                                            *)

(***************************************************************************)
(* p's idea of where q is catches up: the host hears a client, a client    *)
(* hears the host or, through the host, another client.  Who has left is   *)
(* not in the host's roster any more, and then not in a client's.          *)
(***************************************************************************)
Hear(p, q) ==
  LET news == IF p # Host /\ q # Host THEN seen[Host][q]
              ELSE IF q \in online THEN at[q] ELSE Nobody
  IN /\ p \in online
     /\ p # q
     /\ seen[p][q] # news
     /\ seen' = [seen EXCEPT ![p][q] = news]
     /\ UNCHANGED <<scene, online, at, up, down, games, history>>

(* The hits on enemy i of map m among events.                              *)
HitsIn(events, m, i) ==
  Cardinality({j \in DOMAIN events : events[j] = Event("HIT", m, i, Nobody)})

(***************************************************************************)
(* A client leaves; what is on its way to or from it is lost.  Its frame   *)
(* hook, running on without a connection, undoes what the session did.     *)
(***************************************************************************)
Leave(c) ==
  /\ c \in online \ {Host}
  /\ online' = online \ {c}
  /\ up' = [up EXCEPT ![c] = <<>>]
  /\ down' = [down EXCEPT ![c] = <<>>]
  /\ dealt' = [m \in Maps |-> [i \in Ids |-> dealt[m][i] - HitsIn(up[c], m, i)]]
  /\ figures' = [figures EXCEPT ![c] = PuppetClearAll(@)]
  /\ carry' = [carry EXCEPT ![c] = NoCarry]
  /\ round' = [round EXCEPT ![c] = ModesReset(@)]
  /\ enemies' = [enemies EXCEPT ![c] = EnemyReset(@)]
  /\ UNCHANGED <<scene, at, seen, switches, told, crossed, sets>>

(* Whether the host has a position of q, and which: its own is its own.    *)
KnownAt(q) == IF q = Host THEN at[Host] ELSE seen[Host][q]

(* relay_event: a round concerns everybody, the rest those in the map.     *)
WantedBy(e) ==
  {q \in Players : /\ KnownAt(q) # Nobody
                   /\ e.kind = "MODE" \/ KnownAt(q) = e.map}

(* A mutated form: whoever reported it hears of it, too.                   *)
EchoedTo(p, e) == WantedBy(e) \cap online

(* p's own event is not sent back to it (adjudicate).                      *)
Receivers(p, e) == (WantedBy(e) \cap online) \ {p}

(* The host takes the next event of p, its own included (drain_outbox),    *)
(* and passes it on to those it concerns (adjudicate).                     *)
Adjudicate(p) ==
  /\ up[p] # <<>>
  /\ LET e == Head(up[p])
         receivers == Receivers(p, e)
     IN /\ \A q \in receivers : Len(down[q]) < scene.room
        /\ down' = [q \in Players |->
                      IF q \in receivers
                        THEN Append(down[q], [from |-> p, event |-> e])
                        ELSE down[q]]
        /\ told' = IF e.kind = "MODE" /\ e.a = "START"
                     THEN receivers ELSE told
  /\ up' = [up EXCEPT ![p] = Tail(@)]
  /\ UNCHANGED <<scene, online, at, seen, games, dealt, crossed, sets>>

-----------------------------------------------------------------------------
(* The game, between two frames.                                           *)

Says(p, events) ==
  /\ Len(up[p]) + Len(events) <= scene.room
  /\ up' = [up EXCEPT ![p] = @ \o events]

(* p hits an enemy that stands in its map: the hook on                     *)
(* marker_callCollisionFunc reports it, and the game deals the damage.     *)
Hit(p, i) ==
  /\ "FIGHT" \in scene.uses
  /\ p \in online
  /\ i \in Standing(enemies[p])
  /\ dealt[at[p]][i] < MaxHits
  /\ Says(p, <<Event("HIT", at[p], i, Nobody)>>)
  /\ enemies' = [enemies EXCEPT ![p] = Damage(@, i)]
  /\ dealt' = [dealt EXCEPT ![at[p]][i] = @ + 1]
  /\ UNCHANGED <<scene, online, at, seen, down, figures, carry, round,
                 switches, told, crossed, sets>>

(* A setting of k that p has not seen yet.                                 *)
UnseenBy(p, k) ==
  \/ \E m \in ToSet(down[p]) : m.event.kind = k
  \/ \E q \in Players \ {p} : \E e \in ToSet(up[q]) : e.kind = k

(* p's game sets a switch; the hook reports it, unless it is no change.    *)
Set(p, k, v) ==
  /\ k \in scene.uses
  /\ p \in online
  /\ sets < MaxSets
  /\ Says(p, SwitchReport(switches[p], k, v, at[p]))
  /\ switches' = [switches EXCEPT ![p][k] = v]
  /\ crossed' = IF UnseenBy(p, k) THEN crossed \cup {k} ELSE crossed
  /\ sets' = sets + 1
  /\ UNCHANGED <<scene, online, at, seen, down, figures, carry, round,
                 enemies, told, dealt>>

-----------------------------------------------------------------------------
(* The frame hook.                                                         *)

Remotes(p) == {q \in Players : seen[p][q] # Nobody}
HereWith(p, m) == {q \in Players : seen[p][q] = m}

(* The outcomes of the figures, of the round and of the carrying, from the *)
(* records f, r and c before.                                              *)
FigureOutcomes(p, f, m) ==
  LET here == HereWith(p, m) IN
  CASE "FIGURES" \in scene.uses ->
         {PuppetSync(f, here, changed, failed) :
            changed \in SUBSET here, failed \in SUBSET here}
    [] "FIGURES" \notin scene.uses /\ "CARRYING" \in scene.uses ->
         {PuppetSync(f, here, {}, {})}
    [] OTHER -> {f}

RoundOutcomes(p, r, m) ==
  IF "PARTY" \notin scene.uses \/ p # Host THEN {Announce(r, <<>>)}
  ELSE LET inReach == IF r.mode = "RACE"
                        THEN HereWith(p, r.finish)
                             \cup (IF m = r.finish THEN {p} ELSE {})
                        ELSE HereWith(p, m)
       IN {HostRound(r, m, want, Remotes(p), near) :
             want \in Modes, near \in SUBSET inReach}

CarryOutcomes(p, c, m, shown) ==
  IF "CARRYING" \notin scene.uses
    THEN {[carry |-> c, says |-> <<>>]}
    ELSE UNION {CarryUpdate(c, m, enabled, hands, HereWith(p, m),
                            HereWith(p, m) \cap shown) :
                  enabled, hands \in BOOLEAN}

MayLoad(p) == p \in Walkers /\ "WALKING" \in scene.uses

(* The maps p's game may be in at its next frame.                          *)
MapsAfter(p) == IF MayLoad(p) THEN Maps ELSE {at[p]}

(* Whether it has loaded map m since its last frame: another map has been  *)
(* loaded, and the same one is again after a death.                        *)
Loads(p, m) ==
  {loaded \in BOOLEAN : (m # at[p] => loaded) /\ (loaded => MayLoad(p))}

(* p's game as a frame finds it, but for the figures.                      *)
Resumed(p, loaded) ==
  [carry    |-> carry[p],
   round    |-> round[p],
   enemies  |-> IF loaded THEN EnemiesAfterLoad(enemies[p]) ELSE enemies[p],
   switches |-> IF loaded THEN AllAtRest ELSE switches[p]]

(* What arrives, d, is applied to p's game g in map m (bc_apply_event).    *)
ApplyEvent(g, p, m, d) ==
  [carry    |-> ApplyCarry(g.carry, p, d.from, d.event),
   round    |-> ModesApply(g.round, d.event),
   enemies  |-> ApplyFight(g.enemies, m, d.event),
   switches |-> ApplySwitch(g.switches, m, d.event)]

ApplyAll(g, p, m, queue) ==
  FoldLeft(LAMBDA x, d : ApplyEvent(x, p, m, d), g, queue)

(***************************************************************************)
(* A frame of p's game (banjocoop_frame): it finds itself in a map, which  *)
(* the game may just have loaded, or loaded again; takes what has arrived; *)
(* and does, in this order, figures, events, enemies, the round, the       *)
(* carrying.                                                               *)
(***************************************************************************)
Frame(p) ==
  /\ p \in online
  /\ \E m \in MapsAfter(p) : \E loaded \in Loads(p, m), k \in 0 .. Len(down[p]) :
     LET g == ApplyAll(Resumed(p, loaded), p, m, SubSeq(down[p], 1, k))
         fight == EnemySync(g.enemies, m)
     IN \E f \in FigureOutcomes(p, IF loaded
                                     THEN FiguresAfterLoad(figures[p])
                                     ELSE figures[p], m) :
        \E r \in RoundOutcomes(p, g.round, m) :
        \E c \in CarryOutcomes(p, g.carry, m, f.shown) :
          /\ Says(p, fight.says \o r.says \o c.says)
          /\ at' = [at EXCEPT ![p] = m]
          /\ down' = [down EXCEPT ![p] = SubSeq(@, k + 1, Len(@))]
          /\ figures' = [figures EXCEPT ![p] = f]
          /\ enemies' = [enemies EXCEPT ![p] = fight.enemies]
          /\ round' = [round EXCEPT ![p] = r.round]
          /\ carry' = [carry EXCEPT ![p] = c.carry]
          /\ switches' = [switches EXCEPT ![p] = g.switches]
  /\ UNCHANGED <<scene, online, seen, history>>

Next ==
  \/ \E p, q \in Players : Hear(p, q)
  \/ \E c \in Clients : Leave(c)
  \/ \E p \in Players : Adjudicate(p) \/ Frame(p)
  \/ \E p \in Players, i \in Ids : Hit(p, i)
  \/ \E p \in Players, k \in Kinds, v \in Positions : Set(p, k, v)

Spec == Init /\ [][Next]_vars

-----------------------------------------------------------------------------
(* Properties.                                                             *)

(* The events on their way from p to q: reported, or passed on.            *)
OnTheWay(p, q) ==
  ToSet(up[p]) \cup {d.event : d \in {d \in ToSet(down[q]) : d.from = p}}

(***************************************************************************)
(* Of every player there is one actor in the map if the mod has a figure   *)
(* of it, and none otherwise: no double and no leftover, whatever comes    *)
(* and goes, changes its form or fails to spawn (puppet_sync).             *)
(***************************************************************************)
FiguresMatch ==
  \A p \in Players, q \in Players :
    figures[p].live[q] = IF q \in figures[p].shown THEN 1 ELSE 0

(***************************************************************************)
(* Nobody is held by a player that holds it no more, unless the report of  *)
(* the put-down is on its way or the carrier has left and the carried one  *)
(* has yet to notice (carry_update); among players that stay in their map. *)
(***************************************************************************)
NobodyHeldForNothing ==
  \A a, b \in Stayers \cap online :
    carry[b].carriedBy = a /\ carry[a].carrying # b =>
      \E e \in OnTheWay(a, b) : e.kind = "CARRY" /\ e.a = b /\ ~e.b

(***************************************************************************)
(* Everybody who was told of the start plays the round the host plays:     *)
(* the same mode, under way or over alike, with the same players found,    *)
(* once nothing about it is on its way (modes.c, relay_event).             *)
(***************************************************************************)
SameRound ==
  \A c \in told \cap online :
    (\A e \in OnTheWay(Host, c) : e.kind # "MODE") =>
      /\ round[c].mode = round[Host].mode
      /\ round[c].running = round[Host].running
      /\ round[c].found = round[Host].found

(***************************************************************************)
(* Damage is pooled: an enemy that still stands before a player who stays  *)
(* has taken every hit anybody dealt it, once, but for those the player    *)
(* has not taken yet (enemy_apply_hit).  Who stays neither walks nor dies: *)
(* a death loads the map anew, and with it the enemies at full strength,   *)
(* which the others' are not.                                              *)
(***************************************************************************)
DamagePooled ==
  \A p \in Stayers \cap online, i \in Ids :
    LET coming == HitsIn([j \in DOMAIN down[p] |-> down[p][j].event], at[p], i)
        unheard == [q \in Players |->
                      IF q = p THEN 0 ELSE HitsIn(up[q], at[p], i)]
    IN enemies[p].hp[i] > 0 =>
         dealt[at[p]][i] = MaxHp - enemies[p].hp[i] + coming
                             + SumFunctionOnSet(unheard, Players)

(***************************************************************************)
(* Deaths are shared.  An enemy that has died on the screen of a player    *)
(* who stays does not stand for long on another's: there it is known to be *)
(* dead, or the news is on its way, or the player who saw it die is to     *)
(* announce it in its next frame.  And only deaths are: what is dead on    *)
(* anybody's screen, wherever it has come from, has taken the hits that    *)
(* kill it, dealt in that map (enemy_sync).                                *)
(***************************************************************************)
DeathsAreShared ==
  \A i \in Ids :
    /\ \A p, q \in Stayers \cap online :
         at[p] = at[q] /\ enemies[p].hp[i] = 0 /\ enemies[q].hp[i] > 0 =>
           \/ i \in enemies[p].listed \ enemies[p].dead
           \/ i \in enemies[q].dead
           \/ \E r \in Players : Event("DEAD", at[q], i, Nobody) \in OnTheWay(r, q)
    /\ \A p \in online :
         i \in enemies[p].dead \/ enemies[p].hp[i] = 0 =>
           dealt[at[p]][i] >= MaxHp

(***************************************************************************)
(* Players that stay have their switches and the phases of their bosses in *)
(* the same position once no setting is on its way, unless one was set     *)
(* while an earlier setting was still on its way to its player: then two   *)
(* settings cross and each of the two ends with the other's.  A load, of   *)
(* the same map too, puts the loader's alone at rest.                      *)
(***************************************************************************)
SwitchesAgree ==
  \A p, q \in Stayers \cap online, k \in Kinds \ crossed :
    (\A r \in Players : \A e \in OnTheWay(r, p) \cup OnTheWay(r, q) : e.kind # k)
      /\ at[p] = at[q] => switches[p][k] = switches[q][k]
=============================================================================

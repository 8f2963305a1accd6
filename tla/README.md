# BanjoCoop in TLA+

A formal model of BanjoCoop, the cooperative mod for Banjo: Recompiled: what the
mod and its native transport do with shared state, checked with TLC on small
instances and, where it is a matter of safety, mostly proved with TLAPS for
every size. Paths are
relative to the repository root; C files of the mod are in `src/mod/`, C++ files
of the native library in `src/native/`.

1. [The system](#the-system)
2. [Modules](#modules)
3. [Runs](#runs)
4. [Fairness](#fairness)
5. [Proofs](#proofs)
6. [What the code does otherwise than its comments
   say](#what-the-code-does-otherwise-than-its-comments-say)
7. [Not modelled](#not-modelled)
8. [Plan](#plan)

## The system

One player hosts, up to seven others join. Each player runs the game, the mod
inside it (C, hooked into the game) and a native library with one network
thread. Once per frame the mod calls `bcnet_pump` (`mod_abi.cpp`): it hands over
its position, its outgoing events, its object frame and, on the host, the
progression mirror, and takes back the other players' positions, a batch of
events, an object frame and the host's mirror. The host adjudicates; clients
apply what the host sends.

| component | source | state | operations | correct when |
|---|---|---|---|---|
| session and roster | `transport.cpp`, `transport_session.cpp` | status, peer slots, ids by handle, next id | host, join, leave; HELLO, WELCOME, REJECT, PEERS, STATE, connect, disconnect | host and clients agree on who is there and under which id |
| event relay | `transport_events.cpp` | outbox, inbox, registry of collected notes | submit, drain, adjudicate, relay, snapshot of a map | one decision per note, and it reaches everybody it concerns |
| progression mirror | `transport_events.cpp`, `progress.c` | published mirror, received mirror | publish, broadcast, receive, apply | clients converge to the host's progress; nothing is lost |
| object frames | `transport_events.cpp`, `enemy.c` | own frame, received frame, sequence numbers | choose the owner, publish, route, relay, accept | no step back in time; the frames of a map's owner are taken |
| projectiles | `projectile.c` | table of adopted projectiles | publish, adopt, drop | a receiver shows what the owner has |
| network simulator | `netsim.hpp` | packets with a release time | submit, release | reliable packets keep their order and are not lost |
| links | `enet_link.cpp`, `ws_link.cpp` | connections of the library underneath | send, service, disconnect | connects and disconnects are reported once |
| tunnel | `tunnel.cpp` | child process, reader thread, host name | start, stop | stopping it ends both and waits for neither forever |
| ABI | `mod_abi.cpp` | buffers exchanged per frame | pump, host, join, save transfer, chat | nothing is handed over twice or in part |
| save transfer | `mod_abi.cpp`, `transport_events.cpp`, `main.c` | file of the session, mirror | send, store, adopt | the player's own file holds the player's own progress |
| world layer | `world.c`, `world_apply.c`, `world_sync.c` | record of collected notes, outgoing queue, swept map, pending recount | pickup hooks, flag hooks, apply an event, sweep, recount, reset | props, counters, flags and the record agree |
| enemies | `enemy.c`, `tier.c`, `spawn.c`, `boss.c` | ids tracked and dead in the map, phase | report and replay hits and deaths, publish by distance | a fight is the same fight for everybody |
| players | `carry.c`, `modes.c`, `puppet.c`, `revive.c` | who carries whom, round, figures | per-frame logic, events of their own | both sides of an interaction agree; one figure each |
| user interface, mod API | `ui.c`, `ui_panels.c`, `api.c` | panels; copies for other mods | drawing, queries, the lobby, chat | a panel that takes the controller gives it back |

What is hard about it: the two sides of a connection learn of its end separately;
positions travel unreliably beside reliable events and trigger replays; three
mechanisms carry the same fact about a collectible (events, the snapshot, the mirror)
and the game keeps it twice (a bit or prop, and a counter); maps load between frames,
and the same one again at every death; ownership of enemies is computed by each player
alone, from positions that are a round trip old. `PROJECT.json` lists these hazards at
their lines, with the properties that would notice.

## Modules

| module | models |
|---|---|
| `NoteWorld` | operators on one player's game: props, counter, record of notes, and each step of `world_apply` on them. Its record `World` holds the fields of the C globals (`marked` is `s_note_bits`, `swept` is `s_swept_map`, `recount` is the pending recount) and of the game (`alive`, `taken`, `credit`, `cubes`). |
| `NotePlayer` | one such game against any network: any batch, any mirror, in any frame; walking and dying (`Enter` of the same map) |
| `SharedNotes` | the abstract specification: a ledger of notes found and decided, and what players know of it |
| `NoteRelay` | the transport for notes: connecting, ids, claims, adjudication, relay, snapshots on a change of map, loss of a connection. A player's game is its record alone. `up[p]` is the way from p's mod to the host's decision (mod queue, outbox, simulator, link), `down[p]` the way back (simulator, link, inbox); both are ordered because all of it is. |
| `NoteSession` | `NoteRelay` with a `NoteWorld` for each player, its own save file or the host's (`Adopt`), and the progression mirror beside the events |
| `Roster` | the handshake and the position stream as each side sees them, over ENet or a WebSocket; the host's simulator is a queue of its own because WELCOME and REJECT bypass it |
| `ObjectFrames` | who owns the enemies of a map, how frames are routed and which ones are kept |
| `Adopted`, `Projectiles` | a receiver's table of the owner's projectiles, with the game's reuse of markers |
| `Progression` | score bits and item counters of jiggies, honeycombs and tokens, shared by events and mirror |
| `Company` | players, maps and events, for the following five |
| `Figures` | the figures of the other players: the mod's records and the game's actors (`puppet.c`) |
| `Carry` | picking a teammate up, as each of the two sees it (`carry.c`) |
| `Rounds` | races and hide-and-seek, judged by the host (`modes.c`) |
| `Enemies` | strength, deaths and the lists by which deaths are noticed (`enemy.c`) |
| `Switches` | flags of a map, and phases of a boss (`world.c`, `boss.c`) |
| `Adventure` | these five in every player's frame (`banjocoop_frame`), in a session under way: positions heard, events adjudicated and passed on, maps loaded and loaded again, clients leaving |
| `Panels` | the chat and the lobby, as far as they take the controller and start sessions (`ui_panels.c`) |
| `Tunnel` | cloudflared, the thread that reads its output, and `stop()` in its blocking steps (`tunnel.cpp`) |
| `Machine` | one player's machine over sessions and restarts: the frame in three steps with the network thread between them, panels, tunnel, the connection to a host, the two save files and the progress in memory |
| `NotePlayerProofs`, `NoteSessionProofs` (of `NoteRelay`, too), `RosterProofs`, `ObjectFramesProofs` (of `Projectiles`, too), `ProgressionProofs`, `AdventureProofs`, `MachineProofs` | theorems |
| `SeqSetLemmas` | what several proofs need of the data: queues as sets, orders of a set, counting in a sequence, sums, folds, and induction |
| `MC_*` | constants, scenes and symmetry for TLC |

`PROJECT.json` maps each definition to the lines it stands for. One action is
one handler or one frame hook: what the handler calls is inside it. Steps of two
threads of one player interleave at the locks, which the code takes once for
each queue it swaps. A frame takes any prefix of what has arrived, since the
network thread may be ahead or behind; delays and jitter of the simulator are
that same nondeterminism.

Definitions named as mutated forms stand before the definition they are a
mistake in. They are used nowhere in the specification; each shows that some
property would notice that mistake.

How the modules divide the notes: `NotePlayer` lets the network do anything, so
what holds there holds in every session. `NoteRelay` lets games do anything a
game may do to its record, and is shown to implement `SharedNotes`.
`NoteSession` puts them together and is shown to implement `NoteRelay`, so that
what is proved of the relay is true of it with real games.

The modules `Figures` to `Switches`, `Panels` and `Tunnel` are operators over a
record of one player, one operator for each function of the code, like
`NoteWorld`. `Adventure` and `Machine` hold the records as variables and compose
the operators in the order the code calls them. In `Adventure` a frame is one
step, since nothing in it looks at the network twice; in `Machine` it is three,
because the network thread may change the status, the mirror and the stored
save between the pump, the adoption of the save and the panels.

## Runs

Every run finishes within minutes. Deadlock is checked in all of them.

| run | instance | shows |
|---|---|---|
| `note_player` | 3 maps, 2 levels, 3 notes, 1 lost connection | A recorded note stands only where a death has put it back; a note is counted once per record and once for each such return; the counter is of the level being played; the shared total survives leaving a level and coming back. |
| `note_relay` | 1 client that may rejoin, 2 notes in 2 maps, 2 events per frame, ids run out after 2 admissions | Whoever has been seen is caught up, the host misses nothing; batches mix with snapshots of both maps; claims are decided and decided notes arrive; the whole implements `SharedNotes`. |
| `note_session` | host and 1 client with any saves, 1 note, 2 maps of 2 levels | A decided note is gone, on its way or put back by a death; nobody counts it twice on one connection, but for what a save or a death brings; the counter covers what is recorded; the session implements `NoteRelay`. |
| `note_session_converge` | host and 1 client, 1 note gone in the host's save, 1 map; the client may adopt that save | A note gone at the host does not stay in front of a client that stays in the map; who adopts the host's save counts a note once more only if that save had it. |
| `roster` | 2 clients, 3 handles, 2 ids, either link | Both ends agree on a client's id, and rosters agree once the network is quiet. |
| `object_frames` | 3 players, 2 maps, 2 frames each; the host walks | Who stays in a map never steps back in time. |
| `object_frames_fresh` | two walkers | violation, see below |
| `progression` | host and 1 client, 1 object, 4 messages in each channel | No pickup is lost; the host's bits and counters agree; its events count once; what anybody collected is in every score in the end. |
| `progression_twice` | host and 2 clients | violation, see below |
| `projectiles` | 3 shots, a table of 2, 2 markers | A shot is shown once; a receiver's own shots go; what has landed goes, unless the owner's frame is empty. |
| `adventure` | host and 2 clients in 2 maps, one of them walking, dying and leaving; 1 enemy of strength 2, switches of 2 positions | One actor for each figure; nobody is held for nothing; everybody told of a round plays the host's round; damage is pooled and counted once; deaths, and only deaths, are shared; flags of the map and phases agree when no two settings have crossed. |
| `machine` | 1 host to join, 2 messages on their way when a mirror joins them | No session writes the player's own file, but in one order of messages; a panel gives the controller back; stopping the tunnel ends. |

The bounds, and why they are enough:

- `MaxResets`, `MaxPlayers`: connections lost, ids handed out. Ids are never
  taken back (`transport.cpp:216-231`), so `MaxPlayers` bounds the admissions of
  a session in the code too; two or three cover one that leaves, one that comes
  back and one that is refused. In `note_session` the client is admitted once and
  refused after that: a client that comes back is in `note_relay`, a record that is
  dropped while the counter stays in `note_player`, and the theorems about
  `NoteSession` are for any number.
- `MaxClaims`: pickups of one player that are on their way to the host. Two claims
  that race are of two players; each holds one.
- `MaxQueue`, `FrameQueue`, `MaxSim`, `MaxSeq`, `MaxFlight`: length of channels,
  events in a frame, packets in the simulator, frames sent and in flight. Two messages
  in a channel give every order of two kinds of message; no property compares three.
  In `roster` rosters may join a full queue, only positions wait for room, so that no
  announcement is held back by the bound.
- `MaxCount` in `Progression`: a counter stops at 2; 1 and 2 is the difference
  between once and twice.
- `Walkers` in `ObjectFrames`: the players that change maps. `NoStepBack` is
  about the others. The host as the walker is the case in which the owner of a
  map comes and goes and its frames and another's overlap. In `Adventure` they are the
  players whose game loads maps, another one or the same again at a death; one
  client does, so that two players who do neither see another come, go, die and
  leave.
- `Scenes` in `Adventure`: the features used together, and the events that may
  wait on one player's way. Features meet only in the channel and in the
  figures that carrying needs, so each is run alone, the round, the fight
  and the switches once with a player who walks and dies and once with a longer
  channel, figures with such a player, and carrying among players who stay
  (`HeldForSomething` is proved with walkers, too). `MaxHits` is one more than an enemy can take,
  so that a hit may find it dead; `MaxSets` lets a setting meet an earlier one
  and be answered. `HeadStart` 1 tells the head start from what follows it.
- `MaxWire` in `Machine`: two messages when a mirror joins them, so four at
  most; a mirror is found before, between and behind welcome and save. One host
  is joined again and again, which is enough to mistake an old session's mirror
  or save for a new one's; `OwnSaveIsOwn` is proved for any set of hosts.
- `note_relay` and `progression` have one client besides the host because they
  check liveness; their invariants are proved for any number.

Clients are interchangeable in `Roster`, and maps in `ObjectFrames` and
`Adventure` (no definition names one), which makes the symmetry sets sound; no
run that checks a liveness property uses symmetry.

## Fairness

- Frames and network threads are loops without a blocking wait
  (`Transport::run`, `banjocoop_frame`), so a frame that can take what has
  arrived and a service step that can decide a claim are weakly fair. Of a frame
  it is asked that it takes something, or in `Progression` everything: the inbox
  is handed over up to its capacity each frame.
- Positions, object frames and the mirror are sent again and again by a timer.
  Where the channel is unreliable it is asked that of infinitely many, one
  arrives (strong fairness of the receipt); where only the bound of the model
  makes a channel full, that a sender finds room in the end (strong fairness of
  the sending).
- In `Machine` the frame hook is strongly fair: saving, loading and leaving do
  not keep the game from running frames. A player who wants a panel gone presses
  its button again and again. `stop()` runs on as soon as what it waits for has
  happened; a child that was sent SIGTERM terminates, and the thread that reads
  its output then sees the end of it. That cloudflared prints, or ends by itself,
  is not asked.
- Otherwise nothing is asked of the players, of connects, of losses or of the loading of
  a map, except in `note_session_converge`, where a map that is loading is
  loaded in the end.

## Proofs

All of these hold for any sets of players, notes, maps, hosts and messages, and any
bounds, that satisfy the named assumptions of the modules: `PROJECT.json` lists the
theorems with the properties they state. Each proof has the same three parts, an
invariant that holds in the initial states, that every action preserves (one lemma
for each action), and that implies the property. Where an action takes a whole batch,
there is a lemma about one element and one that carries it through the fold.

`SeqSetLemmas`: induction over the numbers up to n and over the subsets of a finite
set, stated of a set of numbers or of subsets instead of a predicate (`Counting`,
`TakingApart`), since no prover here can instantiate a predicate. From them: what a
sum over a set makes of its parts, of a part that changes, and of ones; what a fold
over a sequence keeps; how often something occurs in a queue after `Append`, `Tail`,
`\o` and `SubSeq`.

`NotePlayerProofs`: `TypeCorrect`, `CounterStaysInLevel`, `SharedTotalKept`,
`RecordedNotesStandOnlyAfterDeath` and `OneCountPerRecord`. The first three follow
from `BaseInv`: the props in the map are of that map and not saved (`PropsInv`), and
in a session no recount waits longer than the map takes to load (`RecountInv`), which
is why a connected frame never lowers the counter. The other two need `IInv`, which
adds that the sweep has run for a loaded map of a connected game, and that a map still
loading is not the one swept last unless it is loaded from itself (`SweptInv`), and
that a note is counted at most once for the save, once for being recorded, once for
each record dropped and once for being picked up again (`CreditInv`). A death loads
the map from itself, and nothing sweeps it a second time; the histories `back`
(recorded notes that stood again) and `again` (those picked up again) say what that
costs, and the theorems hold with them, whatever map is loaded. Each step of a frame
has a lemma on the fields it changes; the proof of a frame composes them.

`NoteSessionProofs`, the relay: `TypeCorrect`, `MembersCaughtUp`, `HostCaughtUp`,
`SentIsDecided` and `Refinement`. The invariant `CaughtUp` says what a member may
lack: the notes decided before its first position, outside the map it is seen
in. To be inductive it needs that everything on its way is decided and that a
client that is not a member has nothing on its way that could be lost unnoticed.
`Refinement` maps `ledger` to the registry and `known` to the records, and shows
that every step of the transport is a step of `SharedNotes` or leaves the two
unchanged.

`NoteSessionProofs`, the session: `SessionTypeCorrect`, `SessionRefinesRelay`,
`NoDoubleCollects`, `CountedOnce` and `CounterCoversRecord`. Every step of the session
is shown to be one of the relay or to leave it alone, so the invariant of the relay
comes for free (`SInv` is `IInv` and a part about the games). For that the record the
relay knows has to be the one the game makes (`InStep`), and no frame may record a
note that nobody has found: a mirror holds found notes only, whether published, on its
way or held (`MirrorsFound`), and it does because what is gone from the host's map is
in its save or on record (`HostKnown`). In each game (`Fits`) props, record and save
exclude each other, but for what a death put back (`Sound`), the counter has no note
more often than saves, connections lost, record and pickups after a death allow
(`Within`), and has one for each note of the level on record but for those only a
mirror told of (`Covers`). A game out of the session keeps this with an empty record
(`OutApart`), so it can connect again.

`RosterProofs`: `TypeCorrect`, `SlotsFollowMembers`, `IdsAgree` and `RostersAgree`,
over either link. A peer with an id is connected and greeted and shares it with nobody
(`MembersOnce`), which makes the slots follow the table. For `IdsAgree`, on a
connection both ends hold, the WELCOME comes once, behind the HELLO, and names
the id the host has noted (`HelloAnswered`); a stale end never becomes a current
one because a client without a connection has nothing to read (`Unlinked`). For
`RostersAgree`, a queue is read from its end: its last roster names the slots in use,
and over a link that keeps the order every position behind that roster is of a player
that has a slot (`UpToDate`); a member with no roster on its way has read such a one
(`News`).

`ObjectFramesProofs`: `TypeCorrect` and `NeverStepsBack`; and, about an instance of
`Projectiles`, `ShotsOnce` and `TableTypeCorrect`. What the host sends to a client
that stays in its map is about that map (`SentAboutMap`), and so the frame it holds is
the newest it has kept (`HeldIsNewest`): a second map would start the number from
zero.  A shot is there once because no two entries of the table are for one shot
(`TableInv`). Of the compaction, a fold over the table, this is shown entry by entry:
what is kept of the first i entries comes from them, in their order (`KeptTrace`,
`KeptEntries`); and what is adopted is one entry each for shots that none of the kept
is for (`TakenEntries`).

`ProgressionProofs`: `TypeCorrect`, `NothingIsLost`, `HostCountsItsBits` and
`HostCountsOnce`. Everything that is set, reported, passed on or mirrored was
collected by somebody (`OnlyCollected`), and what the host has reported it has set
(`HostReportsSet`). A frame that takes several events and one mirror is
reduced to sets: which objects an event names, and which the last mirror holds.

`AdventureProofs` proves every property that the run `adventure` checks, with all
features in use at once, any room on the way and any number of players, walking and
dying or not. A frame is taken apart once: the game after each of the events it takes,
and what it reports (`FrameOf`, `InTurn`). Then, each given `Core` (types, figures,
hits counted) and `Routes` (what is on its way is about the map of those who stay, the
host knows where they are, nobody is sent its own events):

- `OneActorPerFigure` and `TypesKept` are parts of `Core`. The figures depend only on
  who is in sight, which may be anything.
- `SwitchesAgreeInTheEnd`: `SwitchesInv` compares where a switch lands once all that is
  on its way to a player has been taken (`Lands`). As long as no settings cross, at
  most one player has settings on their way to the host, these end on its own position,
  and any two of the others land on the same.
- `OneRoundForAll`: for who was told of the start, playing what is on its way
  behind what the host has yet to pass on gives the host's round, and what follows a
  start gives it from any round before (`RoundInv`); the second makes the first true
  of a player who has just been told.
- `DamageIsPooled` and `DeathsShared`: `FightInv` conserves hits. Those the host has
  passed on (`Landed`: dealt, less those in any player's queue) and a player's own are
  those the enemy has taken or will take before that player. It has to speak of all
  maps and of walkers, the dead among them whose enemies stand again at full strength,
  with an inequality, because a death they announce must be `Earned`: behind the hits
  that kill, in every queue.
- `HeldForSomething`: a carrier's last word to one it does not carry is the put-down,
  in its own queue or behind it in the other's (`CarryInv`); for those in different maps
  nothing is left to say, so nothing can revive the hold.

`MachineProofs`: `TypeCorrect` and `OwnSaveIsOwn`. A host sends its save right
behind the welcome (`SaveFollows`), so a client that plays its own file without
another to change to has not had a mirror (`SaveComesFirst`), so the game's progress
is its own (`OwnGame`), but between a mirror and the adoption of the file in the same
frame, when nothing is saved.

Every invariant that a passing run checks is thus a theorem. Only model-checked: the
two runs that expect a violation; and liveness, which is out of the prover's reach:
`ClaimsAreDecided`, `DecidedNotesArrive`, `MirrorConverges`, `Converges`,
`StraysGo`, `GhostsGo`, `ControllerComesBack` and `TunnelStops`.

## What the code does otherwise than its comments say

Two runs expect a violation:

- `object_frames_fresh`: `accept_objects` keeps one counter and starts it from zero
  when a frame is of another MAP (`transport_events.cpp:226-231`). The comment on the
  function says "one counter per sender" (220), and the one inside takes another map
  for another owner, so as not to drop the new owner's frames "until the new one
  happened to overtake the old" (222-225). But a map changes hands without another
  map: its publisher walks out, the player with the next id publishes from its own
  count, and whoever stays drops these frames until that count has overtaken the old
  one. The property is about exactly this: the publisher of the held frame is not in
  the map any more, the sender is the lowest id there, and its frame is newer than all
  the receiver has kept of that sender.
- `progression_twice`: a client applies the last mirror it holds in every frame,
  in both directions (`progress.c:301-323`). A mirror older than an event clears
  the bit that the event has set, and the next event about the same object, from
  a second collector, finds it clear and counts again
  (`world_apply.c:253-256`). The same clearing undoes the player's own pickup
  for up to a second.

Other limits are written into the properties, which hold only because of them:

- `SameRoster` asks less of ENet than of a WebSocket: a relayed position that
  arrives after the roster that dropped its player marks the slot active again.
- `NoStepBack` is about players who stay in their map.
- A death loads the map the player is in (`revive.c:3-6`, `69-76`), and what the mod
  does on an arrival it does for another map only. The sweep returns early
  (`world_sync.c:62-65`), where the comment above it speaks of every arrival:
  "Entering a map spawns its notes fresh, including ones we already know are gone"
  (34). So recorded notes stand again, unless the player's own save or the mirror
  removes them, and can be picked up and counted again. `NoRecordedNoteStands` and
  `NoteGoneOrOnItsWay` except these notes (`back`), `CountedOncePerRecord` and
  `CountedAtMostOnce` allow one more count where one was picked up (`again`). The
  enemies of such a map come back at full strength: those known to be dead are removed
  on sight, since the lists are kept where the map is the same (`enemy.c:405`), but
  the hits the others have taken are gone. Flags and phases are at rest for that
  player alone. So `DamagePooled` and `SwitchesAgree` are about players who neither
  walk nor die, and hold whoever else does. The refinement of the relay survives it,
  checked and proved: the pickup of a recorded note is one more claim, which the host
  drops.
- `enemy.c:60-62` says that there is "no window where two peers both think they own
  something". Each computes it from the positions it has, which are a round trip old:
  two who are in one map and have not heard of each other both own it, and
  `ObjectFrames` lets both publish. No property here says that they agree: once both
  know, that is arithmetic on ids, and before they do not.
- `CounterShowsTotal` says "at least", and excepts notes that only a mirror has told
  of, where `transport_events.cpp:547-548` says that every player's counter shows the
  total of the level. A mirror records and does not count until the next recount, and
  the recount takes the larger of record and save, not their union
  (`world_sync.c:114-117`); what a rejoin counts again makes it more.
- `CountedAtMostOnce` allows one more for each connection lost: `world_reset`
  (`world.c:406-414`) drops the record and leaves the game's counter, so a rejoin
  counts again what the snapshot brings. And one more for a note in a save the player
  has played: a client begins with its own save file, and goes on with it until it
  loads the host's at file select (`docs/symbols.md:771-773`); the counter starts with
  the notes of that save and the record without them, so an event about one counts it
  again.
- `GhostsGo` excepts an empty frame, which `broadcast_objects` does not send
  (`transport_events.cpp:176-178`): the last projectile stays with the receivers
  until something else is published.
- `NobodyHeldForNothing` is about players who stay: a report is passed on to the
  map it was made in, so a carrier that puts its teammate down just behind a door
  may tell nobody, and the teammate stays held. A third player's put-down frees it
  from whoever holds it (`carry_set_carried_by` does not ask who reports). Two who
  pick each other up within a round trip both follow and both carry
  (`carry.c:19-22`), until one of them leaves the map.
- `SameRound` is about players who were told of the start: nobody replays a round to
  a joiner. `modes.c:192` speaks of a start "only when the setting changes"; the
  code starts a round whenever none is running, so a race starts again with the
  host standing at its finish.
- `SwitchesAgree` excepts settings that have crossed: each player keeps the other's,
  for good
  (`transport_events.cpp:566` calls the assignment idempotent, which it is, but not
  commutative). A map's flag is assigned with no look at the receiver's map
  (`world_apply.c:412`), where `world.c:181` says it is for peers in that map.
- `DamagePooled` counts no hit that is lost with the player who dealt it, and
  `DeathsAreShared` is about players who stay: whoever arrives is told of no death,
  and a death announced in the first frame of a map is forgotten by the reset that
  follows it (`enemy.c:520`).
- `FiguresMatch` is about the ordinary and paused game: in the other modes, which
  come with a load of their own, `puppet.c` only drops its records.
- `OwnSaveUntouched` excepts the sessions that `unguarded` marks: the mirror goes to
  every connection, admitted or not (`broadcast_progress`), and where the welcome
  finds one and no stored save, or the host has no readable save, the host's
  progress goes into the player's own game, and the next save writes it to the
  player's own file. `main.c:329` says that file stays untouched. A session hosted
  after one was joined goes on with the file of the joined host.
- `ControllerComesBack` assumes that the lobby is shown: with the option
  `show_lobby` turned off while the lobby is open, nothing closes it.
- `TunnelStops` says nothing of a cloudflared that cannot be executed: on POSIX
  `start` reports success, and only the end of the output tells
  (`tunnel.cpp`). A join code stays on show when cloudflared has died.

## Not modelled

- The wire format and byte order (messages are records), certificates, build and
  packaging, the tests.
- Geometry: where a figure, an enemy or a projectile stands, its animation, and the
  drawing of the panels. With it, `tier.c` (a pure schedule over a frame counter and a
  distance) and `revive.c` (a timer between a death and a position, without a message;
  the load of the map that a death makes is modelled).
- `spawn.c` and the mod API: the one refuses spawns where somebody else owns the
  map's objects, the other copies a frame's state for mods that are not here.
- The flags of the save file: an event sets them as it sets a map's, but they are also
  bits of the mirror, which overwrites a client's, set and clear, in every frame
  (`progress.c:195-197`, `287-293`). An older mirror can therefore undo a flag with no
  event on its way, as it undoes a pickup in `Progression`, and the properties of
  `Switches` do not hold of them.
- Jinjos and level flags, strikes at the last boss, and the list of flags the
  mod leaves out: events of the kinds modelled in `Progression` and `Switches`.
- A client that has left and loads its own save again: `Adopt` is the way to the
  host's file only, and a game out of the session goes on with what it has.
- The limits of the hand-over between the two threads: the inbox and the outgoing
  queue drop what is past their size, and the table of deferred despawns takes
  eight. In the modules these queues are as long as their bounds and a sender waits.
- The chat's log and the race over the table of peers when the host chats. The second
  is undefined behaviour of which no property could hold.
- The Windows half of the tunnel, and the WebSocket library's own threads.

The game itself is external: what it does on a pickup, a map load or an actor's death
is taken from the hooks that observe it and marked external in the map.

## Plan

Done: notes, roster, frames, projectiles and progression; the players' games with
each other; one machine with its saves, panels and tunnel. What would come next:

1. The flags of the save file, with events and mirror as their two writers; jinjos and
   level flags in `Progression` and `Switches`, the strikes in `Enemies`.
2. The hand-over between the threads with its caps, and what is lost when a queue
   is full, with a lossless hand-over as its specification.
3. The channel that `Projectiles` assumes (in order or not at all, of one owner),
   implemented by `ObjectFrames` for the players who stay in the map.
4. The chat's relay, once the code guards the table of peers.

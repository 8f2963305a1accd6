---------------------------- MODULE Progression ----------------------------
(***************************************************************************)
(* Jiggies, empty honeycombs and Mumbo tokens.  A collected one is known   *)
(* by a bit in the score, and counted by an item counter beside it.  Two   *)
(* mechanisms share them: events, which set the bit and, if it was clear,  *)
(* count; and the progression mirror of the host, which in every frame of  *)
(* a client writes the host's bits over the client's, both ways, and does  *)
(* not count.                                                              *)
(*                                                                         *)
(* The session is under way: everybody plays the host's save, from which   *)
(* nothing here has been collected, and nobody comes or goes.  The file    *)
(* progress flags travel in the same mirror; some of them are always set,  *)
(* so the mirror is never refused for being empty.                         *)
(***************************************************************************)
EXTENDS Integers, SequencesExt

CONSTANTS
  Host, Clients,
  Objects,
  MaxCount,   \* bound: a player's count of one object stops there
  MaxQueue    \* bound: messages on their way to or from one player

ASSUME ProgressionAssumption ==
  /\ Host \notin Clients
  /\ MaxCount \in Nat \ {0} /\ MaxQueue \in Nat

Players == {Host} \cup Clients

VARIABLES
  score,      \* score[p]: the objects whose bit is set in p's game
  counted,    \* counted[p][o]: how often o went into p's item counter
  remote,     \* s_remote_jiggy, s_remote_honeycomb, s_remote_token
  standing,   \* standing[p]: the objects in front of p
  up,         \* up[p]: the events of p the host has not seen yet
  down,       \* down[p]: what p's game has not taken yet
  heard,      \* the clients the host has a position of
  published,  \* local_progress_ of the host
  held,       \* held[c]: remote_progress_
  collected   \* history: what has been collected by anybody

vars == <<score, counted, remote, standing, up, down, heard, published, held,
          collected>>

NoMirror == <<>>
Mirrors == {NoMirror} \cup {<<bits>> : bits \in SUBSET Objects}
Messages == [type : {"EVENT", "PROGRESS"}, what : SUBSET Objects]

(* A mutated form: a pickup counts twice.                                  *)
CountTwo(n) == n + 2

OneMore(n) == IF n < MaxCount THEN n + 1 ELSE n
Event(o) == [type |-> "EVENT", what |-> {o}]

TypeOK ==
  /\ score \in [Players -> SUBSET Objects]
  /\ counted \in [Players -> [Objects -> 0 .. MaxCount]]
  /\ remote \in [Players -> SUBSET Objects]
  /\ standing \in [Players -> SUBSET Objects]
  /\ up \in [Players -> Seq(Objects)]
  /\ down \in [Players -> Seq(Messages)]
  /\ heard \in SUBSET Clients
  /\ published \in Mirrors
  /\ held \in [Clients -> Mirrors]
  /\ collected \in SUBSET Objects

Init ==
  /\ score = [p \in Players |-> {}]
  /\ counted = [p \in Players |-> [o \in Objects |-> 0]]
  /\ remote = [p \in Players |-> {}]
  /\ standing = [p \in Players |-> Objects]
  /\ up = [p \in Players |-> <<>>]
  /\ down = [p \in Players |-> <<>>]
  /\ heard = {}
  /\ published = NoMirror
  /\ held = [c \in Clients |-> NoMirror]
  /\ collected = {}

-----------------------------------------------------------------------------
(* The game.                                                               *)

(* A player walks into o.  The game sets the bit and counts; the hook on   *)
(* the setter reports a bit that was clear.                                *)
Collect(p, o) ==
  /\ o \in standing[p]
  /\ Len(up[p]) < MaxQueue
  /\ standing' = [standing EXCEPT ![p] = @ \ {o}]
  /\ score' = [score EXCEPT ![p] = @ \cup {o}]
  /\ counted' = [counted EXCEPT ![p][o] = OneMore(@)]
  /\ up' = IF o \in score[p] THEN up ELSE [up EXCEPT ![p] = Append(@, o)]
  /\ collected' = collected \cup {o}
  /\ UNCHANGED <<remote, down, heard, published, held>>

(* The map is loaded again: what has its bit set does not appear.          *)
LoadMap(p) ==
  /\ standing' = [standing EXCEPT ![p] = Objects \ score[p]]
  /\ UNCHANGED <<score, counted, remote, up, down, heard, published, held,
                 collected>>

-----------------------------------------------------------------------------
(* The frame hook, on the first k messages that have come in.              *)

Taken(p, k) == SubSeq(down[p], 1, k)

EventsIn(msgs) == UNION {m.what : m \in {x \in ToSet(msgs) : x.type = "EVENT"}}

(* The last mirror received, of those in msgs and the one held before.     *)
MirrorAfter(c, msgs) ==
  LET mirrors == {i \in DOMAIN msgs : msgs[i].type = "PROGRESS"}
  IN IF mirrors = {} THEN held[c] ELSE <<msgs[Max(mirrors)].what>>

(* A mutated form: an event always counts.                                 *)
ApplyEventsUnguarded(p, new) ==
  /\ counted' = [counted EXCEPT ![p] =
       [o \in Objects |-> IF o \in new THEN OneMore(@[o]) ELSE @[o]]]
  /\ remote' = [remote EXCEPT ![p] = @ \cup new]
  /\ standing' = [standing EXCEPT ![p] = @ \ remote[p]]

(* A mutated form: an event sets the bit and never counts.                 *)
ApplyEventsUncounted(p, new) ==
  /\ counted' = counted
  /\ remote' = [remote EXCEPT ![p] = @ \cup new]
  /\ standing' = [standing EXCEPT ![p] = @ \ remote[p]]

(* bc_apply_event counts what has its bit clear.  What was known to be     *)
(* collected elsewhere when the actors were last updated is despawned.     *)
ApplyEvents(p, new) ==
  /\ counted' = [counted EXCEPT ![p] =
       [o \in Objects |->
          IF o \in new \ score[p] THEN OneMore(@[o]) ELSE @[o]]]
  /\ remote' = [remote EXCEPT ![p] = @ \cup new]
  /\ standing' = [standing EXCEPT ![p] = @ \ remote[p]]

HostFrame ==
  /\ \E k \in 0 .. Len(down[Host]) :
       LET new == EventsIn(Taken(Host, k)) IN
       /\ ApplyEvents(Host, new)
       /\ score' = [score EXCEPT ![Host] = @ \cup new]
       /\ down' = [down EXCEPT ![Host] = SubSeq(@, k + 1, Len(@))]
  /\ published' = <<score'[Host]>>
  /\ UNCHANGED <<up, heard, held, collected>>

(* A mutated form: the mirror is not applied.                              *)
ClientFrameUnmirrored(c) ==
  /\ \E k \in 0 .. Len(down[c]) :
       LET new == EventsIn(Taken(c, k)) IN
       /\ ApplyEvents(c, new)
       /\ held' = [held EXCEPT ![c] = MirrorAfter(c, Taken(c, k))]
       /\ score' = [score EXCEPT ![c] = @ \cup new]
       /\ down' = [down EXCEPT ![c] = SubSeq(@, k + 1, Len(@))]
  /\ UNCHANGED <<up, heard, published, collected>>

(* progress_apply, after the events: the last mirror received, new or not. *)
ClientFrame(c) ==
  /\ \E k \in 0 .. Len(down[c]) :
       LET new == EventsIn(Taken(c, k)) IN
       /\ ApplyEvents(c, new)
       /\ held' = [held EXCEPT ![c] = MirrorAfter(c, Taken(c, k))]
       /\ score' = [score EXCEPT ![c] =
            IF held'[c] = NoMirror THEN @ \cup new ELSE Head(held'[c])]
       /\ down' = [down EXCEPT ![c] = SubSeq(@, k + 1, Len(@))]
  /\ UNCHANGED <<up, heard, published, collected>>

-----------------------------------------------------------------------------
(* The network threads.                                                    *)

(* The first position of c arrives.                                        *)
HearPosition(c) ==
  /\ c \notin heard
  /\ heard' = heard \cup {c}
  /\ UNCHANGED <<score, counted, remote, standing, up, down, published, held,
                 collected>>

(* A mutated form: the relay is for those with a position, and the host    *)
(* has none in its slots.                                                  *)
AudienceOfPeers(p) == heard \ {p}

(* relay_event: the host's own game, and the peers with a position.        *)
Audience(p) == ({Host} \cup heard) \ {p}

(* adjudicate decides nothing about these, only who hears of them.         *)
Adjudicate(p) ==
  /\ up[p] # <<>>
  /\ \A q \in Audience(p) : Len(down[q]) < MaxQueue
  /\ up' = [up EXCEPT ![p] = Tail(@)]
  /\ down' = [q \in Players |-> IF q \in Audience(p)
                THEN Append(down[q], Event(Head(up[p]))) ELSE down[q]]
  /\ UNCHANGED <<score, counted, remote, standing, heard, published, held,
                 collected>>

(* broadcast_progress, once a second, in the channel of the events, to     *)
(* everybody; a channel that is full in this model is left out.            *)
BroadcastProgress ==
  /\ published # NoMirror
  /\ LET mirror == [type |-> "PROGRESS", what |-> Head(published)]
         to == {c \in Clients : Len(down[c]) < MaxQueue}
     IN down' = [p \in Players |->
                   IF p \in to THEN Append(down[p], mirror) ELSE down[p]]
  /\ UNCHANGED <<score, counted, remote, standing, up, heard, published, held,
                 collected>>

Next ==
  \/ HostFrame \/ BroadcastProgress
  \/ \E c \in Clients : ClientFrame(c) \/ HearPosition(c)
  \/ \E p \in Players :
       \/ Adjudicate(p) \/ LoadMap(p)
       \/ \E o \in Objects : Collect(p, o)

Spec == Init /\ [][Next]_vars
-----------------------------------------------------------------------------
(***************************************************************************)
(* "A client's own pickup still reaches the host as an event first"        *)
(* (progress.c:260): whatever anybody has collected is in the host's save  *)
(* or on its way there, even after a mirror has cleared it where it was    *)
(* collected.                                                              *)
(***************************************************************************)
NothingLost ==
  \A o \in collected :
    \/ o \in score[Host]
    \/ \E p \in Players : o \in ToSet(up[p])
    \/ o \in EventsIn(down[Host])

(***************************************************************************)
(* "Both, guarded on the bit having actually changed" (world_apply.c:253): *)
(* at the host, which applies no mirror, what has its bit set has been     *)
(* counted, and nothing else has.                                          *)
(***************************************************************************)
BitsCountedAtHost ==
  score[Host] = {o \in Objects : counted[Host][o] > 0}

(***************************************************************************)
(* "the guard is what makes a re-delivered event harmless"                 *)
(* (world_apply.c:253-254), or the second of two claims to one object: an  *)
(* event never counts what the player has already counted.                 *)
(***************************************************************************)
Counts(p) == {o \in Objects : counted'[p][o] > counted[p][o]}

HostEventsCountOnce ==
  [][HostFrame => \A o \in Counts(Host) : counted[Host][o] = 0]_vars

EventsCountOnce ==
  [][\A c \in Clients :
       ClientFrame(c) => \A o \in Counts(c) : counted[c][o] = 0]_vars

(***************************************************************************)
(* Fairness: both threads of every player keep going, a frame takes what   *)
(* has come in, and the once-a-second broadcast does not depend on how     *)
(* full a channel is, which only this model bounds.                        *)
(***************************************************************************)
Fairness ==
  /\ WF_vars(HostFrame /\ down'[Host] = <<>>)
  /\ \A c \in Clients :
       /\ WF_vars(ClientFrame(c) /\ down'[c] = <<>>)
       /\ SF_vars(BroadcastProgress /\ down'[c] # down[c])
  /\ \A p \in Players : SF_vars(Adjudicate(p))

FairSpec == Spec /\ Fairness

(***************************************************************************)
(* "Resending the whole thing once a second is self-healing: whatever went *)
(* wrong, the next one fixes it" (progress.c:9-10): what has been          *)
(* collected by anybody is set, in the end for good, in every game, also   *)
(* in one the event was never sent to.                                     *)
(***************************************************************************)
Converges ==
  \A c \in Clients, o \in Objects :
    o \in collected ~> [](o \in score[c])
=============================================================================

-------------------------------- MODULE Machine ------------------------------
(***************************************************************************)
(* One player's machine: the game with its frame hook, the panels in it,   *)
(* the transport with its network thread, the tunnel and the save files,   *)
(* over any number of sessions and restarts.  The hosts it joins are its   *)
(* surroundings.                                                           *)
(*                                                                         *)
(* A frame is three steps of the game thread, between which the network    *)
(* thread may run: bcnet_pump and world_apply; the taking of a host save;  *)
(* the panels, which may host or join.  The network simulator is off.      *)
(***************************************************************************)
EXTENDS Panels, Tunnel, Integers, Sequences

CONSTANTS
  Hosts,     \* the hosts this machine may join
  Own,       \* the progress of this player alone
  NoHost,
  MaxWire    \* bound: messages on their way when a host sends a mirror

ASSUME MachineAssumption ==
  /\ Own \notin Hosts /\ NoHost \notin Hosts \cup {Own}
  /\ MaxWire \in Nat

Progress == {Own} \cup Hosts

VARIABLES
  pc,        \* what the game thread is about to do
  after,     \* what it does once the tunnel is stopped
  inc,       \* what the last bcnet_pump said: connected or not
  panels,
  net,       \* the transport and its connection
  saves,     \* the save files and the game's progress
  tunnel,
  unguarded  \* history: a mirror may have come with no save before it

vars == <<pc, after, inc, panels, net, saves, tunnel, unguarded>>

Statuses ==
  {"OFFLINE", "HOSTING", "CONNECTING", "CONNECTED", "FAILED", "REJECTED"}
Messages == {"WELCOME", "REJECT", "SAVEFILE", "PROGRESS"}

(***************************************************************************)
(* net.link is DOWN (not connected, or the host does not know of it yet),  *)
(* UP once the host has our connection, IN once it has admitted us and OUT *)
(* once it has turned us away.  mirror and pending are remote_progress_    *)
(* and pending_save_name_; no shutdown resets them.  Whose progress is in  *)
(* a file or in the game is a set: a mirror overwrites a part.             *)
(***************************************************************************)
Nets ==
  [status : Statuses, kind : {"NONE", "ENET", "WS"}, host : Hosts \cup {NoHost},
   link : {"DOWN", "UP", "IN", "OUT"}, wire : Seq(Messages),
   mirror : Hosts \cup {NoHost}, pending : BOOLEAN]

Files == [disk : [{"OWN", "HOST"} -> SUBSET Progress],
          file : {"OWN", "HOST"}, game : SUBSET Progress]

MachineTypeOK ==
  /\ pc \in {"GAME", "ADOPT", "PANELS", "KILL", "JOIN", "REAP", "FORK", "OFF"}
  /\ after \in {"FORK", "OFF"}
  /\ inc \in BOOLEAN
  /\ net \in Nets
  /\ saves \in Files
  /\ tunnel \in Tunnels
  /\ unguarded \in BOOLEAN

Unconnected ==
  [status |-> "OFFLINE", kind |-> "NONE", host |-> NoHost, link |-> "DOWN",
   wire |-> <<>>, mirror |-> NoHost, pending |-> FALSE]

(* Transport::shutdown: it keeps the mirror and the name of a save.        *)
Shut(n) ==
  [Unconnected EXCEPT !.mirror = n.mirror, !.pending = n.pending]

(* host, host_ws: shutdown first; the port may be taken.                   *)
Hosting(n, kind) ==
  {Shut(n), [Shut(n) EXCEPT !.status = "HOSTING", !.kind = kind]}

(* join, join_ws: shutdown first; the address may be no good.              *)
Joining(n, kind) ==
  {Shut(n)} \cup {[Shut(n) EXCEPT !.status = "CONNECTING", !.kind = kind,
                                  !.host = h] : h \in Hosts}

(* What the player asks of the transport, in the lobby or by the options   *)
(* of banjocoop_start; a tunnel is started once the WebSocket host is up.  *)
Ask(asks) ==
  /\ net' \in CASE asks = "NOTHING"     -> {net}
                [] asks = "HOST"        -> Hosting(net, "ENET")
                [] asks = "HOST_TUNNEL" -> Hosting(net, "WS")
                [] asks = "JOIN"        -> Joining(net, "ENET")
                [] asks = "JOIN_TUNNEL" -> Joining(net, "WS")
  /\ IF asks = "HOST_TUNNEL" /\ net'.status = "HOSTING"
       THEN pc' = "KILL" /\ after' = "FORK"
       ELSE pc' = "GAME" /\ UNCHANGED after

Init ==
  /\ pc = "OFF" /\ after = "OFF" /\ inc = FALSE
  /\ panels = Closed /\ net = Unconnected /\ tunnel = NoTunnel
  /\ saves = [disk |-> [f \in {"OWN", "HOST"} |-> IF f = "OWN" THEN {Own} ELSE {}],
              file |-> "OWN", game |-> {Own}]
  /\ unguarded = FALSE

(* The process starts with the player's own file, and the first frame does *)
(* what the options ask for (banjocoop_start).                             *)
Start(asks) ==
  /\ pc = "OFF"
  /\ Ask(asks)
  /\ saves' = [saves EXCEPT !.file = "OWN", !.game = saves.disk["OWN"]]
  /\ UNCHANGED <<inc, panels, tunnel, unguarded>>

(***************************************************************************)
(* The frame.  bcnet_pump takes the snapshot; a client brings its game     *)
(* into line with the mirror in it (world_apply, progress_apply).          *)
(***************************************************************************)
FrameBegin ==
  /\ pc = "GAME"
  /\ pc' = "ADOPT"
  /\ inc' = (net.status \in {"HOSTING", "CONNECTED"})
  /\ saves' = [saves EXCEPT !.game =
       IF net.status = "CONNECTED" /\ net.mirror # NoHost
         THEN @ \cup {net.mirror} ELSE @]
  /\ UNCHANGED <<after, panels, net, tunnel, unguarded>>

(* bcnet_take_host_save, connected or not, and recomp_change_save_file,    *)
(* which may or may not replace the progress the game has in memory.       *)
Adopt ==
  /\ pc = "ADOPT"
  /\ pc' = "PANELS"
  /\ IF net.pending
       THEN \E game \in {saves.game, saves.disk["HOST"]} :
              saves' = [saves EXCEPT !.file = "HOST", !.game = game]
       ELSE UNCHANGED saves
  /\ net' = [net EXCEPT !.pending = FALSE]
  /\ UNCHANGED <<after, inc, panels, tunnel, unguarded>>

(* ui_panels_update; lobby is the option show_lobby, tunnelled the option  *)
(* connection.                                                             *)
PanelsUpdate(keys, lobby, tunnelled) ==
  /\ pc = "PANELS"
  /\ LET u == ChatUpdate(panels, inc, keys)
         l == IF lobby THEN LobbyUpdate(u, inc, keys, tunnelled, tunnel.code)
                       ELSE Quiet(u)
     IN panels' = l.panels /\ Ask(l.asks)
  /\ UNCHANGED <<inc, saves, tunnel, unguarded>>

(* The game, between two frames: it saves, a file is loaded, it is left.   *)
SaveGame ==
  /\ pc = "GAME"
  /\ saves' = [saves EXCEPT !.disk[saves.file] = saves.game]
  /\ UNCHANGED <<pc, after, inc, panels, net, tunnel, unguarded>>

LoadGame ==
  /\ pc = "GAME"
  /\ saves' = [saves EXCEPT !.game = saves.disk[saves.file]]
  /\ UNCHANGED <<pc, after, inc, panels, net, tunnel, unguarded>>

Quit ==
  /\ pc = "GAME"
  /\ pc' = "KILL" /\ after' = "OFF"
  /\ inc' = FALSE /\ panels' = Closed /\ net' = Unconnected
  /\ UNCHANGED <<saves, tunnel, unguarded>>

(***************************************************************************)
(* TunnelProcess::stop, step by step, in start or in the destructor; then  *)
(* the process is forked (or cannot be, and the host is shut down), or the *)
(* game has ended.                                                         *)
(***************************************************************************)
Kill ==
  /\ pc = "KILL"
  /\ pc' = "JOIN" /\ tunnel' = Killed(tunnel)
  /\ UNCHANGED <<after, inc, panels, net, saves, unguarded>>

Join ==
  /\ pc = "JOIN" /\ CanJoin(tunnel)
  /\ pc' = "REAP" /\ tunnel' = Joined(tunnel)
  /\ UNCHANGED <<after, inc, panels, net, saves, unguarded>>

Reap ==
  /\ pc = "REAP" /\ CanReap(tunnel)
  /\ pc' = after /\ tunnel' = Reaped(tunnel)
  /\ UNCHANGED <<after, inc, panels, net, saves, unguarded>>

Fork ==
  /\ pc = "FORK"
  /\ pc' = "GAME"
  /\ \/ tunnel' = Started /\ UNCHANGED net
     \/ net' = Shut(net) /\ UNCHANGED tunnel
  /\ UNCHANGED <<after, inc, panels, saves, unguarded>>

(* cloudflared and the thread that reads its output.                       *)
Prints  == CanPrint(tunnel) /\ tunnel' = Printed(tunnel)
Dies    == CanDie(tunnel) /\ tunnel' = Dead(tunnel)
EndsReading == CanEnd(tunnel) /\ tunnel' = Ended(tunnel)

TunnelStep ==
  /\ Prints \/ Dies \/ EndsReading
  /\ UNCHANGED <<pc, after, inc, panels, net, saves, unguarded>>

(***************************************************************************)
(* The network thread of a client and the host at the other end.  The      *)
(* WebSocket library connects again by itself after a loss.                *)
(***************************************************************************)
LinkUp ==
  /\ net.link = "DOWN"
  /\ \/ net.status = "CONNECTING"
     \/ net.status \in {"FAILED", "REJECTED"} /\ net.kind = "WS"
  /\ net' = [net EXCEPT !.link = "UP"]
  /\ UNCHANGED unguarded

(* broadcast_progress reaches every connection, admitted or not.           *)
HostMirrors ==
  /\ net.link \in {"UP", "IN"} /\ Len(net.wire) < MaxWire
  /\ net' = [net EXCEPT !.wire = Append(@, "PROGRESS")]
  /\ UNCHANGED unguarded

(* A mutated form: the mirror goes out before the save.                    *)
MirrorFirst(save) == <<"WELCOME", "PROGRESS">> \o save

(* The answer to a HELLO that is accepted: the save file follows at once.  *)
Admission(save) == <<"WELCOME">> \o save

(* The host may have no save file that it can read, or one too large.      *)
HostAdmits(readable) ==
  /\ net.link = "UP"
  /\ net' = [net EXCEPT !.link = "IN",
       !.wire = @ \o Admission(IF readable THEN <<"SAVEFILE">> ELSE <<>>)]
  /\ unguarded' = (unguarded \/ ~readable)

HostRejects ==
  /\ net.link = "UP"
  /\ net' = [net EXCEPT !.link = "OUT", !.wire = Append(@, "REJECT")]
  /\ UNCHANGED unguarded

(***************************************************************************)
(* service_client takes a message.  store_save_file may find no directory  *)
(* to write in.  A mirror that is here before the welcome is the one case  *)
(* in which nothing holds it back from the player's own game.              *)
(***************************************************************************)
Receive(stored) ==
  /\ net.wire # <<>>
  /\ LET m == Head(net.wire)
         n == [net EXCEPT !.wire = Tail(@)]
     IN /\ net' = CASE m = "WELCOME"  -> [n EXCEPT !.status = "CONNECTED"]
                    [] m = "REJECT"   -> [n EXCEPT !.status = "REJECTED"]
                    [] m = "SAVEFILE" -> [n EXCEPT !.pending = @ \/ stored]
                    [] m = "PROGRESS" -> [n EXCEPT !.mirror = n.host]
        /\ saves' = IF m = "SAVEFILE" /\ stored
                      THEN [saves EXCEPT !.disk["HOST"] = {net.host}] ELSE saves
        /\ unguarded' = \/ unguarded
                        \/ m = "SAVEFILE" /\ ~stored
                        \/ /\ m = "WELCOME" /\ net.mirror # NoHost
                           /\ saves.file = "OWN" /\ ~net.pending

(* The connection fails or is closed.                                      *)
Lose ==
  /\ net.status \notin {"OFFLINE", "HOSTING"}
  /\ net.link # "DOWN" \/ net.status = "CONNECTING"
  /\ net' = [net EXCEPT !.link = "DOWN", !.wire = <<>>,
       !.status = IF @ = "REJECTED" THEN @ ELSE "FAILED"]
  /\ UNCHANGED unguarded

NetStep ==
  /\ \/ (LinkUp \/ HostMirrors \/ HostRejects \/ Lose) /\ UNCHANGED saves
     \/ \E r \in BOOLEAN : HostAdmits(r) /\ UNCHANGED saves
     \/ \E r \in BOOLEAN : Receive(r)
  /\ UNCHANGED <<pc, after, inc, panels, tunnel>>

Pressed == {{}} \cup {{k} : k \in Keys}

StopStep == Kill \/ Join \/ Reap \/ Fork

FrameStep ==
  \/ FrameBegin
  \/ Adopt
  \/ \E keys \in Pressed, lobby \in BOOLEAN, tunnelled \in BOOLEAN :
       PanelsUpdate(keys, lobby, tunnelled)

Next ==
  \/ \E a \in {"NOTHING", "HOST", "HOST_TUNNEL", "JOIN", "JOIN_TUNNEL"} : Start(a)
  \/ FrameStep
  \/ SaveGame
  \/ LoadGame
  \/ Quit
  \/ StopStep
  \/ TunnelStep
  \/ NetStep

Spec == Init /\ [][Next]_vars

(***************************************************************************)
(* The frame hook runs every frame, whatever else the game does.  A player *)
(* who wants a panel gone presses its button again and again.  A child     *)
(* that is told to terminate does, and its reader then sees the end of its *)
(* output.                                                                 *)
(***************************************************************************)
Fairness ==
  /\ SF_vars(FrameStep)
  /\ \A k \in {"Z", "B"} :
       SF_vars(\E t \in BOOLEAN : PanelsUpdate({k}, TRUE, t))
  /\ WF_vars(StopStep)
  /\ WF_vars(tunnel.child = "TERMINATING" /\ Dies
             /\ UNCHANGED <<pc, after, inc, panels, net, saves, unguarded>>)
  /\ WF_vars(tunnel.child = "ZOMBIE" /\ EndsReading
             /\ UNCHANGED <<pc, after, inc, panels, net, saves, unguarded>>)

FairSpec == Spec /\ Fairness

(***************************************************************************)
(* A player's own save file holds that player's progress and nothing of a  *)
(* host's ("their own save is untouched"), as long as a host's save came   *)
(* before its mirror: whatever is lost, failed, joined again, loaded or    *)
(* saved in between, and although the mirror goes into the game before the *)
(* host's file is adopted in the same frame.                               *)
(***************************************************************************)
OwnSaveUntouched == saves.disk["OWN"] = {Own} \/ unguarded

(***************************************************************************)
(* A panel that has taken the controller gives it back: after its button,  *)
(* or when the connection it is about is lost or there.                    *)
(***************************************************************************)
ControllerComesBack ==
  \A p \in {"CHAT", "LOBBY"} : p \in panels.captures ~> p \notin panels.captures

(***************************************************************************)
(* Whoever stops the tunnel does not wait for its reader or its process    *)
(* forever, and leaves neither.                                            *)
(***************************************************************************)
TunnelStops ==
  pc = "KILL" ~> /\ pc # "KILL"
                 /\ tunnel.child = "NONE" /\ tunnel.reader = "NONE"
=============================================================================

---------------------------- MODULE MachineProofs ----------------------------
(***************************************************************************)
(* Proofs about Machine, for any hosts and any number of messages on their *)
(* way: the player's own save file.                                        *)
(***************************************************************************)
EXTENDS Machine, TLAPS

-----------------------------------------------------------------------------
(* The inductive invariant.                                                *)

(* A host that admits a client sends its save right behind the welcome.    *)
SaveFollows ==
  \A i \in 1 .. Len(net.wire) :
    net.wire[i] = "WELCOME" =>
      i + 1 \in 1 .. Len(net.wire) /\ net.wire[i + 1] = "SAVEFILE"

(* A client that plays its own file, and has no other to change to, is     *)
(* about to receive one, and has no mirror.                                *)
SaveComesFirst ==
  net.status = "CONNECTED" /\ saves.file = "OWN" /\ ~net.pending =>
    net.wire # <<>> /\ Head(net.wire) = "SAVEFILE" /\ net.mirror = NoHost

(* As long as the game plays the player's own file its progress is the     *)
(* player's own, but between a mirror and the adoption of the host's file. *)
OwnGame ==
  saves.file = "OWN" /\ ~(pc = "ADOPT" /\ net.pending) => saves.game = {Own}

Guarded == SaveFollows /\ SaveComesFirst /\ OwnGame /\ saves.disk["OWN"] = {Own}

(* A game that has been left, or is being left, has no connection.         *)
Left ==
  pc = "OFF" \/ (pc \in {"KILL", "JOIN", "REAP"} /\ after = "OFF") =>
    net = Unconnected

(* Whoever takes part in a session as a client knows whose it is.          *)
HasHost ==
  /\ net.status \notin {"OFFLINE", "HOSTING"} => net.host \in Hosts
  /\ net.link # "DOWN" \/ net.wire # <<>> => net.status \notin {"OFFLINE", "HOSTING"}

IInv == MachineTypeOK /\ HasHost /\ Left /\ (Guarded \/ unguarded)

USE MachineAssumption

LEMMA UnconnectedType == Unconnected \in Nets
<1>1. <<>> \in Seq(Messages)
  OBVIOUS
<1> QED BY <1>1 DEF Unconnected, Nets, Statuses

LEMMA InitIInv == Init => IInv
<1> SUFFICES ASSUME Init PROVE IInv
  OBVIOUS
<1>1. MachineTypeOK
  <2>1. NoTunnel \in Tunnels
    BY DEF NoTunnel, Tunnels
  <2>2. saves \in Files
    BY DEF Init, Files, Progress
  <2> QED BY <2>1, <2>2, UnconnectedType DEF Init, MachineTypeOK
<1>2. Left /\ HasHost
  BY DEF Init, Left, HasHost, Unconnected
<1>3. Guarded
  BY DEF Init, Guarded, SaveFollows, SaveComesFirst, OwnGame, Unconnected
<1> QED BY <1>1, <1>2, <1>3 DEF IInv

-----------------------------------------------------------------------------
(* The game thread.                                                        *)

(* The lobby asks for nothing the options could not ask for.               *)
Requests == {"NOTHING", "HOST", "HOST_TUNNEL", "JOIN", "JOIN_TUNNEL"}

LEMMA LobbyAsks ==
  ASSUME NEW u, NEW connected, NEW keys, NEW t, NEW code
  PROVE  LobbyUpdate(u, connected, keys, t, code).asks \in Requests
BY DEF LobbyUpdate, Quiet, Requests

(* Whatever is asked, the transport is left alone or begins afresh, and    *)
(* then it keeps its mirror and the name of a save.                        *)
LEMMA Asked ==
  ASSUME MachineTypeOK, NEW asks \in Requests, Ask(asks)
  PROVE  /\ \/ net' = net
            \/ /\ net'.status \in {"OFFLINE", "HOSTING", "CONNECTING"}
               /\ net'.kind \in {"NONE", "ENET", "WS"}
               /\ net'.host \in Hosts \cup {NoHost}
               /\ net'.status = "CONNECTING" => net'.host \in Hosts
               /\ net' = [status |-> net'.status, kind |-> net'.kind,
                          host |-> net'.host, link |-> "DOWN", wire |-> <<>>,
                          mirror |-> net.mirror, pending |-> net.pending]
         /\ \/ pc' = "KILL" /\ after' = "FORK"
            \/ pc' = "GAME" /\ after' = after
<1>1. net' = net \/ (\E k \in {"ENET", "WS"} : net' \in Hosting(net, k) \cup Joining(net, k))
  BY DEF Ask, Requests
<1>2. ASSUME NEW k \in {"ENET", "WS"}, net' \in Hosting(net, k) \cup Joining(net, k)
      PROVE  /\ net'.status \in {"OFFLINE", "HOSTING", "CONNECTING"}
             /\ net'.kind \in {"NONE", "ENET", "WS"}
             /\ net'.host \in Hosts \cup {NoHost}
             /\ net'.status = "CONNECTING" => net'.host \in Hosts
             /\ net' = [status |-> net'.status, kind |-> net'.kind,
                        host |-> net'.host, link |-> "DOWN", wire |-> <<>>,
                        mirror |-> net.mirror, pending |-> net.pending]
  BY <1>2 DEF Hosting, Joining, Shut, Unconnected
<1>3. \/ pc' = "KILL" /\ after' = "FORK"
      \/ pc' = "GAME" /\ after' = after
  BY DEF Ask
<1> QED BY <1>1, <1>2, <1>3

LEMMA AskedHasHost ==
  ASSUME MachineTypeOK, HasHost, NEW asks \in Requests, Ask(asks)
  PROVE  HasHost'
<1>1. CASE net' = net
  BY <1>1 DEF HasHost
<1>2. CASE net' # net
  <2>1. /\ net'.status \in {"OFFLINE", "HOSTING", "CONNECTING"}
        /\ net'.status = "CONNECTING" => net'.host \in Hosts
        /\ net'.link = "DOWN" /\ net'.wire = <<>>
    BY <1>2, Asked
  <2> QED BY <2>1 DEF HasHost
<1> QED BY <1>1, <1>2

LEMMA AskedTypes ==
  ASSUME MachineTypeOK, NEW asks \in Requests, Ask(asks),
         saves' \in Files,
         UNCHANGED <<inc, tunnel, unguarded>>
  PROVE  MachineTypeOK'
<1>1. net' \in Nets
  <2>1. CASE net' = net
    BY <2>1 DEF MachineTypeOK
  <2>2. CASE net' # net
    <3>1. /\ net.mirror \in Hosts \cup {NoHost} /\ net.pending \in BOOLEAN
          /\ <<>> \in Seq(Messages)
      BY DEF MachineTypeOK, Nets
    <3>2. PICK st \in {"OFFLINE", "HOSTING", "CONNECTING"},
               kind \in {"NONE", "ENET", "WS"}, host \in Hosts \cup {NoHost} :
            net' = [status |-> st, kind |-> kind, host |-> host, link |-> "DOWN",
                    wire |-> <<>>, mirror |-> net.mirror, pending |-> net.pending]
      BY <2>2, Asked
    <3> QED BY <3>1, <3>2 DEF Nets, Statuses
  <2> QED BY <2>1, <2>2
<1>2. pc' \in {"KILL", "GAME"} /\ after' \in {"FORK", "OFF"}
  BY Asked DEF MachineTypeOK
<1> QED BY <1>1, <1>2 DEF MachineTypeOK

LEMMA StartIInv ==
  ASSUME IInv, NEW asks \in Requests, Start(asks)
  PROVE  IInv'
<1> USE DEF IInv
<1>1. net = Unconnected /\ Ask(asks)
  BY DEF Start, Left
<1>2. /\ saves'.disk = saves.disk /\ saves'.file = "OWN"
      /\ saves'.game = saves.disk["OWN"]
      /\ saves' \in Files
      /\ UNCHANGED <<inc, tunnel, unguarded>>
  BY DEF Start, MachineTypeOK, Files
<1>3. MachineTypeOK'
  BY <1>1, <1>2, AskedTypes
<1>4. Left' /\ HasHost'
  BY <1>1, Asked, AskedHasHost DEF Left
<1>5. ASSUME Guarded PROVE Guarded'
  <2>1. net'.wire = <<>> /\ net'.status # "CONNECTED"
    BY <1>1, Asked DEF Unconnected
  <2> QED BY <1>2, <1>5, <2>1 DEF Guarded, SaveFollows, SaveComesFirst, OwnGame
<1> QED BY <1>2, <1>3, <1>4, <1>5

LEMMA FrameBeginIInv ==
  ASSUME IInv, FrameBegin
  PROVE  IInv'
<1> USE DEF IInv
<1>1. /\ saves'.disk = saves.disk /\ saves'.file = saves.file
      /\ saves'.game = IF net.status = "CONNECTED" /\ net.mirror # NoHost
                         THEN saves.game \cup {net.mirror} ELSE saves.game
      /\ net' = net /\ pc = "GAME" /\ pc' = "ADOPT"
      /\ UNCHANGED <<after, panels, tunnel, unguarded>>
  BY DEF FrameBegin, MachineTypeOK, Files
<1>2. MachineTypeOK'
  BY DEF FrameBegin, MachineTypeOK, Nets, Files, Progress
<1>3. Left' /\ HasHost'
  BY <1>1 DEF Left, HasHost
<1>4. ASSUME Guarded PROVE Guarded'
  BY <1>1, <1>4 DEF Guarded, SaveFollows, SaveComesFirst, OwnGame
<1> QED BY <1>1, <1>2, <1>3, <1>4

LEMMA AdoptIInv ==
  ASSUME IInv, Adopt
  PROVE  IInv'
<1> USE DEF IInv
<1>1. /\ net' = [net EXCEPT !.pending = FALSE]
      /\ pc = "ADOPT" /\ pc' = "PANELS"
      /\ UNCHANGED <<after, inc, panels, tunnel, unguarded>>
  BY DEF Adopt
<1>2. /\ saves'.disk = saves.disk
      /\ IF net.pending THEN saves'.file = "HOST" ELSE saves' = saves
      /\ saves' \in Files
  BY DEF Adopt, MachineTypeOK, Files
<1>3. MachineTypeOK'
  BY <1>1, <1>2 DEF MachineTypeOK, Nets
<1>4. Left' /\ HasHost'
  BY <1>1 DEF Left, HasHost, MachineTypeOK, Nets
<1>5. ASSUME Guarded PROVE Guarded'
  <2>1. net'.wire = net.wire /\ net'.status = net.status /\ net'.mirror = net.mirror
    BY <1>1 DEF MachineTypeOK, Nets
  <2>2. SaveFollows'
    BY <1>5, <2>1 DEF Guarded, SaveFollows
  <2>3. SaveComesFirst'
    BY <1>2, <1>5, <2>1 DEF Guarded, SaveComesFirst
  <2>4. OwnGame'
    BY <1>1, <1>2, <1>5 DEF Guarded, OwnGame
  <2> QED BY <1>2, <1>5, <2>2, <2>3, <2>4 DEF Guarded
<1> QED BY <1>1, <1>3, <1>4, <1>5

LEMMA PanelsIInv ==
  ASSUME IInv, NEW keys, NEW lobby, NEW t, PanelsUpdate(keys, lobby, t)
  PROVE  IInv'
<1> USE DEF IInv
<1>1. PICK asks \in Requests : Ask(asks)
  <2> DEFINE u == ChatUpdate(panels, inc, keys)
             l == IF lobby THEN LobbyUpdate(u, inc, keys, t, tunnel.code)
                           ELSE Quiet(u)
  <2>1. Ask(l.asks)
    BY DEF PanelsUpdate
  <2>2. l.asks \in Requests
    BY LobbyAsks DEF Quiet, Requests
  <2> QED BY <2>1, <2>2
<1>2. pc = "PANELS" /\ UNCHANGED <<inc, saves, tunnel, unguarded>>
  BY DEF PanelsUpdate
<1>3. MachineTypeOK'
  BY <1>1, <1>2, AskedTypes DEF MachineTypeOK
<1>4. /\ pc' = "GAME" \/ (pc' = "KILL" /\ after' = "FORK")
      /\ net' = net \/ (net'.wire = <<>> /\ net'.status # "CONNECTED")
      /\ net'.pending = net.pending
  BY <1>1, Asked
<1>5. Left' /\ HasHost'
  BY <1>1, <1>4, AskedHasHost DEF Left
<1>6. ASSUME Guarded PROVE Guarded'
  BY <1>2, <1>4, <1>6 DEF Guarded, SaveFollows, SaveComesFirst, OwnGame
<1> QED BY <1>2, <1>3, <1>5, <1>6

LEMMA FilesIInv ==
  ASSUME IInv, SaveGame \/ LoadGame
  PROVE  IInv'
<1> USE DEF IInv
<1>1. /\ pc = "GAME" /\ saves'.file = saves.file
      /\ UNCHANGED <<pc, after, inc, panels, net, tunnel, unguarded>>
      /\ \/ /\ saves'.game = saves.game
            /\ saves'.disk = [saves.disk EXCEPT ![saves.file] = saves.game]
         \/ saves'.game = saves.disk[saves.file] /\ saves'.disk = saves.disk
  BY DEF SaveGame, LoadGame, MachineTypeOK, Files
<1>2. MachineTypeOK'
  BY DEF SaveGame, LoadGame, MachineTypeOK, Files
<1>3. Left' /\ HasHost'
  BY <1>1 DEF Left, HasHost
<1>4. ASSUME Guarded PROVE Guarded'
  BY <1>1, <1>4 DEF Guarded, SaveFollows, SaveComesFirst, OwnGame, MachineTypeOK, Files
<1> QED BY <1>1, <1>2, <1>3, <1>4

LEMMA QuitIInv ==
  ASSUME IInv, Quit
  PROVE  IInv'
<1> USE DEF IInv
<1>1. MachineTypeOK'
  BY UnconnectedType DEF Quit, MachineTypeOK
<1>2. Left' /\ HasHost'
  BY DEF Quit, Left, HasHost, Unconnected
<1>3. ASSUME Guarded PROVE Guarded'
  BY <1>3 DEF Quit, Guarded, SaveFollows, SaveComesFirst, OwnGame, Unconnected
<1> QED BY <1>1, <1>2, <1>3 DEF Quit

-----------------------------------------------------------------------------
(* The tunnel.  None of its steps touches what the invariant is about but  *)
(* for the types.                                                          *)

LEMMA StopIInv ==
  ASSUME IInv, StopStep
  PROVE  IInv'
<1> USE DEF IInv
<1>1. CASE Kill \/ Join \/ Reap
  <2>1. tunnel' \in Tunnels
    BY <1>1 DEF Kill, Join, Reap, Killed, Joined, Reaped, MachineTypeOK, Tunnels
  <2>2. /\ UNCHANGED <<after, inc, net, saves, unguarded>>
        /\ pc \in {"KILL", "JOIN", "REAP"}
        /\ pc' \in {"JOIN", "REAP"} \/ pc' = after
    BY <1>1 DEF Kill, Join, Reap
  <2>3. MachineTypeOK'
    BY <2>1, <2>2 DEF MachineTypeOK
  <2>4. Left' /\ HasHost'
    BY <2>2 DEF Left, HasHost, MachineTypeOK
  <2>5. ASSUME Guarded PROVE Guarded'
    BY <2>2, <2>5 DEF Guarded, SaveFollows, SaveComesFirst, OwnGame
  <2> QED BY <2>2, <2>3, <2>4, <2>5
<1>2. CASE Fork
  <2>1. /\ UNCHANGED <<after, inc, saves, unguarded>>
        /\ pc = "FORK" /\ pc' = "GAME"
        /\ tunnel' = tunnel \/ tunnel' = Started
        /\ net' = net \/ net' = Shut(net)
    BY <1>2 DEF Fork
  <2>2. Started \in Tunnels
    BY DEF Started, Tunnels
  <2>3. Shut(net) \in Nets
    BY UnconnectedType DEF Shut, MachineTypeOK, Nets
  <2>4. MachineTypeOK'
    BY <2>1, <2>2, <2>3 DEF MachineTypeOK
  <2>5. net' = net \/ (net'.wire = <<>> /\ net'.status = "OFFLINE"
                         /\ net'.link = "DOWN")
    BY <2>1 DEF Shut, Unconnected
  <2>6. Left' /\ HasHost'
    BY <2>1, <2>5 DEF Left, HasHost
  <2>7. ASSUME Guarded PROVE Guarded'
    BY <2>1, <2>5, <2>7 DEF Guarded, SaveFollows, SaveComesFirst, OwnGame
  <2> QED BY <2>1, <2>4, <2>6, <2>7
<1> QED BY <1>1, <1>2 DEF StopStep

LEMMA TunnelIInv ==
  ASSUME IInv, TunnelStep
  PROVE  IInv'
<1> USE DEF IInv
<1>1. tunnel' \in Tunnels
  BY DEF TunnelStep, Prints, Dies, EndsReading, Printed, Dead, Ended,
         MachineTypeOK, Tunnels
<1>2. UNCHANGED <<pc, after, inc, net, saves, unguarded>>
  BY DEF TunnelStep
<1>3. MachineTypeOK' /\ Left' /\ HasHost'
  BY <1>1, <1>2 DEF MachineTypeOK, Left, HasHost
<1>4. ASSUME Guarded PROVE Guarded'
  BY <1>2, <1>4 DEF Guarded, SaveFollows, SaveComesFirst, OwnGame
<1> QED BY <1>2, <1>3, <1>4

-----------------------------------------------------------------------------
(* The network.  Its steps leave the game thread alone, and the files too, *)
(* except when a save is stored.                                           *)

(* Nothing happens on the network of a game that has been left.            *)
LEMMA NetNeedsSession ==
  ASSUME IInv, NetStep
  PROVE  net # Unconnected
<1> SUFFICES ASSUME net = Unconnected PROVE FALSE
  OBVIOUS
<1>1. net.link = "DOWN" /\ net.status = "OFFLINE" /\ net.wire = <<>>
  BY DEF Unconnected
<1>2. ~(LinkUp \/ HostMirrors \/ HostRejects \/ Lose)
  BY <1>1 DEF LinkUp, HostMirrors, HostRejects, Lose
<1>3. \A r \in BOOLEAN : ~HostAdmits(r) /\ ~Receive(r)
  BY <1>1 DEF HostAdmits, Receive
<1> QED BY <1>2, <1>3 DEF NetStep

LEMMA LeftAlone ==
  ASSUME IInv, NetStep, UNCHANGED <<pc, after>>
  PROVE  Left'
BY NetNeedsSession DEF IInv, Left

(* A message at the end that is no welcome changes nothing about the order.*)
LEMMA AppendFollows ==
  ASSUME net \in Nets, SaveFollows, NEW m \in Messages \ {"WELCOME"},
         net'.wire = Append(net.wire, m)
  PROVE  SaveFollows'
<1>1. net.wire \in Seq(Messages)
  BY DEF Nets
<1> QED BY <1>1 DEF SaveFollows

LEMMA Behind ==
  ASSUME NEW S, NEW s \in Seq(S), NEW t \in Seq(S)
  PROVE  /\ Len(s \o t) = Len(s) + Len(t) /\ Len(s) \in Nat
         /\ \A i \in 1 .. Len(s) : (s \o t)[i] = s[i]
         /\ \A i \in 1 .. Len(t) : (s \o t)[Len(s) + i] = t[i]
<1> DEFINE u == s \o t
<1>1. /\ u \in Seq(S) /\ Len(u) = Len(s) + Len(t)
      /\ Len(s) \in Nat /\ Len(t) \in Nat
      /\ \A i \in 1 .. Len(s) : u[i] = s[i]
      /\ \A i \in 1 .. Len(t) : u[i + Len(s)] = t[i]
  OBVIOUS
<1> QED BY <1>1

LEMMA SendIInv ==
  ASSUME IInv, NetStep, UNCHANGED <<pc, after, inc, saves, tunnel>>,
         LinkUp \/ HostMirrors \/ HostRejects
  PROVE  IInv'
<1> USE DEF IInv
<1>1. net \in Nets /\ net.wire \in Seq(Messages)
  BY DEF MachineTypeOK, Nets
<1>2. /\ UNCHANGED unguarded
      /\ net'.status = net.status /\ net'.mirror = net.mirror
      /\ net'.pending = net.pending
      /\ \/ net'.wire = net.wire
         \/ \E m \in {"PROGRESS", "REJECT"} : net'.wire = Append(net.wire, m)
  BY <1>1 DEF LinkUp, HostMirrors, HostRejects, Nets
<1>3. \A m \in {"PROGRESS", "REJECT"} :
        m \in Messages \ {"WELCOME"} /\ Append(net.wire, m) \in Seq(Messages)
  BY <1>1 DEF Messages
<1>4. net' \in Nets
  BY <1>1, <1>3 DEF LinkUp, HostMirrors, HostRejects, Nets
<1>5. MachineTypeOK'
  BY <1>2, <1>4 DEF MachineTypeOK
<1>6. HasHost'
  BY DEF LinkUp, HostMirrors, HostRejects, MachineTypeOK, Nets, HasHost
<1>7. ASSUME Guarded PROVE Guarded'
  <2>1. SaveFollows'
    <3>1. CASE net'.wire = net.wire
      BY <1>7, <3>1 DEF Guarded, SaveFollows
    <3>2. CASE \E m \in {"PROGRESS", "REJECT"} : net'.wire = Append(net.wire, m)
      BY <1>1, <1>3, <1>7, <3>2, AppendFollows DEF Guarded
    <3> QED BY <1>2, <3>1, <3>2
  <2>2. SaveComesFirst'
    BY <1>1, <1>2, <1>7 DEF Guarded, SaveComesFirst
  <2> QED BY <1>2, <1>7, <2>1, <2>2 DEF Guarded, OwnGame
<1> QED BY <1>2, <1>5, <1>7, <1>6, LeftAlone

LEMMA LoseIInv ==
  ASSUME IInv, NetStep, UNCHANGED <<pc, after, inc, saves, tunnel>>, Lose
  PROVE  IInv'
<1> USE DEF IInv
<1>1. /\ UNCHANGED unguarded /\ net'.wire = <<>>
      /\ net'.status \in {"REJECTED", "FAILED"}
      /\ net'.pending = net.pending
      /\ net' \in Nets
  <2>1. <<>> \in Seq(Messages)
    OBVIOUS
  <2> QED BY <2>1 DEF Lose, MachineTypeOK, Nets, Statuses
<1>2. MachineTypeOK'
  BY <1>1 DEF MachineTypeOK
<1>3. HasHost'
  <2>1. net.status \notin {"OFFLINE", "HOSTING"} /\ net'.host = net.host
    BY DEF Lose, MachineTypeOK, Nets
  <2> QED BY <1>1, <2>1 DEF HasHost
<1>4. ASSUME Guarded PROVE Guarded'
  BY <1>1, <1>4 DEF Guarded, SaveFollows, SaveComesFirst, OwnGame
<1> QED BY <1>1, <1>2, <1>4, <1>3, LeftAlone

LEMMA AdmitIInv ==
  ASSUME IInv, NetStep, UNCHANGED <<pc, after, inc, saves, tunnel>>,
         NEW readable \in BOOLEAN, HostAdmits(readable)
  PROVE  IInv'
<1> USE DEF IInv
<1> DEFINE answer == Admission(IF readable THEN <<"SAVEFILE">> ELSE <<>>)
<1>1. net.wire \in Seq(Messages)
  BY DEF MachineTypeOK, Nets
<1>2. /\ net' = [net EXCEPT !.link = "IN", !.wire = net.wire \o answer]
      /\ unguarded' = (unguarded \/ ~readable)
  BY DEF HostAdmits
<1>3. /\ answer \in Seq(Messages)
      /\ readable => Len(answer) = 2 /\ answer[1] = "WELCOME" /\ answer[2] = "SAVEFILE"
  <2>1. /\ <<"WELCOME">> \in Seq(Messages)
        /\ <<"SAVEFILE">> \in Seq(Messages) /\ <<>> \in Seq(Messages)
    BY DEF Messages
  <2> QED BY <2>1 DEF Admission
<1> HIDE DEF answer
<1>4. net.wire \o answer \in Seq(Messages)
  BY <1>1, <1>3
<1>5. net' \in Nets
  BY <1>2, <1>4 DEF MachineTypeOK, Nets
<1>6. MachineTypeOK'
  BY <1>2, <1>5 DEF MachineTypeOK
<1>7. HasHost'
  BY <1>2 DEF HostAdmits, MachineTypeOK, Nets, HasHost
<1>8. ASSUME Guarded, readable PROVE Guarded'
  <2>1. /\ net'.status = net.status /\ net'.mirror = net.mirror
        /\ net'.pending = net.pending
        /\ net'.wire = net.wire \o answer
    BY <1>2 DEF MachineTypeOK, Nets
  <2>2. /\ Len(net'.wire) = Len(net.wire) + 2 /\ Len(net.wire) \in Nat
        /\ \A i \in 1 .. Len(net.wire) : net'.wire[i] = net.wire[i]
        /\ net'.wire[Len(net.wire) + 1] = "WELCOME"
        /\ net'.wire[Len(net.wire) + 2] = "SAVEFILE"
    <3>1. 1 \in 1 .. Len(answer) /\ 2 \in 1 .. Len(answer)
      BY <1>8, <1>3
    <3>2. /\ Len(net.wire \o answer) = Len(net.wire) + Len(answer)
          /\ Len(net.wire) \in Nat
          /\ \A i \in 1 .. Len(net.wire) : (net.wire \o answer)[i] = net.wire[i]
          /\ \A i \in 1 .. Len(answer) :
               (net.wire \o answer)[Len(net.wire) + i] = answer[i]
      BY <1>1, <1>3, Behind
    <3> DEFINE both == net.wire \o answer
    <3>3. both[Len(net.wire) + 1] = "WELCOME" /\ both[Len(net.wire) + 2] = "SAVEFILE"
      BY <1>8, <1>3, <3>1, <3>2
    <3> HIDE DEF both
    <3>4. net'.wire = both /\ Len(both) = Len(net.wire) + 2
      BY <1>8, <1>3, <2>1, <3>2 DEF both
    <3>5. \A i \in 1 .. Len(net.wire) : both[i] = net.wire[i]
      BY <3>2 DEF both
    <3> QED BY <3>2, <3>3, <3>4, <3>5
  <2>3. SaveFollows'
    <3> SUFFICES ASSUME NEW i \in 1 .. Len(net'.wire), net'.wire[i] = "WELCOME"
                 PROVE  i + 1 \in 1 .. Len(net'.wire) /\ net'.wire[i + 1] = "SAVEFILE"
      BY DEF SaveFollows
    <3>1. CASE i \in 1 .. Len(net.wire)
      BY <1>8, <2>2, <3>1 DEF Guarded, SaveFollows
    <3>2. CASE i = Len(net.wire) + 1
      BY <2>2, <3>2
    <3>3. CASE i = Len(net.wire) + 2
      BY <2>2, <3>3
    <3> QED BY <2>2, <3>1, <3>2, <3>3
  <2>4. SaveComesFirst'
    BY <1>1, <1>8, <1>3, <2>1, <2>2 DEF Guarded, SaveComesFirst
  <2> QED BY <1>8, <2>1, <2>3, <2>4 DEF Guarded, OwnGame
<1> QED BY <1>2, <1>6, <1>8, <1>7, LeftAlone

LEMMA ReceiveIInv ==
  ASSUME IInv, NetStep, UNCHANGED <<pc, after, inc, tunnel>>,
         NEW stored \in BOOLEAN, Receive(stored)
  PROVE  IInv'
<1> USE DEF IInv
<1> DEFINE m == Head(net.wire)
<1>1. /\ net.wire \in Seq(Messages) /\ net.wire # <<>>
      /\ m \in Messages /\ Tail(net.wire) \in Seq(Messages)
      /\ Len(net.wire) \in Nat \ {0} /\ m = net.wire[1]
      /\ Len(Tail(net.wire)) = Len(net.wire) - 1
      /\ \A i \in 1 .. Len(net.wire) - 1 : Tail(net.wire)[i] = net.wire[i + 1]
  BY DEF Receive, MachineTypeOK, Nets
<1> HIDE DEF m
<1>2. /\ net'.wire = Tail(net.wire)
      /\ net'.status = CASE m = "WELCOME" -> "CONNECTED"
                         [] m = "REJECT"  -> "REJECTED"
                         [] OTHER         -> net.status
      /\ net'.pending = (net.pending \/ (m = "SAVEFILE" /\ stored))
      /\ net'.mirror = IF m = "PROGRESS" THEN net.host ELSE net.mirror
      /\ net' \in Nets
  BY <1>1 DEF Receive, MachineTypeOK, Nets, Messages, Statuses, m
<1>3. /\ saves'.disk["OWN"] = saves.disk["OWN"]
      /\ saves'.file = saves.file /\ saves'.game = saves.game
      /\ saves' \in Files
  <2>1. saves' = saves \/ saves' = [saves EXCEPT !.disk["HOST"] = {net.host}]
    BY DEF Receive
  <2>2. {net.host} \in SUBSET Progress
    BY <1>1 DEF HasHost, Progress
  <2> QED BY <2>1, <2>2 DEF MachineTypeOK, Files
<1>4. MachineTypeOK'
  <2>1. unguarded' \in BOOLEAN
    BY DEF Receive, MachineTypeOK
  <2> QED BY <1>2, <1>3, <2>1 DEF MachineTypeOK
<1>5. HasHost'
  <2>1. net'.host = net.host /\ net'.link = net.link
    BY <1>1 DEF Receive, MachineTypeOK, Nets, Messages, m
  <2>2. net.status \notin {"OFFLINE", "HOSTING"}
    BY <1>1 DEF HasHost
  <2> QED BY <1>2, <2>1, <2>2 DEF HasHost
<1>6. ASSUME Guarded, ~unguarded' PROVE Guarded'
  <2>1. /\ m = "SAVEFILE" => stored
        /\ m = "WELCOME" => net.mirror = NoHost \/ saves.file # "OWN" \/ net.pending
    BY <1>6 DEF Receive, MachineTypeOK, m
  <2>2. SaveFollows'
    <3> SUFFICES ASSUME NEW i \in 1 .. Len(net'.wire), net'.wire[i] = "WELCOME"
                 PROVE  i + 1 \in 1 .. Len(net'.wire) /\ net'.wire[i + 1] = "SAVEFILE"
      BY DEF SaveFollows
    <3>1. /\ i + 1 \in 1 .. Len(net.wire) /\ i + 1 + 1 \in Int
          /\ net.wire[i + 1] = "WELCOME"
      BY <1>1, <1>2
    <3>2. /\ i + 1 + 1 \in 1 .. Len(net.wire)
          /\ net.wire[i + 1 + 1] = "SAVEFILE"
      BY <1>6, <3>1 DEF Guarded, SaveFollows
    <3> QED BY <1>1, <1>2, <3>1, <3>2
  <2>3. SaveComesFirst'
    <3> SUFFICES ASSUME net'.status = "CONNECTED", saves.file = "OWN", ~net'.pending
                 PROVE  /\ net'.wire # <<>> /\ Head(net'.wire) = "SAVEFILE"
                        /\ net'.mirror = NoHost
      BY <1>3 DEF SaveComesFirst
    <3>1. ~net.pending /\ m # "SAVEFILE"
      BY <1>2, <2>1
    <3>2. m = "WELCOME"
      <4>1. SUFFICES ASSUME m # "WELCOME" PROVE FALSE
        OBVIOUS
      <4>2. net.status = "CONNECTED"
        BY <1>2, <4>1
      <4> QED BY <1>6, <3>1, <4>2 DEF Guarded, SaveComesFirst, m
    <3>3. /\ 1 + 1 \in 1 .. Len(net.wire) /\ net.wire[1 + 1] = "SAVEFILE"
      <4>1. 1 \in 1 .. Len(net.wire) /\ net.wire[1] = "WELCOME"
        BY <1>1, <3>2
      <4>2. SaveFollows
        BY <1>6 DEF Guarded
      <4> QED BY <4>1, <4>2, <1>1 DEF SaveFollows
    <3>4. net'.wire \in Seq(Messages) /\ Len(net'.wire) > 0
          /\ net'.wire[1] = "SAVEFILE"
      BY <1>1, <1>2, <3>3
    <3>5. net'.mirror = NoHost
      BY <1>2, <2>1, <3>1, <3>2
    <3> QED BY <3>4, <3>5
  <2>4. OwnGame'
    BY <1>2, <1>3, <1>6 DEF Guarded, OwnGame
  <2> QED BY <1>3, <1>6, <2>2, <2>3, <2>4 DEF Guarded
<1>7. unguarded => unguarded'
  BY DEF Receive
<1>8. unguarded' \in BOOLEAN
  BY <1>4 DEF MachineTypeOK
<1> QED BY <1>4, <1>5, <1>6, <1>7, <1>8, LeftAlone

LEMMA NetIInv ==
  ASSUME IInv, NetStep
  PROVE  IInv'
<1>1. UNCHANGED <<pc, after, inc, tunnel>>
  BY DEF NetStep
<1>2. CASE (LinkUp \/ HostMirrors \/ HostRejects) /\ UNCHANGED saves
  BY <1>1, <1>2, SendIInv
<1>3. CASE Lose /\ UNCHANGED saves
  BY <1>1, <1>3, LoseIInv
<1>4. CASE \E r \in BOOLEAN : HostAdmits(r) /\ UNCHANGED saves
  BY <1>1, <1>4, AdmitIInv
<1>5. CASE \E r \in BOOLEAN : Receive(r)
  BY <1>1, <1>5, ReceiveIInv
<1> QED BY <1>2, <1>3, <1>4, <1>5 DEF NetStep

-----------------------------------------------------------------------------
(* The theorems.                                                           *)

LEMMA NextIInv == IInv /\ [Next]_vars => IInv'
<1> SUFFICES ASSUME IInv, [Next]_vars PROVE IInv'
  OBVIOUS
<1>1. CASE \E a \in Requests : Start(a)
  BY <1>1, StartIInv
<1>2. CASE FrameStep
  BY <1>2, FrameBeginIInv, AdoptIInv, PanelsIInv DEF FrameStep
<1>3. CASE SaveGame \/ LoadGame
  BY <1>3, FilesIInv
<1>4. CASE Quit
  BY <1>4, QuitIInv
<1>5. CASE StopStep
  BY <1>5, StopIInv
<1>6. CASE TunnelStep
  BY <1>6, TunnelIInv
<1>7. CASE NetStep
  BY <1>7, NetIInv
<1>8. CASE UNCHANGED vars
  BY <1>8 DEF vars, IInv, MachineTypeOK, HasHost, Left, Guarded, SaveFollows,
              SaveComesFirst, OwnGame
<1> QED BY <1>1, <1>2, <1>3, <1>4, <1>5, <1>6, <1>7, <1>8 DEF Next, Requests

LEMMA Invariance == Spec => []IInv
<1> QED BY InitIInv, NextIInv, PTL DEF Spec

(* Every step of the game, its network thread and the tunnel keeps the     *)
(* shape of the records the others read.                                   *)
THEOREM TypeCorrect == Spec => []MachineTypeOK
<1>1. IInv => MachineTypeOK
  BY DEF IInv
<1> QED BY <1>1, Invariance, PTL

(* "Their original save is untouched on disk" (main.c:329), over any       *)
(* number of sessions with any hosts, as long as a host's save has come    *)
(* before its mirror.                                                      *)
THEOREM OwnSaveIsOwn == Spec => []OwnSaveUntouched
<1>1. IInv => OwnSaveUntouched
  BY DEF IInv, Guarded, OwnSaveUntouched
<1> QED BY <1>1, Invariance, PTL
=============================================================================

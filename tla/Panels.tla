-------------------------------- MODULE Panels -------------------------------
(***************************************************************************)
(* The two panels that take the controller from the game (ui_panels.c),    *)
(* as operators over a record u:                                           *)
(*   chat, lobby   whether each is open (s_chat_open, s_lobby_open)        *)
(*   showing       the lobby stays to show a join code (s_showing_code)    *)
(*   shown         it does show it (s_code_shown)                          *)
(*   captures      the panels whose context captures input: the game gets  *)
(*                 none while there is one                                 *)
(* keys are the buttons pressed in this frame.                             *)
(***************************************************************************)
EXTENDS FiniteSets

Keys == {"D_UP", "D_DOWN", "START", "B", "Z"}

Closed == [chat |-> FALSE, lobby |-> FALSE, showing |-> FALSE,
           shown |-> FALSE, captures |-> {}]

CloseChat(u) == [u EXCEPT !.chat = FALSE, !.captures = @ \ {"CHAT"}]

(* A mutated form: a lost connection hides the chat and keeps the input.   *)
ChatKeepingInput(u, connected, keys) ==
  IF ~connected THEN [u EXCEPT !.chat = FALSE]
  ELSE IF u.chat /\ keys \cap {"START", "B"} # {} THEN CloseChat(u)
  ELSE IF ~u.chat /\ "D_UP" \in keys
    THEN [u EXCEPT !.chat = TRUE, !.captures = @ \cup {"CHAT"}] ELSE u

(* chat_update.                                                            *)
ChatUpdate(u, connected, keys) ==
  IF u.chat /\ (~connected \/ keys \cap {"START", "B"} # {}) THEN CloseChat(u)
  ELSE IF ~u.chat /\ connected /\ "D_UP" \in keys
    THEN [u EXCEPT !.chat = TRUE, !.captures = @ \cup {"CHAT"}] ELSE u

(* lobby_close.                                                            *)
CloseLobby(u) ==
  [u EXCEPT !.lobby = FALSE, !.showing = FALSE, !.shown = FALSE,
            !.captures = @ \ {"LOBBY"}]

(* Nothing is asked of the transport.                                      *)
Quiet(u) == [panels |-> u, asks |-> "NOTHING"]

(* The lobby while it shows the join code, or waits for one.               *)
ShowingUpdate(u, keys, code) ==
  IF keys \cap {"Z", "D_DOWN"} # {} THEN CloseLobby(u)
  ELSE [u EXCEPT !.shown = @ \/ code]

(***************************************************************************)
(* lobby_update with the option show_lobby on; tunnel says that the option *)
(* connection is the tunnel, code that there is a join code.  Hosting over *)
(* a tunnel keeps the lobby open, whether it works or not.                 *)
(***************************************************************************)
LobbyUpdate(u, connected, keys, tunnel, code) ==
  IF u.showing THEN Quiet(ShowingUpdate(u, keys, code))
  ELSE IF connected THEN Quiet(IF u.lobby THEN CloseLobby(u) ELSE u)
  ELSE IF ~u.lobby
    THEN Quiet(IF "D_DOWN" \in keys
                 THEN [u EXCEPT !.lobby = TRUE, !.captures = @ \cup {"LOBBY"}]
                 ELSE u)
  ELSE IF "START" \in keys
    THEN IF tunnel
           THEN [panels |-> [u EXCEPT !.showing = TRUE, !.shown = FALSE],
                 asks |-> "HOST_TUNNEL"]
           ELSE [panels |-> CloseLobby(u), asks |-> "HOST"]
  ELSE IF "B" \in keys
    THEN [panels |-> CloseLobby(u),
          asks |-> IF tunnel THEN "JOIN_TUNNEL" ELSE "JOIN"]
  ELSE Quiet(IF "Z" \in keys THEN CloseLobby(u) ELSE u)
=============================================================================

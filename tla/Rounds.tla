------------------------------- MODULE Rounds --------------------------------
(***************************************************************************)
(* Races and hide-and-seek (modes.c), as operators over a record r of one  *)
(* player:                                                                 *)
(*   mode     s_mode                                                       *)
(*   running  s_running                                                    *)
(*   found    the players found (s_found)                                  *)
(*   finish   the map the host stood in at the start (s_finish_map); only  *)
(*            the host has one                                             *)
(*   waited   s_frames, as far as the host counts it: up to HeadStart      *)
(* The host alone starts a round, judges it and ends it; the others do as  *)
(* they are told.  The seeker is always the host.                          *)
(***************************************************************************)
EXTENDS Company

CONSTANT HeadStart   \* MODE_HIDE_HEADSTART_FRAMES

ASSUME RoundsAssumption == HeadStart \in Nat

Modes == {"OFF", "RACE", "HIDE"}

RoundRecords == [mode : Modes, running : BOOLEAN, found : SUBSET Players,
                 finish : Maps \cup {Nobody}, waited : 0 .. HeadStart]

NoRound == [mode |-> "OFF", running |-> FALSE, found |-> {},
            finish |-> Nobody, waited |-> 0]

RoundEvent(what, a) == Event("MODE", Nobody, what, a)

(* A mutated form: those found in the last round stay found.               *)
ApplyModeKeepingFound(r, e) ==
  CASE e.kind = "MODE" /\ e.a = "START" ->
         [r EXCEPT !.mode = e.b, !.running = TRUE, !.waited = 0]
    [] e.kind = "MODE" /\ e.a = "FOUND" -> [r EXCEPT !.found = @ \cup {e.b}]
    [] e.kind = "MODE" /\ e.a = "END" -> [r EXCEPT !.running = FALSE]
    [] OTHER -> r

(* modes_apply.                                                            *)
ModesApply(r, e) ==
  CASE e.kind = "MODE" /\ e.a = "START" ->
         [r EXCEPT !.mode = e.b, !.running = TRUE, !.waited = 0, !.found = {}]
    [] e.kind = "MODE" /\ e.a = "FOUND" -> [r EXCEPT !.found = @ \cup {e.b}]
    [] e.kind = "MODE" /\ e.a = "END" -> [r EXCEPT !.running = FALSE]
    [] OTHER -> r

(* modes_reset, while there is no connection.                              *)
ModesReset(r) == [r EXCEPT !.running = FALSE, !.waited = 0, !.found = {}]

(* The host does to itself what it tells the others.                       *)
Announce(r, says) == [round |-> FoldLeft(ModesApply, r, says), says |-> says]

(* host_judge in a race: whoever is near the finish has won.               *)
JudgeRace(r, near) ==
  Announce(r, IF near = {} THEN <<>> ELSE <<RoundEvent("END", Nobody)>>)

(* host_judge in hide-and-seek, after the head start: the others the host  *)
(* is near to are found, and when nobody remains the round is over.  A     *)
(* player that has left does not remain.                                   *)
JudgeHide(r, others, near) ==
  LET caught == near \ r.found
      ended  == others \subseteq r.found \cup caught
  IN IF r.waited < HeadStart THEN Announce(r, <<>>)
     ELSE Announce(r, SetToSeq({RoundEvent("FOUND", q) : q \in caught})
                      \o IF ended THEN <<RoundEvent("END", Nobody)>>
                         ELSE <<>>)

(***************************************************************************)
(* modes_update on the host, which stands in map while the option is want: *)
(* others are the players it knows of, and near those within touch of the  *)
(* finish in a race, where the host may be one of them, and of the host    *)
(* else.                                                                   *)
(***************************************************************************)
HostRound(r, map, want, others, near) ==
  IF want # "OFF" /\ ~r.running
    THEN Announce([r EXCEPT !.finish = map], <<RoundEvent("START", want)>>)
  ELSE IF want = "OFF" /\ r.running
    THEN Announce(r, <<RoundEvent("END", Nobody)>>)
  ELSE IF ~r.running
    THEN Announce(r, <<>>)
  ELSE LET on == [r EXCEPT !.waited = IF @ < HeadStart THEN @ + 1 ELSE @]
       IN IF r.mode = "RACE" THEN JudgeRace(on, near)
          ELSE JudgeHide(on, others, near)
=============================================================================

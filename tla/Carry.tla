-------------------------------- MODULE Carry --------------------------------
(***************************************************************************)
(* Picking a teammate up (carry.c), as operators over a record c of one    *)
(* player:                                                                 *)
(*   carrying   whom it carries (s_carrying), Nobody if nobody             *)
(*   carriedBy  who carries it (s_carried_by)                              *)
(***************************************************************************)
EXTENDS Company

CarryRecords == [carrying : Players \cup {Nobody},
                 carriedBy : Players \cup {Nobody}]

NoCarry == [carrying |-> Nobody, carriedBy |-> Nobody]

(* The report that q is, or is no longer, carried.                         *)
Report(map, q, on) == Event("CARRY", map, q, on)

(* A mutated form: only the report of a pick-up is taken.                  *)
ApplyPickUp(c, p, from, e) ==
  IF e.kind = "CARRY" /\ e.a = p /\ e.b
    THEN [c EXCEPT !.carriedBy = from] ELSE c

(* An event from a player reaches p: carry_set_carried_by if p is the one  *)
(* it is about.  Nobody asks whether it is the present carrier that says   *)
(* put down.                                                               *)
ApplyCarry(c, p, from, e) ==
  IF e.kind = "CARRY" /\ e.a = p
    THEN [c EXCEPT !.carriedBy = IF e.b THEN from ELSE Nobody] ELSE c

(***************************************************************************)
(* carry_update: what it can make of c, and what it reports, in a frame in *)
(* which hands says that the game has something in the player's hands,     *)
(* here are the players known to be in this map, and reach those of them   *)
(* near enough that have a figure.                                         *)
(*                                                                         *)
(* A carried player follows its carrier and does nothing else, so one that *)
(* carries somebody itself notices a put-down only when it is let down.    *)
(***************************************************************************)
CarryUpdate(c, map, enabled, hands, here, reach) ==
  LET putDown == IF c.carrying = Nobody THEN <<>>
                 ELSE <<Report(map, c.carrying, FALSE)>>
      unchanged == [carry |-> c, says |-> <<>>]
  IN CASE ~enabled -> {[carry |-> NoCarry, says |-> putDown]}
       [] enabled /\ c.carriedBy \in here -> {unchanged}
       [] enabled /\ c.carriedBy \notin here \cup {Nobody} ->
            {[carry |-> [c EXCEPT !.carriedBy = Nobody], says |-> <<>>]}
       [] enabled /\ c.carriedBy = Nobody /\ c.carrying # Nobody ->
            {IF hands THEN unchanged
             ELSE [carry |-> NoCarry, says |-> putDown]}
       [] enabled /\ c = NoCarry ->
            {unchanged} \cup
            {[carry |-> [c EXCEPT !.carrying = q],
              says |-> <<Report(map, q, TRUE)>>] :
                q \in IF hands THEN {} ELSE reach}
=============================================================================

------------------------------- MODULE Company -------------------------------
(***************************************************************************)
(* Who plays together, and where: the vocabulary of the modules about what *)
(* one player's game shows and does with the others (Figures, Carry,       *)
(* Rounds, Enemies, Switches), which Adventure composes.                   *)
(***************************************************************************)
EXTENDS Integers, FiniteSets, SequencesExt

CONSTANTS
  Host, Clients,
  Maps,
  Nobody       \* BCNET_MAX_PLAYERS used as a player, and no map heard of

ASSUME CompanyAssumption ==
  /\ IsFiniteSet(Clients)
  /\ Host \notin Clients
  /\ Nobody \notin Maps \cup Clients \cup {Host}

Players == {Host} \cup Clients

(* A world event.  What a and b are depends on the kind, as in bc_event;   *)
(* the origin is not stored, because it is known where the event comes     *)
(* from: the host stamps it from the connection.                           *)
Event(kind, map, a, b) == [kind |-> kind, map |-> map, a |-> a, b |-> b]
=============================================================================

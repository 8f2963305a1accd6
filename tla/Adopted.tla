------------------------------ MODULE Adopted -------------------------------
(***************************************************************************)
(* The projectiles a player has adopted: the actors its game has for them, *)
(* and the table that says by its marker which of the owner's shots an     *)
(* actor is.                                                               *)
(***************************************************************************)
EXTENDS Integers, SequencesExt

CONSTANTS
  Shots,           \* what the owner's enemies throw, by net id
  Markers,         \* the receiver's markers
  ProjectileMax    \* PROJECTILE_MAX

ASSUME AdoptedAssumption ==
  ProjectileMax \in Nat /\ IsFiniteSet(Shots) /\ IsFiniteSet(Markers)

VARIABLES
  live,     \* the markers of the receiver's projectile actors
  table     \* s_remote_projectiles

Entries == [id : Shots, marker : Markers]

(* find_remote_projectile: the first entry with marker m, if any.          *)
EntryOf(m) ==
  {i \in DOMAIN table :
     table[i].marker = m /\ \A j \in 1 .. i - 1 : table[j].marker # m}

Shown(s) == {m \in live : \E i \in EntryOf(m) : table[i].id = s}

(***************************************************************************)
(* A shot the owner throws once is there at most once for the receiver.    *)
(***************************************************************************)
ShownOnce == \A s \in Shots : Cardinality(Shown(s)) <= 1
=============================================================================

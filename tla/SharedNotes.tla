---------------------------- MODULE SharedNotes ----------------------------
(***************************************************************************)
(* What the session promises about music notes, without connections,       *)
(* queues or packets: one ledger, kept by the host, that only grows and    *)
(* holds only notes somebody picked up; and players whose records catch up *)
(* with the ledger in any order and at any pace.                           *)
(***************************************************************************)
CONSTANTS
  Players,
  Notes

VARIABLES
  found,     \* every note a player has picked up
  ledger,    \* the notes decided by the host
  known      \* known[p]: the notes player p has recorded

vars == <<found, ledger, known>>

(* Players may have found notes before there was a session.                *)
Init ==
  /\ found \in SUBSET Notes
  /\ ledger = {}
  /\ known \in [Players -> SUBSET found]

(* A player picks up notes, one in a session or several before it joins.   *)
Find(p, S) ==
  /\ known' = [known EXCEPT ![p] = @ \cup S]
  /\ found' = found \cup S
  /\ UNCHANGED ledger

(* The host decides a note, once.                                          *)
Decide(n) ==
  /\ n \in found \ ledger
  /\ ledger' = ledger \cup {n}
  /\ UNCHANGED <<found, known>>

(* A player hears of some notes: from the ledger, or of the host's map.    *)
Hear(p, S) ==
  /\ S \subseteq found
  /\ known' = [known EXCEPT ![p] = @ \cup S]
  /\ UNCHANGED <<found, ledger>>

(* A player leaves the session, and with it drops its record.              *)
Forget(p) ==
  /\ known' = [known EXCEPT ![p] = {}]
  /\ UNCHANGED <<found, ledger>>

Next ==
  \/ \E p \in Players, S \in SUBSET Notes : Find(p, S)
  \/ \E n \in Notes : Decide(n)
  \/ \E p \in Players, S \in SUBSET Notes : Hear(p, S)
  \/ \E p \in Players : Forget(p)

Spec == Init /\ [][Next]_vars
=============================================================================

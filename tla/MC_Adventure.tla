---------------------------- MODULE MC_Adventure ----------------------------
(* A host and two clients, of whom one walks, in two maps; the features    *)
(* one at a time, with room for one event each way, or two where a player  *)
(* has two to say in one frame.                                            *)
EXTENDS Adventure

CONSTANTS h, c1, c2, m1, m2, e1, s1, s2, none

Scene(room, uses) == [uses |-> uses, room |-> room]

OneFeature ==
  {Scene(1, {"FIGURES", "WALKING"}), Scene(1, {"CARRYING"}),
   Scene(2, {"PARTY"}), Scene(1, {"PARTY", "WALKING"}),
   Scene(2, {"FIGHT"}), Scene(1, {"FIGHT", "WALKING"}),
   Scene(2, {"MAP"}), Scene(1, {"MAP", "WALKING"}),
   Scene(2, {"PHASE"}), Scene(1, {"PHASE", "WALKING"})}

Symmetry == Permutations(Maps)
=============================================================================

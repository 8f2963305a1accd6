-------------------------- MODULE NotePlayerProofs --------------------------
(***************************************************************************)
(* Proofs about NotePlayer, for any notes, maps, levels and any number of  *)
(* connections lost.                                                       *)
(***************************************************************************)
EXTENDS NotePlayer, SeqSetLemmas

-----------------------------------------------------------------------------
(* The inductive invariant, as what holds of the world between two steps.  *)

(* What stands in the map is of the map and not in the save.               *)
PropsInv ==
  /\ world.alive \subseteq NotesIn(world.map)
  /\ world.alive \cap world.taken = {}
  /\ ~world.cubes => world.alive = {}

(* When the sweep has run: for a map still loading only if it is loaded    *)
(* from itself, always for a loaded map of a connected game.               *)
SweptInv ==
  /\ ~online => world.swept = NoMap /\ world.marked \subseteq world.taken
  /\ online /\ world.cubes => world.swept = world.map
  /\ ~world.cubes => world.swept # world.map \/ NotesIn(world.map) \subseteq back

(* A note is counted for being in the save, for being recorded, for having *)
(* been recorded before the connection was lost, and for being picked up   *)
(* again.                                                                  *)
Marked(n) == IF n \in world.marked THEN 1 ELSE 0
Saved(n) == IF n \in saved THEN 1 ELSE 0
Again(n) == IF n \in again THEN 1 ELSE 0

CreditInv ==
  \A n \in Notes :
    /\ world.credit[n] <= resets + Saved(n) + Marked(n) + Again(n)
    /\ n \in again => n \in world.taken
    /\ n \in world.taken => n \in saved \/ n \in world.marked \/ resets >= 1

(* In a session a recount waits no longer than the map takes to load.      *)
RecountInv == online /\ world.cubes => world.recount = FALSE

(* What the number on the counter needs, and what the record needs besides. *)
BaseInv ==
  /\ TypeOK
  /\ PropsInv
  /\ RecountInv
  /\ CounterIsOfThisLevel

IInv ==
  /\ BaseInv
  /\ SweptInv
  /\ NoRecordedNoteStands
  /\ CreditInv

-----------------------------------------------------------------------------
(* What each step of a frame does to the fields of the world.              *)

LEMMA ApplyEventsFields ==
  ASSUME NEW w \in World, NEW batch \in SUBSET Notes
  PROVE  LET v == ApplyEvents(w, batch) IN
         /\ v \in World
         /\ v.map = w.map /\ v.cubes = w.cubes /\ v.taken = w.taken
         /\ v.swept = w.swept /\ v.recount = w.recount
         /\ v.marked = w.marked \cup batch
         /\ v.alive = w.alive \ batch
         /\ \A n \in Notes :
              \/ v.credit[n] = w.credit[n]
              \/ /\ v.credit[n] = w.credit[n] + 1
                 /\ n \in batch /\ n \notin w.marked
                 /\ LevelOf[MapOf[n]] = LevelOf[w.map]
<1> DEFINE v == ApplyEvents(w, batch)
           counted == (batch \ w.marked) \cap NotesOfLevel(LevelOf[w.map])
           credit == [n \in Notes |-> IF n \in counted THEN w.credit[n] + 1
                                                       ELSE w.credit[n]]
<1>1. v = [w EXCEPT !.marked = w.marked \cup batch, !.credit = credit,
                    !.alive = w.alive \ batch]
  BY Zenon DEF ApplyEvents
<1>2. credit \in [Notes -> Nat]
  BY DEF World
<1>3. \A n \in Notes :
        \/ credit[n] = w.credit[n]
        \/ /\ credit[n] = w.credit[n] + 1
           /\ n \in batch /\ n \notin w.marked
           /\ LevelOf[MapOf[n]] = LevelOf[w.map]
  BY DEF NotesOfLevel
<1> HIDE DEF credit, v
<1>4. /\ v \in World
      /\ v.map = w.map /\ v.cubes = w.cubes /\ v.taken = w.taken
      /\ v.swept = w.swept /\ v.recount = w.recount
      /\ v.marked = w.marked \cup batch
      /\ v.alive = w.alive \ batch
      /\ v.credit = credit
  BY <1>1, <1>2 DEF World
<1> QED BY <1>3, <1>4 DEF v

(* The number on the HUD is a sum over all notes.                          *)
LEMMA CounterIsSum ==
  ASSUME NEW w \in World
  PROVE  /\ Counter(w) = SumFunctionOnSet(w.credit, Notes)
         /\ w.credit \in [Notes -> Nat] /\ Counter(w) \in Nat
<1>1. w.credit \in [Notes -> Nat] /\ DOMAIN w.credit = Notes
  BY DEF World
<1>2. Counter(w) = SumFunctionOnSet(w.credit, DOMAIN w.credit)
  BY DEF Counter, FoldFunction, SumFunctionOnSet
<1>3. SumFunctionOnSet(w.credit, Notes) \in Nat
  <2> DEFINE f == w.credit
  <2>1. f \in [Notes -> Nat] /\ \A n \in Notes : f[n] <= f[n]
    BY <1>1
  <2> HIDE DEF f
  <2>2. SumFunctionOnSet(f, Notes) \in Nat
    BY <2>1, NoteWorldAssumption, SumGrows
  <2> QED BY <2>2 DEF f
<1> QED BY <1>1, <1>2, <1>3

LEMMA CounterGrows ==
  ASSUME NEW w \in World, NEW v \in World,
         \A n \in Notes : w.credit[n] <= v.credit[n]
  PROVE  Counter(w) <= Counter(v)
<1> DEFINE f == w.credit
           g == v.credit
<1>1. f \in [Notes -> Nat] /\ g \in [Notes -> Nat] /\ \A n \in Notes : f[n] <= g[n]
  BY CounterIsSum
<1> HIDE DEF f, g
<1>2. SumFunctionOnSet(f, Notes) <= SumFunctionOnSet(g, Notes)
  BY <1>1, NoteWorldAssumption, SumGrows
<1> QED BY <1>2, CounterIsSum DEF f, g

(* The recorded notes of the level being played, and how many they are.    *)
RecordedHere(w) == w.marked \cap NotesOfLevel(LevelOf[w.map])

LEMMA RecordedHereFinite ==
  ASSUME NEW w \in World
  PROVE  /\ RecordedHere(w) \in SUBSET Notes /\ IsFiniteSet(RecordedHere(w))
         /\ Cardinality(RecordedHere(w)) \in Nat
<1>1. RecordedHere(w) \in SUBSET Notes
  BY DEF RecordedHere, World
<1> QED BY <1>1, NoteWorldAssumption, FS_Subset, FS_CardinalityType

LEMMA RecountFields ==
  ASSUME NEW w \in World
  PROVE  LET v == RunPendingRecount(w) IN
         /\ v \in World /\ v.recount = FALSE
         /\ v.map = w.map /\ v.cubes = w.cubes /\ v.taken = w.taken
         /\ v.swept = w.swept /\ v.marked = w.marked /\ v.alive = w.alive
         /\ Counter(v) >= Counter(w)
         /\ w.recount = TRUE => Counter(v) >= Cardinality(RecordedHere(w))
         /\ \A n \in Notes :
              \/ v.credit[n] = w.credit[n]
              \/ v.credit[n] = 0
              \/ /\ v.credit[n] = 1
                 /\ n \in w.marked
                 /\ LevelOf[MapOf[n]] = LevelOf[w.map]
<1> DEFINE v == RunPendingRecount(w)
           here == RecordedHere(w)
           larger == Cardinality(here) > Counter(w)
           credit == IF larger THEN Once(here) ELSE w.credit
<1>1. here \in SUBSET Notes /\ Cardinality(here) \in Nat /\ Counter(w) \in Nat
  BY RecordedHereFinite, CounterIsSum
<1>2. /\ Once(here) \in [Notes -> Nat]
      /\ \A n \in Notes : Once(here)[n] = IF n \in here THEN 1 ELSE 0
      /\ \A n \in here : n \in w.marked /\ LevelOf[MapOf[n]] = LevelOf[w.map]
  BY DEF Once, RecordedHere, NotesOfLevel
<1>3. credit \in [Notes -> Nat]
  BY <1>2 DEF World
<1>4. /\ w.recount => v = [w EXCEPT !.recount = FALSE, !.credit = credit]
      /\ ~w.recount => v = w
  BY DEF RunPendingRecount, RecordedHere
<1>5. w.recount \in BOOLEAN
  BY DEF World
<1> HIDE DEF v, here, credit, larger
<1>6. CASE w.recount = FALSE
  BY <1>1, <1>4, <1>6 DEF v
<1>7. CASE w.recount = TRUE
  <2>1. /\ v \in World /\ v.recount = FALSE
        /\ v.map = w.map /\ v.cubes = w.cubes /\ v.taken = w.taken
        /\ v.swept = w.swept /\ v.marked = w.marked /\ v.alive = w.alive
        /\ v.credit = credit
    BY <1>3, <1>4, <1>7 DEF World
  <2>2. CASE larger
    <3>1. v.credit = Once(here)
      BY <2>1, <2>2 DEF credit
    <3> DEFINE f == Once(here)
    <3>2. f \in [Notes -> Nat] /\ \A n \in Notes : f[n] = IF n \in here THEN 1 ELSE 0
      BY <1>2
    <3> HIDE DEF f
    <3>3. SumFunctionOnSet(f, Notes) = Cardinality(here)
      BY <1>1, <3>2, NoteWorldAssumption, SumOnes
    <3>4. Counter(v) = Cardinality(here)
      BY <2>1, <3>1, <3>3, CounterIsSum DEF f
    <3>5. Counter(v) >= Counter(w)
      BY <1>1, <2>2, <3>4 DEF larger
    <3> QED BY <1>1, <1>2, <2>1, <3>1, <3>4, <3>5 DEF v, here
  <2>3. CASE ~larger
    <3>1. v.credit = w.credit
      BY <2>1, <2>3 DEF credit
    <3>2. Counter(v) = Counter(w)
      BY <2>1, <3>1, CounterIsSum
    <3>3. Counter(v) >= Cardinality(here)
      BY <1>1, <2>3, <3>2 DEF larger
    <3> QED BY <1>1, <2>1, <3>1, <3>2, <3>3 DEF v, here
  <2> QED BY <2>2, <2>3
<1> QED BY <1>5, <1>6, <1>7

LEMMA SweepFields ==
  ASSUME NEW w \in World
  PROVE  LET v == RunArrivalSweep(w) IN
         /\ v \in World
         /\ v.map = w.map /\ v.cubes = w.cubes /\ v.taken = w.taken
         /\ v.marked = w.marked /\ v.credit = w.credit /\ v.recount = w.recount
         /\ v.swept = IF w.cubes THEN w.map ELSE w.swept
         /\ v.alive \subseteq w.alive
         /\ w.cubes /\ w.map # w.swept => v.alive \cap w.marked = {}
BY DEF RunArrivalSweep, World

LEMMA MirrorFields ==
  ASSUME NEW w \in World, NEW mirror
  PROVE  LET v == MirrorNotes(w, mirror) IN
         /\ v \in World
         /\ v.map = w.map /\ v.cubes = w.cubes /\ v.taken = w.taken
         /\ v.swept = w.swept /\ v.credit = w.credit /\ v.recount = w.recount
         /\ w.marked \subseteq v.marked
         /\ v.alive \subseteq w.alive
         /\ v.alive \cap v.marked \subseteq w.marked
BY DEF MirrorNotes, World, NotesIn

(* One connected frame, from the world w it finds to the world v it leaves. *)
FrameStep(w, v) ==
  /\ v \in World /\ v.recount = FALSE
  /\ Counter(v) >= Counter(w)
  /\ w.recount = TRUE => Counter(v) >= Cardinality(RecordedHere(w))
  /\ v.map = w.map /\ v.cubes = w.cubes /\ v.taken = w.taken
  /\ v.swept = IF w.cubes THEN w.map ELSE w.swept
  /\ w.marked \subseteq v.marked
  /\ v.alive \subseteq w.alive
  /\ v.alive \cap v.marked \subseteq w.marked
  /\ w.cubes /\ w.map # w.swept => v.alive \cap v.marked = {}
  /\ \A n \in Notes :
       \/ v.credit[n] <= w.credit[n]
       \/ /\ LevelOf[MapOf[n]] = LevelOf[w.map]
          /\ n \in v.marked
          /\ \/ v.credit[n] = w.credit[n] + 1 /\ n \notin w.marked
             \/ v.credit[n] = 1

LEMMA FrameFields ==
  ASSUME NEW w \in World, NEW batch \in SUBSET Notes, NEW mirror
  PROVE  FrameStep(w, WorldApply(w, batch, mirror))
<1> DEFINE a == ApplyEvents(w, batch)
           r == RunPendingRecount(a)
           s == RunArrivalSweep(r)
           v == MirrorNotes(s, mirror)
<1>1. /\ a \in World
      /\ a.map = w.map /\ a.cubes = w.cubes /\ a.taken = w.taken
      /\ a.swept = w.swept /\ a.recount = w.recount
      /\ a.marked = w.marked \cup batch
      /\ a.alive = w.alive \ batch
      /\ \A n \in Notes :
           \/ a.credit[n] = w.credit[n]
           \/ /\ a.credit[n] = w.credit[n] + 1
              /\ n \in batch /\ n \notin w.marked
              /\ LevelOf[MapOf[n]] = LevelOf[w.map]
  BY ApplyEventsFields
<1> HIDE DEF a
<1>2. /\ r \in World /\ r.recount = FALSE
      /\ Counter(r) >= Counter(a)
      /\ a.recount = TRUE => Counter(r) >= Cardinality(RecordedHere(a))
      /\ r.map = a.map /\ r.cubes = a.cubes /\ r.taken = a.taken
      /\ r.swept = a.swept /\ r.marked = a.marked /\ r.alive = a.alive
      /\ \A n \in Notes :
           \/ r.credit[n] = a.credit[n]
           \/ r.credit[n] = 0
           \/ /\ r.credit[n] = 1
              /\ n \in a.marked
              /\ LevelOf[MapOf[n]] = LevelOf[a.map]
  BY <1>1, RecountFields
<1> HIDE DEF r
<1>3. /\ s \in World
      /\ s.map = r.map /\ s.cubes = r.cubes /\ s.taken = r.taken
      /\ s.marked = r.marked /\ s.credit = r.credit /\ s.recount = r.recount
      /\ s.swept = IF r.cubes THEN r.map ELSE r.swept
      /\ s.alive \subseteq r.alive
      /\ r.cubes /\ r.map # r.swept => s.alive \cap r.marked = {}
  BY <1>2, SweepFields
<1> HIDE DEF s
<1>4. /\ v \in World
      /\ v.map = s.map /\ v.cubes = s.cubes /\ v.taken = s.taken
      /\ v.swept = s.swept /\ v.credit = s.credit /\ v.recount = s.recount
      /\ s.marked \subseteq v.marked
      /\ v.alive \subseteq s.alive
      /\ v.alive \cap v.marked \subseteq s.marked
  BY <1>3, MirrorFields
<1> HIDE DEF v
<1>5. /\ v.alive \cap v.marked \subseteq w.marked
      /\ w.cubes /\ w.map # w.swept => v.alive \cap v.marked = {}
  BY <1>1, <1>2, <1>3, <1>4
<1>6. ASSUME NEW n \in Notes
      PROVE  \/ v.credit[n] <= w.credit[n]
             \/ /\ LevelOf[MapOf[n]] = LevelOf[w.map]
                /\ n \in v.marked
                /\ \/ v.credit[n] = w.credit[n] + 1 /\ n \notin w.marked
                   \/ v.credit[n] = 1
  <2>1. w.credit[n] \in Nat /\ v.credit[n] = r.credit[n]
    BY <1>3, <1>4 DEF World
  <2>2. n \in a.marked => n \in v.marked
    BY <1>2, <1>3, <1>4
  <2> QED BY <1>1, <1>2, <2>1, <2>2
<1>7. v = WorldApply(w, batch, mirror)
  BY DEF v, s, r, a, WorldApply
<1>8. /\ Counter(v) >= Counter(w)
      /\ w.recount = TRUE => Counter(v) >= Cardinality(RecordedHere(w))
  <2>1. Counter(a) >= Counter(w)
    <3>1. \A n \in Notes : w.credit[n] <= a.credit[n]
      BY <1>1 DEF World
    <3> QED BY <1>1, <3>1, CounterGrows, CounterIsSum
  <2>2. Counter(v) = Counter(r)
    BY <1>2, <1>3, <1>4, CounterIsSum
  <2>3. Cardinality(RecordedHere(a)) >= Cardinality(RecordedHere(w))
    <3>1. RecordedHere(w) \subseteq RecordedHere(a)
      BY <1>1 DEF RecordedHere
    <3> QED BY <1>1, <3>1, RecordedHereFinite, FS_Subset
  <2>4. /\ Counter(w) \in Nat /\ Counter(a) \in Nat /\ Counter(r) \in Nat
        /\ Cardinality(RecordedHere(w)) \in Nat /\ Cardinality(RecordedHere(a)) \in Nat
    BY <1>1, <1>2, CounterIsSum, RecordedHereFinite
  <2> QED BY <1>1, <1>2, <2>1, <2>2, <2>3, <2>4
<1> QED
  BY <1>1, <1>2, <1>3, <1>4, <1>5, <1>6, <1>7, <1>8 DEF FrameStep

-----------------------------------------------------------------------------
(* The invariant holds from the start and every step keeps it.             *)

LEMMA InitIInv == Init => IInv
<1> SUFFICES ASSUME Init PROVE IInv
  OBVIOUS
<1> USE NoteWorldAssumption
<1> PICK m \in Maps : world = FreshWorld(m, saved)
  BY DEF Init
<1> DEFINE credit == Once(saved \cap NotesOfLevel(LevelOf[m]))
<1>1. /\ saved \in SUBSET Notes /\ online = FALSE /\ resets = 0
      /\ back = {} /\ again = {}
  BY DEF Init
<1>2. /\ credit \in [Notes -> Nat]
      /\ \A n \in Notes : credit[n] <= Saved(n)
      /\ \A n \in Notes : credit[n] > 0 => LevelOf[MapOf[n]] = LevelOf[m]
  BY DEF Once, NotesOfLevel, Saved
<1>3. /\ world.map = m /\ world.cubes = FALSE /\ world.alive = {}
      /\ world.taken = saved /\ world.marked = {} /\ world.swept = NoMap
      /\ world.credit = credit /\ world \in World
  BY <1>1, <1>2 DEF FreshWorld, World
<1> HIDE DEF credit
<1>4. TypeOK /\ PropsInv /\ RecountInv /\ NoRecordedNoteStands
  BY <1>1, <1>3 DEF TypeOK, PropsInv, RecountInv, NoRecordedNoteStands, NotesIn
<1>5. SweptInv
  BY <1>1, <1>3 DEF SweptInv
<1>6. CreditInv /\ CounterIsOfThisLevel
  BY <1>1, <1>2, <1>3 DEF CreditInv, CounterIsOfThisLevel, Marked, Saved, Again
<1> QED BY <1>4, <1>5, <1>6 DEF IInv, BaseInv

LEMMA EnterIInv ==
  ASSUME BaseInv, NEW m \in Maps, Enter(m)
  PROVE  /\ BaseInv' /\ (IInv => IInv')
         /\ online' => world.recount = FALSE
         /\ m = world.map => Counter(world') = Counter(world)
<1> USE NoteWorldAssumption
<1> DEFINE newLevel == LevelOf[m] # LevelOf[world.map]
           credit == IF newLevel
                       THEN Once(world.taken \cap NotesOfLevel(LevelOf[m]))
                       ELSE world.credit
<1>1. /\ world \in World /\ world.cubes
      /\ saved' = saved /\ online' = online /\ resets' = resets /\ again' = again
      /\ back' = IF m = world.map THEN NotesIn(m) ELSE {}
      /\ saved \in SUBSET Notes /\ online \in BOOLEAN /\ resets \in Nat
  BY DEF BaseInv, TypeOK, Enter
<1>2. credit \in [Notes -> Nat]
  BY <1>1 DEF Once, World
<1>3. /\ \A n \in Notes : credit[n] > 0 => LevelOf[MapOf[n]] = LevelOf[m]
      /\ m = world.map => credit = world.credit
  BY <1>1, <1>2 DEF BaseInv, CounterIsOfThisLevel, Once, NotesOfLevel, World
<1>4. ASSUME IInv, NEW n \in Notes
      PROVE  credit[n] <= resets + Saved(n) + Marked(n) + Again(n)
  BY <1>1, <1>2, <1>4 DEF IInv, CreditInv, Once, NotesOfLevel, Saved, Marked, Again, World
<1>5. world' = [world EXCEPT !.map = m, !.cubes = FALSE, !.alive = {},
                             !.credit = credit,
                             !.recount = world.recount \/ newLevel]
  BY Zenon DEF Enter, EnterMap
<1> HIDE DEF credit
<1>6. /\ world' \in World
      /\ world'.map = m /\ world'.cubes = FALSE /\ world'.alive = {}
      /\ world'.taken = world.taken /\ world'.marked = world.marked
      /\ world'.swept = world.swept /\ world'.credit = credit
  BY <1>1, <1>2, <1>5 DEF World
<1>7. TypeOK' /\ PropsInv' /\ RecountInv' /\ NoRecordedNoteStands'
  <2>1. back' \in SUBSET Notes /\ again' \in SUBSET Notes
    BY <1>1 DEF BaseInv, TypeOK, NotesIn
  <2> QED BY <1>1, <1>6, <2>1 DEF TypeOK, PropsInv, RecountInv, NoRecordedNoteStands
<1>8. CounterIsOfThisLevel'
  BY <1>3, <1>6 DEF CounterIsOfThisLevel
<1>9. ASSUME IInv PROVE IInv'
  <2>1. SweptInv'
    BY <1>1, <1>6, <1>9 DEF SweptInv, IInv
  <2>2. CreditInv'
    BY <1>1, <1>4, <1>6, <1>9 DEF IInv, CreditInv, Marked, Saved, Again
  <2> QED BY <1>7, <1>8, <2>1, <2>2 DEF IInv, BaseInv
<1>10. online' => world.recount = FALSE
  BY <1>1 DEF BaseInv, RecountInv
<1>11. m = world.map => Counter(world') = Counter(world)
  BY <1>1, <1>3, <1>6, CounterIsSum
<1> QED BY <1>7, <1>8, <1>9, <1>10, <1>11 DEF BaseInv

LEMMA CollectIInv ==
  ASSUME BaseInv, NEW n \in Notes, Collect(n)
  PROVE  /\ BaseInv' /\ (IInv => IInv')
         /\ online' => world.recount = FALSE
         /\ Counter(world') >= Counter(world)
<1> USE NoteWorldAssumption
<1> DEFINE credit == [world.credit EXCEPT ![n] = world.credit[n] + 1]
<1>1. /\ world \in World /\ n \in world.alive
      /\ saved' = saved /\ online' = online /\ resets' = resets
      /\ back' = back /\ again' = again \cup ({n} \cap world.marked)
      /\ saved \in SUBSET Notes /\ online \in BOOLEAN /\ resets \in Nat
  BY DEF BaseInv, TypeOK, Collect
<1>2. /\ n \notin world.taken /\ world.cubes
      /\ LevelOf[MapOf[n]] = LevelOf[world.map]
  BY <1>1 DEF BaseInv, PropsInv, NotesIn, World
<1>3. credit \in [Notes -> Nat]
  BY <1>1 DEF World
<1>4. world' = [world EXCEPT !.alive = world.alive \ {n},
                             !.taken = world.taken \cup {n},
                             !.marked = world.marked \cup {n},
                             !.credit = credit]
  BY Zenon DEF Collect, PickUp
<1>5. /\ world' \in World
      /\ world'.map = world.map /\ world'.cubes = world.cubes
      /\ world'.alive = world.alive \ {n}
      /\ world'.taken = world.taken \cup {n}
      /\ world'.marked = world.marked \cup {n}
      /\ world'.swept = world.swept
      /\ world'.credit = credit /\ world'.recount = world.recount
  BY <1>1, <1>3, <1>4 DEF World
<1>6. TypeOK' /\ PropsInv' /\ RecountInv'
  BY <1>1, <1>5 DEF TypeOK, PropsInv, RecountInv, BaseInv
<1>7. CounterIsOfThisLevel'
  BY <1>1, <1>2, <1>5 DEF BaseInv, CounterIsOfThisLevel, World
<1>8. ASSUME IInv PROVE IInv'
  <2>1. NoRecordedNoteStands'
    BY <1>1, <1>5, <1>8 DEF NoRecordedNoteStands, IInv
  <2>2. SweptInv'
    BY <1>1, <1>5, <1>8 DEF SweptInv, IInv
  <2>3. ASSUME NEW k \in Notes
        PROVE  /\ world'.credit[k] <= resets' + Saved(k)' + Marked(k)' + Again(k)'
               /\ k \in again' => k \in world'.taken
               /\ k \in world'.taken =>
                    k \in saved' \/ k \in world'.marked \/ resets' >= 1
    <3>1. /\ world.credit[k] \in Nat
          /\ world.credit[k] <= resets + Saved(k) + Marked(k) + Again(k)
          /\ k \in again => k \in world.taken
          /\ k \in world.taken => k \in saved \/ k \in world.marked \/ resets >= 1
      BY <1>1, <1>8 DEF IInv, CreditInv, World
    <3>2. world'.credit[k] = IF k = n THEN world.credit[n] + 1 ELSE world.credit[k]
      BY <1>1, <1>5 DEF World
    <3>3. Saved(k)' = Saved(k)
      BY <1>1 DEF Saved
    <3> QED BY <1>1, <1>2, <1>5, <3>1, <3>2, <3>3 DEF Saved, Marked, Again
  <2> QED BY <1>6, <1>7, <2>1, <2>2, <2>3 DEF IInv, BaseInv, CreditInv
<1>9. online' => world.recount = FALSE
  BY <1>1, <1>2 DEF BaseInv, RecountInv
<1>10. Counter(world') >= Counter(world)
  <2>1. \A k \in Notes : world.credit[k] <= world'.credit[k]
    BY <1>1, <1>5 DEF World
  <2> QED BY <1>1, <1>5, <2>1, CounterGrows, CounterIsSum
<1> QED BY <1>6, <1>7, <1>8, <1>9, <1>10 DEF BaseInv

(* What stands again, once the frame hook finds w; the world it finds, with *)
(* or without a map just loaded.                                           *)
Settled(w) == IF w.cubes /\ ~world.cubes THEN back \cap world.marked ELSE back

LEMMA AtFrameFields ==
  ASSUME BaseInv, NEW w \in AtFrame(world)
  PROVE  /\ w \in World
         /\ w.map = world.map /\ w.taken = world.taken
         /\ w.marked = world.marked /\ w.swept = world.swept
         /\ w.credit = world.credit /\ w.recount = world.recount
         /\ w.alive \subseteq NotesIn(w.map)
         /\ w.alive \cap w.taken = {}
         /\ ~w.cubes => w.alive = {}
         /\ IInv => /\ ~w.cubes => \/ w.swept # w.map
                                   \/ NotesIn(w.map) \subseteq back
                    /\ \/ w.alive \cap w.marked \subseteq Settled(w)
                       \/ online /\ w.cubes /\ w.map # w.swept
<1>1. CASE w = world
  BY <1>1 DEF IInv, BaseInv, TypeOK, PropsInv, SweptInv, NoRecordedNoteStands, Settled
<1>2. CASE ~world.cubes /\ w = LoadCubes(world)
  <2>1. /\ w \in World /\ w.cubes = TRUE
        /\ w.alive = NotesIn(world.map) \ world.taken
        /\ w.map = world.map /\ w.taken = world.taken
        /\ w.marked = world.marked /\ w.swept = world.swept
        /\ w.credit = world.credit /\ w.recount = world.recount
    BY <1>2 DEF BaseInv, TypeOK, LoadCubes, World, NotesIn
  <2> QED BY <1>2, <2>1 DEF IInv, BaseInv, TypeOK, SweptInv, Settled
<1> QED BY <1>1, <1>2 DEF AtFrame

LEMMA ConnectedFrameIInv ==
  ASSUME BaseInv, NEW batch \in SUBSET Notes, NEW mirror,
         ConnectedFrame(batch, mirror)
  PROVE  /\ BaseInv' /\ (IInv => IInv')
         /\ Counter(world') >= Counter(world)
         /\ world.recount = TRUE => Counter(world') >= Cardinality(RecordedHere(world))
<1> PICK w \in AtFrame(world) : world' = WorldApply(w, batch, mirror)
  BY DEF ConnectedFrame
<1>1. /\ online' = TRUE /\ saved' = saved /\ resets' = resets /\ again' = again
      /\ back \in SUBSET Notes /\ again \in SUBSET Notes
      /\ saved \in SUBSET Notes /\ resets \in Nat /\ online \in BOOLEAN
      /\ world \in World
  BY DEF ConnectedFrame, BaseInv, TypeOK
<1>9. back' = IF world'.cubes /\ ~world.cubes THEN back \cap world.marked ELSE back
  BY DEF ConnectedFrame, Settle
<1>2. /\ w \in World
      /\ w.map = world.map /\ w.taken = world.taken
      /\ w.marked = world.marked /\ w.swept = world.swept
      /\ w.credit = world.credit /\ w.recount = world.recount
      /\ w.alive \subseteq NotesIn(w.map)
      /\ w.alive \cap w.taken = {}
      /\ ~w.cubes => w.alive = {}
      /\ IInv => /\ ~w.cubes => \/ w.swept # w.map
                                \/ NotesIn(w.map) \subseteq back
                 /\ \/ w.alive \cap w.marked \subseteq Settled(w)
                    \/ online /\ w.cubes /\ w.map # w.swept
  BY AtFrameFields
<1>3. FrameStep(w, world')
  BY <1>2, FrameFields
<1>4. TypeOK' /\ PropsInv' /\ RecountInv'
  <2>1. back' \in SUBSET Notes
    BY <1>1, <1>9
  <2> QED BY <1>1, <1>2, <1>3, <2>1 DEF TypeOK, PropsInv, RecountInv, FrameStep
<1>5. CounterIsOfThisLevel'
  <2> SUFFICES ASSUME NEW n \in Notes, world'.credit[n] > 0
               PROVE  LevelOf[MapOf[n]] = LevelOf[world'.map]
    BY DEF CounterIsOfThisLevel
  <2>1. /\ world.credit[n] \in Nat /\ world'.credit[n] \in Nat
        /\ world.credit[n] > 0 => LevelOf[MapOf[n]] = LevelOf[world.map]
    BY <1>1, <1>3 DEF BaseInv, CounterIsOfThisLevel, World, FrameStep
  <2> QED BY <1>2, <1>3, <2>1 DEF FrameStep
<1>6. ASSUME IInv PROVE IInv'
  <2>1. NoRecordedNoteStands'
    BY <1>1, <1>2, <1>3, <1>6, <1>9 DEF NoRecordedNoteStands, FrameStep, Settled
  <2>2. SweptInv'
    BY <1>1, <1>2, <1>3, <1>6, <1>9 DEF SweptInv, FrameStep
  <2>3. ASSUME NEW n \in Notes
        PROVE  /\ world'.credit[n] <= resets' + Saved(n)' + Marked(n)' + Again(n)'
               /\ n \in again' => n \in world'.taken
               /\ n \in world'.taken =>
                    n \in saved' \/ n \in world'.marked \/ resets' >= 1
    <3>1. /\ world.credit[n] \in Nat /\ world'.credit[n] \in Nat
          /\ world.credit[n] <= resets + Saved(n) + Marked(n) + Again(n)
          /\ n \in again => n \in world.taken
          /\ n \in world.taken => n \in saved \/ n \in world.marked \/ resets >= 1
      BY <1>1, <1>3, <1>6 DEF IInv, CreditInv, World, FrameStep
    <3> QED BY <1>1, <1>2, <1>3, <3>1 DEF Saved, Marked, Again, FrameStep
  <2> QED BY <1>4, <1>5, <2>1, <2>2, <2>3 DEF IInv, BaseInv, CreditInv
<1>7. /\ Counter(w) = Counter(world) /\ RecordedHere(w) = RecordedHere(world)
  BY <1>1, <1>2, CounterIsSum DEF RecordedHere
<1>8. /\ Counter(world') >= Counter(world)
      /\ world.recount = TRUE => Counter(world') >= Cardinality(RecordedHere(world))
  BY <1>2, <1>3, <1>7 DEF FrameStep
<1> QED BY <1>4, <1>5, <1>6, <1>8 DEF BaseInv

LEMMA DisconnectedFrameIInv ==
  ASSUME BaseInv, DisconnectedFrame
  PROVE  BaseInv' /\ (IInv => IInv')
<1> USE NoteWorldAssumption
<1> PICK w \in AtFrame(world) : world' = IF online THEN WorldReset(w) ELSE w
  BY DEF DisconnectedFrame
<1>1. /\ online' = FALSE /\ saved' = saved /\ again' = again
      /\ back \in SUBSET Notes /\ again \in SUBSET Notes
      /\ resets' = IF online THEN resets + 1 ELSE resets
      /\ saved \in SUBSET Notes /\ resets \in Nat /\ online \in BOOLEAN
  BY DEF DisconnectedFrame, BaseInv, TypeOK
<1>8. back' = IF world'.cubes /\ ~world.cubes THEN back \cap world.marked ELSE back
  BY DEF DisconnectedFrame, Settle
<1>2. /\ w \in World
      /\ w.map = world.map /\ w.taken = world.taken
      /\ w.marked = world.marked /\ w.swept = world.swept
      /\ w.credit = world.credit
      /\ w.alive \subseteq NotesIn(w.map)
      /\ w.alive \cap w.taken = {}
      /\ ~w.cubes => w.alive = {}
      /\ IInv => /\ ~w.cubes => \/ w.swept # w.map
                                \/ NotesIn(w.map) \subseteq back
                 /\ \/ w.alive \cap w.marked \subseteq Settled(w)
                    \/ online /\ w.cubes /\ w.map # w.swept
  BY AtFrameFields
<1>3. /\ world' \in World
      /\ world'.map = w.map /\ world'.cubes = w.cubes
      /\ world'.taken = w.taken /\ world'.alive = w.alive
      /\ world'.credit = w.credit
      /\ world'.marked = IF online THEN {} ELSE w.marked
      /\ world'.swept = IF online THEN NoMap ELSE w.swept
  BY <1>2 DEF WorldReset, World
<1>4. TypeOK'
  <2>1. resets' \in Nat /\ back' \in SUBSET Notes
    BY <1>1, <1>8
  <2> QED BY <1>1, <1>3, <2>1 DEF TypeOK
<1>5. PropsInv' /\ RecountInv'
  BY <1>1, <1>2, <1>3 DEF PropsInv, RecountInv
<1>6. CounterIsOfThisLevel'
  BY <1>2, <1>3 DEF BaseInv, CounterIsOfThisLevel
<1>7. ASSUME IInv PROVE IInv'
  <2>1. NoRecordedNoteStands'
    BY <1>1, <1>2, <1>3, <1>7, <1>8 DEF NoRecordedNoteStands, Settled
  <2>2. SweptInv'
    BY <1>1, <1>2, <1>3, <1>7, <1>8 DEF SweptInv, IInv, World
  <2>3. ASSUME NEW n \in Notes
        PROVE  /\ world'.credit[n] <= resets' + Saved(n)' + Marked(n)' + Again(n)'
               /\ n \in again' => n \in world'.taken
               /\ n \in world'.taken =>
                    n \in saved' \/ n \in world'.marked \/ resets' >= 1
    <3>1. /\ world.credit[n] \in Nat
          /\ world.credit[n] <= resets + Saved(n) + Marked(n) + Again(n)
          /\ n \in again => n \in world.taken
          /\ n \in world.taken => n \in saved \/ n \in world.marked \/ resets >= 1
      BY <1>2, <1>7 DEF IInv, CreditInv, World
    <3> QED BY <1>1, <1>2, <1>3, <3>1 DEF Saved, Marked, Again
  <2> QED BY <1>4, <1>5, <1>6, <2>1, <2>2, <2>3 DEF IInv, BaseInv, CreditInv
<1> QED BY <1>4, <1>5, <1>6, <1>7 DEF BaseInv

LEMMA NextIInv ==
  ASSUME BaseInv, [Next]_vars
  PROVE  BaseInv' /\ (IInv => IInv')
<1>1. CASE \E m \in Maps : Enter(m)
  BY <1>1, EnterIInv
<1>2. CASE \E n \in Notes : Collect(n)
  BY <1>2, CollectIInv
<1>3. CASE \E batch \in SUBSET Notes, mirror \in Mirror \cup {NoMirror} :
             ConnectedFrame(batch, mirror)
  BY <1>3, ConnectedFrameIInv
<1>4. CASE DisconnectedFrame
  BY <1>4, DisconnectedFrameIInv
<1>5. CASE UNCHANGED vars
  BY <1>5 DEF vars, IInv, BaseInv, TypeOK, PropsInv, SweptInv, RecountInv,
              NoRecordedNoteStands, CreditInv, CounterIsOfThisLevel, Marked, Saved, Again
<1> QED BY <1>1, <1>2, <1>3, <1>4, <1>5 DEF Next

LEMMA BaseInvariance == Spec => []BaseInv
<1>1. Init => BaseInv
  BY InitIInv DEF IInv
<1>2. BaseInv /\ [Next]_vars => BaseInv'
  BY NextIInv
<1> QED BY <1>1, <1>2, PTL DEF Spec

LEMMA Invariance == Spec => []IInv
<1>1. IInv /\ [Next]_vars => IInv'
  BY NextIInv DEF IInv
<1> QED BY InitIInv, <1>1, PTL DEF Spec

-----------------------------------------------------------------------------
(* The results.                                                            *)

(* The state is well typed in every behaviour.                             *)
THEOREM TypeCorrect == Spec => []TypeOK
<1>1. BaseInv => TypeOK
  BY DEF BaseInv
<1> QED BY <1>1, BaseInvariance, PTL

(* A note the session has recorded stands where it could be collected      *)
(* again only if it was recorded already when a death loaded the map from  *)
(* itself (world_apply.c:273-276, world_sync.c:62-79, progress.c:105-120), *)
(* whatever the network delivers.                                          *)
THEOREM RecordedNotesStandOnlyAfterDeath == Spec => []NoRecordedNoteStands
<1>1. IInv => NoRecordedNoteStands
  BY DEF IInv
<1> QED BY <1>1, Invariance, PTL

(* However often a note is delivered, one record counts it once, and once  *)
(* more only if it is picked up where it stands again                      *)
(* (world_apply.c:253-254).                                                *)
THEOREM OneCountPerRecord == Spec => []CountedOncePerRecord
<1>1. IInv => CountedOncePerRecord
  BY DEF IInv, BaseInv, TypeOK, CreditInv, CountedOncePerRecord, Saved, Marked, Again, World
<1> QED BY <1>1, Invariance, PTL

(* The counter never holds a note of another level (world_apply.c:231-232). *)
THEOREM CounterStaysInLevel == Spec => []CounterIsOfThisLevel
<1>1. BaseInv => CounterIsOfThisLevel
  BY DEF BaseInv
<1> QED BY <1>1, BaseInvariance, PTL

(***************************************************************************)
(* In a map a player stays in, no connected frame and no pickup lowers the *)
(* counter, and the frame after a change of level leaves it at least as    *)
(* large as the notes recorded there (world_sync.c:83-125).                *)
(***************************************************************************)
THEOREM SharedTotalKept == Spec => SharedTotalSurvives
<1> DEFINE Survives ==
      online' /\ world'.map = world.map =>
        /\ Counter(world') >= Counter(world)
        /\ world.recount =>
             Counter(world') >=
               Cardinality(world.marked \cap NotesOfLevel(LevelOf[world.map]))
<1>1. BaseInv /\ [Next]_vars => Survives \/ UNCHANGED vars
  <2> SUFFICES ASSUME BaseInv, Next, online', world'.map = world.map PROVE Survives
    BY DEF BaseInv
  <2>1. world \in World /\ Counter(world) \in Nat
    BY CounterIsSum DEF BaseInv, TypeOK
  <2>2. ASSUME NEW m \in Maps, Enter(m) PROVE Survives
    <3>1. m = world.map
      BY <2>1, <2>2 DEF Enter, EnterMap, World
    <3>2. /\ online' => world.recount = FALSE
          /\ m = world.map => Counter(world') = Counter(world)
      BY <2>2, EnterIInv
    <3> QED BY <2>1, <3>1, <3>2
  <2>3. ASSUME NEW n \in Notes, Collect(n) PROVE Survives
    BY <2>3, CollectIInv
  <2>4. ASSUME NEW batch \in SUBSET Notes, NEW mirror \in Mirror \cup {NoMirror},
               ConnectedFrame(batch, mirror)
        PROVE  Survives
    <3>1. world.recount \in BOOLEAN
      BY <2>1 DEF World
    <3> QED BY <2>4, <3>1, ConnectedFrameIInv DEF RecordedHere
  <2>5. ~DisconnectedFrame
    BY DEF DisconnectedFrame
  <2> QED BY <2>2, <2>3, <2>4, <2>5 DEF Next
<1>2. BaseInv /\ [Next]_vars => [Survives]_vars
  BY <1>1
<1> QED BY <1>2, BaseInvariance, PTL DEF Spec, SharedTotalSurvives
=============================================================================

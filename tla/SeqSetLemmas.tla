---------------------------- MODULE SeqSetLemmas ----------------------------
(***************************************************************************)
(* What the proofs about several components need to know of the data the   *)
(* models are built from: queues as the sets of what they hold; induction, *)
(* in a form that speaks of a set and not of a predicate; and sums.        *)
(***************************************************************************)
EXTENDS Integers, SequencesExt, FiniteSetTheorems, TLAPS

LEMMA InSet ==
  ASSUME NEW S, NEW s \in Seq(S), NEW x
  PROVE  x \in ToSet(s) <=> \E i \in 1 .. Len(s) : s[i] = x
<1>1. DOMAIN s = 1 .. Len(s)
  OBVIOUS
<1> QED BY <1>1, Zenon DEF ToSet

LEMMA SetOfSeq ==
  ASSUME NEW S, NEW s \in Seq(S)
  PROVE  ToSet(s) \subseteq S
<1>1. \A i \in 1 .. Len(s) : s[i] \in S
  OBVIOUS
<1> QED BY <1>1, InSet

LEMMA AppendSet ==
  ASSUME NEW S, NEW s \in Seq(S), NEW x \in S
  PROVE  /\ Append(s, x) \in Seq(S)
         /\ ToSet(Append(s, x)) = ToSet(s) \cup {x}
<1> DEFINE t == Append(s, x)
<1>1. /\ t \in Seq(S) /\ Len(t) = Len(s) + 1
      /\ \A i \in 1 .. Len(s) : t[i] = s[i] /\ i \in 1 .. Len(s) + 1
      /\ t[Len(s) + 1] = x /\ Len(s) + 1 \in 1 .. Len(s) + 1
      /\ \A i \in 1 .. Len(s) + 1 : i \in 1 .. Len(s) \/ i = Len(s) + 1
  OBVIOUS
<1> HIDE DEF t
<1>2. ASSUME NEW y PROVE y \in ToSet(t) <=> y \in ToSet(s) \/ y = x
  BY <1>1, InSet
<1> QED BY <1>1, <1>2 DEF t

LEMMA HeadTailSet ==
  ASSUME NEW S, NEW s \in Seq(S), s # <<>>
  PROVE  /\ Head(s) \in S /\ Tail(s) \in Seq(S)
         /\ ToSet(s) = {Head(s)} \cup ToSet(Tail(s))
<1> DEFINE t == Tail(s)
<1>1. /\ t \in Seq(S) /\ Len(t) = Len(s) - 1 /\ Len(s) \in Nat \ {0}
      /\ Head(s) = s[1] /\ Head(s) \in S /\ 1 \in 1 .. Len(s)
      /\ \A i \in 1 .. Len(s) - 1 : t[i] = s[i + 1] /\ i + 1 \in 1 .. Len(s)
  OBVIOUS
<1>2. \A i \in 1 .. Len(s) : i = 1 \/ (i - 1 \in 1 .. Len(s) - 1 /\ (i - 1) + 1 = i)
  BY <1>1
<1> HIDE DEF t
<1>3. ASSUME NEW y, y \in ToSet(s) PROVE y = Head(s) \/ y \in ToSet(t)
  <2>1. PICK i \in 1 .. Len(s) : s[i] = y
    BY <1>3, InSet
  <2>2. CASE i = 1
    BY <1>1, <2>1, <2>2
  <2>3. CASE i - 1 \in 1 .. Len(s) - 1 /\ (i - 1) + 1 = i
    <3>1. t[i - 1] = y
      BY <1>1, <2>1, <2>3
    <3> QED BY <1>1, <2>3, <3>1, InSet
  <2> QED BY <1>2, <2>2, <2>3
<1>4. ASSUME NEW y, y = Head(s) \/ y \in ToSet(t) PROVE y \in ToSet(s)
  BY <1>1, <1>4, InSet
<1> QED BY <1>1, <1>3, <1>4 DEF t

LEMMA ConcatSet ==
  ASSUME NEW S, NEW s \in Seq(S), NEW t \in Seq(S)
  PROVE  /\ s \o t \in Seq(S)
         /\ ToSet(s \o t) = ToSet(s) \cup ToSet(t)
<1> DEFINE u == s \o t
<1>1. /\ u \in Seq(S) /\ Len(u) = Len(s) + Len(t)
      /\ Len(s) \in Nat /\ Len(t) \in Nat
      /\ \A i \in 1 .. Len(s) : u[i] = s[i] /\ i \in 1 .. Len(s) + Len(t)
      /\ \A i \in 1 .. Len(t) :
           u[i + Len(s)] = t[i] /\ i + Len(s) \in 1 .. Len(s) + Len(t)
  OBVIOUS
<1>2. \A i \in 1 .. Len(s) + Len(t) :
        \/ i \in 1 .. Len(s)
        \/ i - Len(s) \in 1 .. Len(t) /\ (i - Len(s)) + Len(s) = i
  BY <1>1
<1> HIDE DEF u
<1>3. ASSUME NEW y, y \in ToSet(u) PROVE y \in ToSet(s) \/ y \in ToSet(t)
  <2>1. PICK i \in 1 .. Len(s) + Len(t) : u[i] = y
    BY <1>1, <1>3, InSet
  <2>2. CASE i \in 1 .. Len(s)
    BY <1>1, <2>1, <2>2, InSet
  <2>3. CASE i - Len(s) \in 1 .. Len(t) /\ (i - Len(s)) + Len(s) = i
    <3>1. t[i - Len(s)] = y
      BY <1>1, <2>1, <2>3
    <3> QED BY <2>3, <3>1, InSet
  <2> QED BY <1>2, <2>2, <2>3
<1>4. ASSUME NEW y, y \in ToSet(s) \/ y \in ToSet(t) PROVE y \in ToSet(u)
  <2>1. CASE y \in ToSet(s)
    <3>1. PICK i \in 1 .. Len(s) : s[i] = y
      BY <2>1, InSet
    <3> QED BY <1>1, <3>1, InSet
  <2>2. CASE y \in ToSet(t)
    <3>1. PICK i \in 1 .. Len(t) : t[i] = y
      BY <2>2, InSet
    <3> QED BY <1>1, <3>1, InSet
  <2> QED BY <1>4, <2>1, <2>2
<1> QED BY <1>1, <1>3, <1>4 DEF u

LEMMA SplitSet ==
  ASSUME NEW S, NEW s \in Seq(S), NEW k \in 0 .. Len(s)
  PROVE  /\ SubSeq(s, 1, k) \in Seq(S)
         /\ SubSeq(s, k + 1, Len(s)) \in Seq(S)
         /\ ToSet(s) = ToSet(SubSeq(s, 1, k)) \cup ToSet(SubSeq(s, k + 1, Len(s)))
<1> DEFINE t == SubSeq(s, 1, k)
           u == SubSeq(s, k + 1, Len(s))
<1>1. /\ t \in Seq(S) /\ Len(t) = k /\ Len(s) \in Nat /\ k \in Nat
      /\ \A i \in 1 .. k : t[i] = s[i] /\ i \in 1 .. Len(s)
  OBVIOUS
<1>2. /\ u \in Seq(S) /\ Len(u) = Len(s) - k
      /\ \A i \in 1 .. Len(s) - k : u[i] = s[i + k] /\ i + k \in 1 .. Len(s)
  OBVIOUS
<1>3. \A i \in 1 .. Len(s) :
        i \in 1 .. k \/ (i - k \in 1 .. Len(s) - k /\ (i - k) + k = i)
  BY <1>1
<1> HIDE DEF t, u
<1>4. ASSUME NEW y, y \in ToSet(s) PROVE y \in ToSet(t) \/ y \in ToSet(u)
  <2>1. PICK i \in 1 .. Len(s) : s[i] = y
    BY <1>4, InSet
  <2>2. CASE i \in 1 .. k
    BY <1>1, <2>1, <2>2, InSet
  <2>3. CASE i - k \in 1 .. Len(s) - k /\ (i - k) + k = i
    <3>1. u[i - k] = y
      BY <1>2, <2>1, <2>3
    <3> QED BY <1>2, <2>3, <3>1, InSet
  <2> QED BY <1>3, <2>2, <2>3
<1>5. ASSUME NEW y, y \in ToSet(t) \/ y \in ToSet(u) PROVE y \in ToSet(s)
  <2>1. CASE y \in ToSet(t)
    <3>1. PICK i \in 1 .. k : t[i] = y
      BY <1>1, <2>1, InSet
    <3> QED BY <1>1, <3>1, InSet
  <2>2. CASE y \in ToSet(u)
    <3>1. PICK i \in 1 .. Len(s) - k : u[i] = y
      BY <1>2, <2>2, InSet
    <3> QED BY <1>2, <3>1, InSet
  <2> QED BY <1>5, <2>1, <2>2
<1> QED BY <1>1, <1>2, <1>4, <1>5 DEF t, u

LEMMA ListIsSeq ==
  ASSUME NEW S, NEW n \in Nat, NEW s \in [1 .. n -> S]
  PROVE  s \in Seq(S) /\ Len(s) = n
OBVIOUS

(* Behind s in s \o t comes t.                                             *)
LEMMA ConcatEntries ==
  ASSUME NEW S, NEW s \in Seq(S), NEW t \in Seq(S)
  PROVE  /\ s \o t \in Seq(S) /\ Len(s \o t) = Len(s) + Len(t)
         /\ \A i \in 1 .. Len(s) : (s \o t)[i] = s[i]
         /\ \A i \in Len(s) + 1 .. Len(s) + Len(t) :
              i - Len(s) \in 1 .. Len(t) /\ (s \o t)[i] = t[i - Len(s)]
<1>1. /\ s \o t \in Seq(S) /\ Len(s \o t) = Len(s) + Len(t)
      /\ \A i \in 1 .. Len(s) : (s \o t)[i] = s[i]
  OBVIOUS
<1>2. ASSUME NEW i \in Len(s) + 1 .. Len(s) + Len(t)
      PROVE  i - Len(s) \in 1 .. Len(t) /\ (s \o t)[i] = t[i - Len(s)]
  <2>1. i - Len(s) \in 1 .. Len(t) /\ i \in 1 .. Len(s) + Len(t) /\ ~(i <= Len(s))
    OBVIOUS
  <2> QED BY <2>1
<1> QED BY <1>1, <1>2

LEMMA SameSeq ==
  ASSUME NEW S, NEW s \in Seq(S), NEW t \in Seq(S), Len(s) = Len(t),
         \A j \in 1 .. Len(s) : s[j] = t[j]
  PROVE  s = t
OBVIOUS

(* What is left of a sequence, one element after the other.                *)
LEMMA SuffixMoves ==
  ASSUME NEW S, NEW s \in Seq(S), NEW i \in 1 .. Len(s)
  PROVE  /\ SubSeq(s, i, Len(s)) \in Seq(S) /\ SubSeq(s, i, Len(s)) # <<>>
         /\ Head(SubSeq(s, i, Len(s))) = s[i]
         /\ Tail(SubSeq(s, i, Len(s))) = SubSeq(s, i + 1, Len(s))
<1> DEFINE u == SubSeq(s, i, Len(s))
           w == SubSeq(s, i + 1, Len(s))
           n == Len(s) - i
<1>1. /\ n \in Nat /\ u \in Seq(S) /\ Len(u) = n + 1
      /\ \A j \in 1 .. n + 1 : u[j] = s[i + j - 1]
      /\ w \in Seq(S) /\ Len(w) = n
      /\ \A j \in 1 .. n : w[j] = s[i + j]
  OBVIOUS
<1> HIDE DEF u, w, n
<1>2. u # <<>> /\ Head(u) = s[i]
  BY <1>1
<1>3. /\ Tail(u) \in Seq(S) /\ Len(Tail(u)) = n
      /\ \A j \in 1 .. n : Tail(u)[j] = u[j + 1]
  BY <1>1, <1>2
<1>4. \A j \in 1 .. n : Tail(u)[j] = w[j]
  <2> SUFFICES ASSUME NEW j \in 1 .. n PROVE Tail(u)[j] = w[j]
    OBVIOUS
  <2>1. j + 1 \in 1 .. n + 1 /\ i + (j + 1) - 1 = i + j
    BY <1>1
  <2>2. u[j + 1] = s[i + (j + 1) - 1]
    BY <1>1, <2>1
  <2> QED BY <1>1, <1>3, <2>1, <2>2
<1>5. Tail(u) = w
  BY <1>1, <1>3, <1>4
<1> QED BY <1>1, <1>2, <1>5 DEF u, w

LEMMA WholeSuffix ==
  ASSUME NEW S, NEW s \in Seq(S)
  PROVE  SubSeq(s, 1, Len(s)) = s
OBVIOUS

LEMMA PrefixSet ==
  ASSUME NEW S, NEW s \in Seq(S), NEW t \in Prefixes(s)
  PROVE  t \in Seq(S) /\ ToSet(t) \subseteq ToSet(s)
<1> PICK k \in 0 .. Len(s) : t = SubSeq(s, 1, k)
  BY DEF Prefixes
<1> QED BY SplitSet

(* Every order in which the elements of a set can be sent holds them all.  *)
LEMMA OrderSet ==
  ASSUME NEW S, IsFiniteSet(S), NEW s \in SetToSeqs(S)
  PROVE  s \in Seq(S) /\ ToSet(s) = S
<1> DEFINE n == Cardinality(S)
<1>1. n \in Nat
  BY FS_CardinalityType
<1>2. /\ s \in [1 .. n -> S]
      /\ \A i, j \in 1 .. n : i # j => s[i] # s[j]
  BY DEF SetToSeqs
<1> HIDE DEF n
<1>3. s \in Seq(S) /\ Len(s) = n
  BY <1>1, <1>2
<1>4. s \in Injection(1 .. n, S)
  BY <1>2 DEF Injection, IsInjective
<1>5. Cardinality(1 .. n) = n
  BY <1>1, FS_Interval
<1>6. s \in Surjection(1 .. n, S)
  BY <1>4, <1>5, FS_Injection DEF n
<1>7. \A y \in S : \E i \in 1 .. n : s[i] = y
  BY <1>6 DEF Surjection
<1>8. ASSUME NEW y PROVE y \in ToSet(s) <=> y \in S
  BY <1>2, <1>3, <1>7, InSet
<1> QED BY <1>3, <1>8

(* The order SetToSeq chooses is one of them.                              *)
LEMMA ChosenOrder ==
  ASSUME NEW S, IsFiniteSet(S)
  PROVE  SetToSeq(S) \in Seq(S) /\ ToSet(SetToSeq(S)) = S
<1> DEFINE n == Cardinality(S)
<1>1. \E f \in [1 .. n -> S] : IsInjective(f)
  BY FS_CardinalityType DEF ExistsBijection, Bijection, Injection, IsInjective
<1>2. SetToSeq(S) \in [1 .. n -> S] /\ IsInjective(SetToSeq(S))
  BY <1>1 DEF SetToSeq
<1>3. SetToSeq(S) \in SetToSeqs(S)
  BY <1>2 DEF SetToSeqs, IsInjective
<1> QED BY <1>3, OrderSet

-----------------------------------------------------------------------------
(* Induction.                                                              *)

(* A set of numbers that is not empty has a lowest one.                    *)
LEMMA LowestNumber ==
  ASSUME NEW T \in SUBSET Nat, T # {}
  PROVE  \E j \in T : \A k \in T : j <= k
<1>1. IsWellFoundedOn(OpToRel(<, Nat), Nat)
  BY NatLessThanWellFounded
<1>2. PICK j \in T : \A k \in T : ~ (<<k, j>> \in OpToRel(<, Nat))
  BY <1>1, WFMin
<1>3. \A k \in Nat : k < j => <<k, j>> \in OpToRel(<, Nat)
  BY DEF OpToRel
<1>4. \A k \in T : k \in Nat /\ j \in Nat /\ ~(k < j)
  BY <1>2, <1>3
<1> QED BY <1>4

(* Induction over the numbers up to n, in a form the provers can use.      *)
LEMMA Counting ==
  ASSUME NEW n \in Nat, NEW T, 0 \in T, \A i \in 1 .. n : i - 1 \in T => i \in T
  PROVE  0 .. n \subseteq T
<1> DEFINE bad == {i \in 0 .. n : i \notin T}
<1> SUFFICES ASSUME bad # {} PROVE FALSE
  OBVIOUS
<1>1. bad \in SUBSET Nat
  OBVIOUS
<1>2. PICK j \in bad : \A k \in bad : j <= k
  BY <1>1, LowestNumber
<1>3. j \in 1 .. n /\ j - 1 \in 0 .. n /\ ~(j <= j - 1)
  BY <1>2
<1> QED BY <1>2, <1>3

Pick(s) == CHOOSE x \in s : TRUE

(* Induction over the subsets of a finite set, the way a fold takes them   *)
(* apart.                                                                  *)
LEMMA TakingApart ==
  ASSUME NEW S, IsFiniteSet(S), NEW T, {} \in T,
         \A s \in SUBSET S : s # {} /\ s \ {Pick(s)} \in T => s \in T
  PROVE  SUBSET S \subseteq T
<1> DEFINE good == {n \in 0 .. Cardinality(S) :
                      \A s \in SUBSET S : Cardinality(s) <= n => s \in T}
<1>1. Cardinality(S) \in Nat
  BY FS_CardinalityType
<1>2. \A s \in SUBSET S : IsFiniteSet(s) /\ Cardinality(s) \in Nat
                            /\ Cardinality(s) <= Cardinality(S)
  BY FS_Subset, FS_CardinalityType
<1>3. 0 \in good
  <2>1. \A s \in SUBSET S : Cardinality(s) <= 0 => s = {}
    BY <1>2, FS_EmptySet
  <2>2. 0 \in 0 .. Cardinality(S)
    BY <1>1
  <2> QED BY <2>1, <2>2
<1>4. ASSUME NEW n \in 1 .. Cardinality(S), n - 1 \in good
      PROVE  n \in good
  <2> SUFFICES ASSUME NEW s \in SUBSET S, Cardinality(s) <= n
               PROVE  s \in T
    BY <1>1
  <2>1. CASE s = {}
    BY <2>1
  <2>2. CASE s # {}
    <3>1. Pick(s) \in s
      BY <2>2 DEF Pick
    <3>2. Cardinality(s \ {Pick(s)}) = Cardinality(s) - 1
      BY <1>2, <3>1, FS_RemoveElement
    <3>3. s \ {Pick(s)} \in SUBSET S /\ Cardinality(s \ {Pick(s)}) <= n - 1
      BY <1>1, <1>2, <3>2
    <3> QED BY <1>4, <2>2, <3>3
  <2> QED BY <2>1, <2>2
<1> HIDE DEF good
<1>5. 0 .. Cardinality(S) \subseteq good
  BY <1>1, <1>3, <1>4, Counting
<1>6. Cardinality(S) \in good
  BY <1>1, <1>5
<1> QED BY <1>2, <1>6 DEF good

(* The value h gives to a part of S is that of the part without the        *)
(* element picked, after a step.                                           *)
Picks(pick, S) == \A s \in SUBSET S : s # {} => pick[s] \in s

TakesApart(h, S, A, base, step, pick) ==
  /\ h \in [SUBSET S -> A]
  /\ \A s \in SUBSET S :
       h[s] = IF s = {} THEN base ELSE step[pick[s]][h[s \ {pick[s]}]]

(* What is defined by taking a finite set apart exists.                    *)
LEMMA TakingApartDefines ==
  ASSUME NEW S, IsFiniteSet(S), NEW A, NEW base \in A, NEW step \in [S -> [A -> A]],
         NEW pick, Picks(pick, S)
  PROVE  \E h : TakesApart(h, S, A, base, step, pick)
<1> DEFINE Small(n) == {s \in SUBSET S : Cardinality(s) <= n}
           Partial(n, h) ==
             /\ h \in [Small(n) -> A]
             /\ \A s \in Small(n) :
                  h[s] = IF s = {} THEN base ELSE step[pick[s]][h[s \ {pick[s]}]]
           good == {n \in 0 .. Cardinality(S) : \E h : Partial(n, h)}
<1>1. Cardinality(S) \in Nat
  BY FS_CardinalityType
<1>2. \A s \in SUBSET S : IsFiniteSet(s) /\ Cardinality(s) \in Nat
                            /\ Cardinality(s) <= Cardinality(S)
                            /\ (Cardinality(s) = 0 <=> s = {})
  BY FS_Subset, FS_CardinalityType, FS_EmptySet
<1>3. \A s \in SUBSET S : s # {} =>
        /\ pick[s] \in S /\ s \ {pick[s]} \in SUBSET S
        /\ Cardinality(s \ {pick[s]}) = Cardinality(s) - 1
  BY <1>2, FS_RemoveElement DEF Picks
<1>4. 0 \in good
  <2> DEFINE h0 == [s \in Small(0) |-> base]
  <2>1. \A s \in Small(0) : s = {}
    BY <1>2
  <2>2. Partial(0, h0)
    BY <2>1
  <2> HIDE DEF h0, Partial
  <2>3. \E h : Partial(0, h)
    BY <2>2
  <2> QED BY <1>1, <2>3
<1>5. ASSUME NEW n \in 1 .. Cardinality(S), n - 1 \in good
      PROVE  n \in good
  <2>1. PICK g : Partial(n - 1, g)
    BY <1>5
  <2> DEFINE h == [s \in Small(n) |-> IF s = {} THEN base
                                      ELSE step[pick[s]][g[s \ {pick[s]}]]]
  <2>2. \A s \in Small(n) : s # {} => s \ {pick[s]} \in Small(n - 1)
    BY <1>1, <1>2, <1>3
  <2>3. Small(n - 1) \subseteq Small(n)
    BY <1>1, <1>2
  <2>4. \A s \in Small(n - 1) : h[s] = g[s]
    BY <2>1, <2>3
  <2>5. h \in [Small(n) -> A]
    <3>1. \A s \in Small(n) : s # {} => step[pick[s]] \in [A -> A]
                                         /\ g[s \ {pick[s]}] \in A
      BY <1>3, <2>1, <2>2
    <3> QED BY <3>1
  <2>6. Partial(n, h)
    BY <2>2, <2>4, <2>5
  <2> HIDE DEF h, Partial
  <2>7. \E k : Partial(n, k)
    BY <2>6
  <2> QED BY <2>7
<1> HIDE DEF good
<1>6. 0 .. Cardinality(S) \subseteq good
  BY <1>1, <1>4, <1>5, Counting
<1>7. \E h : Partial(Cardinality(S), h)
  <2> HIDE DEF Partial
  <2>1. Cardinality(S) \in good
    BY <1>1, <1>6
  <2> QED BY <2>1 DEF good
<1>8. PICK h : Partial(Cardinality(S), h)
  BY <1>7
<1>9. Small(Cardinality(S)) = SUBSET S
  BY <1>2
<1> QED BY <1>8, <1>9 DEF TakesApart

-----------------------------------------------------------------------------
(* Sums.                                                                   *)

(* What a sum over S makes of the parts of S.                              *)
Sums(f, S, h) ==
  /\ h \in [SUBSET S -> Nat]
  /\ h = [s \in SUBSET S |-> IF s = {} THEN 0 ELSE f[Pick(s)] + h[s \ {Pick(s)}]]

LEMMA SumsExist ==
  ASSUME NEW S, IsFiniteSet(S), NEW f \in [S -> Nat]
  PROVE  \E h : Sums(f, S, h)
<1> DEFINE step == [x \in S |-> [n \in Nat |-> f[x] + n]]
           pick == [s \in SUBSET S |-> Pick(s)]
<1>1. step \in [S -> [Nat -> Nat]]
  OBVIOUS
<1>2. Picks(pick, S)
  BY DEF Pick, Picks
<1> HIDE DEF step, pick
<1>3. PICK h : TakesApart(h, S, Nat, 0, step, pick)
  BY <1>1, <1>2, TakingApartDefines
<1>4. h \in [SUBSET S -> Nat]
  BY <1>3 DEF TakesApart
<1>5. \A s \in SUBSET S : s # {} =>
        step[pick[s]][h[s \ {pick[s]}]] = f[Pick(s)] + h[s \ {Pick(s)}]
  <2> SUFFICES ASSUME NEW s \in SUBSET S, s # {}
               PROVE  step[pick[s]][h[s \ {pick[s]}]] = f[Pick(s)] + h[s \ {Pick(s)}]
    OBVIOUS
  <2>1. pick[s] = Pick(s) /\ Pick(s) \in S /\ h[s \ {Pick(s)}] \in Nat
    BY <1>2, <1>4 DEF pick, Picks
  <2> QED BY <2>1 DEF step
<1>6. h = [s \in SUBSET S |-> IF s = {} THEN 0 ELSE f[Pick(s)] + h[s \ {Pick(s)}]]
  BY <1>3, <1>5 DEF TakesApart
<1> QED BY <1>4, <1>6 DEF Sums

LEMMA SumDef ==
  ASSUME NEW S, IsFiniteSet(S), NEW f \in [S -> Nat]
  PROVE  \E h : Sums(f, S, h) /\ SumFunctionOnSet(f, S) = h[S]
<1> DEFINE h == CHOOSE h : h = [s \in SUBSET S |->
                  IF s = {} THEN 0 ELSE f[Pick(s)] + h[s \ {Pick(s)}]]
<1>1. PICK g : Sums(f, S, g)
  BY SumsExist
<1>2. h = [s \in SUBSET S |->
             IF s = {} THEN 0 ELSE f[Pick(s)] + h[s \ {Pick(s)}]]
  BY <1>1 DEF Sums
<1>3. SumFunctionOnSet(f, S) = h[S]
  BY DEF SumFunctionOnSet, FoldFunctionOnSet, MapThenFoldSet, Pick
<1> HIDE DEF h
<1> DEFINE good == {s \in SUBSET S : h[s] \in Nat}
<1>4. {} \in good
  BY <1>2
<1>5. \A s \in SUBSET S : s # {} /\ s \ {Pick(s)} \in good => s \in good
  <2> SUFFICES ASSUME NEW s \in SUBSET S, s # {}, s \ {Pick(s)} \in good
               PROVE  h[s] \in Nat
    OBVIOUS
  <2>1. Pick(s) \in S
    BY DEF Pick
  <2>2. f[Pick(s)] \in Nat /\ h[s \ {Pick(s)}] \in Nat
    BY <2>1
  <2>3. h[s] = f[Pick(s)] + h[s \ {Pick(s)}]
    BY <1>2
  <2> QED BY <2>2, <2>3
<1> HIDE DEF good
<1>6. SUBSET S \subseteq good
  BY <1>4, <1>5, TakingApart
<1>7. h \in [SUBSET S -> Nat]
  BY <1>2, <1>6 DEF good
<1> QED BY <1>2, <1>3, <1>7 DEF Sums

LEMMA SumPlus ==
  ASSUME NEW S, IsFiniteSet(S), NEW f \in [S -> Nat], NEW e \in [S -> Nat],
         NEW g \in [S -> Nat], \A x \in S : g[x] = f[x] + e[x]
  PROVE  SumFunctionOnSet(g, S) = SumFunctionOnSet(f, S) + SumFunctionOnSet(e, S)
<1>1. PICK hf : Sums(f, S, hf) /\ SumFunctionOnSet(f, S) = hf[S]
  BY SumDef
<1>2. PICK he : Sums(e, S, he) /\ SumFunctionOnSet(e, S) = he[S]
  BY SumDef
<1>3. PICK hg : Sums(g, S, hg) /\ SumFunctionOnSet(g, S) = hg[S]
  BY SumDef
<1> DEFINE good == {s \in SUBSET S : hg[s] = hf[s] + he[s]}
<1>4. {} \in good
  BY <1>1, <1>2, <1>3 DEF Sums
<1>5. \A s \in SUBSET S : s # {} /\ s \ {Pick(s)} \in good => s \in good
  <2> SUFFICES ASSUME NEW s \in SUBSET S, s # {}, s \ {Pick(s)} \in good
               PROVE  hg[s] = hf[s] + he[s]
    OBVIOUS
  <2>1. Pick(s) \in S
    BY DEF Pick
  <2>2. hf[s] = f[Pick(s)] + hf[s \ {Pick(s)}] /\ hf[s \ {Pick(s)}] \in Nat
    BY <1>1 DEF Sums
  <2>3. he[s] = e[Pick(s)] + he[s \ {Pick(s)}] /\ he[s \ {Pick(s)}] \in Nat
    BY <1>2 DEF Sums
  <2>4. hg[s] = g[Pick(s)] + hg[s \ {Pick(s)}] /\ hg[s \ {Pick(s)}] \in Nat
    BY <1>3 DEF Sums
  <2>5. g[Pick(s)] = f[Pick(s)] + e[Pick(s)] /\ f[Pick(s)] \in Nat /\ e[Pick(s)] \in Nat
    BY <2>1
  <2>6. hg[s \ {Pick(s)}] = hf[s \ {Pick(s)}] + he[s \ {Pick(s)}]
    OBVIOUS
  <2> QED BY <2>2, <2>3, <2>4, <2>5, <2>6
<1> HIDE DEF good
<1>6. S \in good
  BY <1>4, <1>5, TakingApart
<1> QED BY <1>1, <1>2, <1>3, <1>6 DEF good

(* The sum of ones is a number of elements, and that of one number it.     *)
LEMMA SumOnes ==
  ASSUME NEW S, IsFiniteSet(S), NEW D \in SUBSET S, NEW f \in [S -> Nat],
         \A x \in S : f[x] = IF x \in D THEN 1 ELSE 0
  PROVE  SumFunctionOnSet(f, S) = Cardinality(D)
<1>1. PICK h : Sums(f, S, h) /\ SumFunctionOnSet(f, S) = h[S]
  BY SumDef
<1> DEFINE good == {s \in SUBSET S : h[s] = Cardinality(s \cap D)}
<1>2. \A s \in SUBSET S : IsFiniteSet(s) /\ IsFiniteSet(s \cap D)
                            /\ Cardinality(s \cap D) \in Nat
  BY FS_Subset, FS_CardinalityType
<1>3. {} \in good
  BY <1>1, FS_EmptySet DEF Sums
<1>4. \A s \in SUBSET S : s # {} /\ s \ {Pick(s)} \in good => s \in good
  <2> SUFFICES ASSUME NEW s \in SUBSET S, s # {}, s \ {Pick(s)} \in good
               PROVE  h[s] = Cardinality(s \cap D)
    OBVIOUS
  <2>1. Pick(s) \in s
    BY DEF Pick
  <2>2. h[s] = f[Pick(s)] + h[s \ {Pick(s)}]
    BY <1>1 DEF Sums
  <2>3. CASE Pick(s) \in D
    <3>1. (s \ {Pick(s)}) \cap D = (s \cap D) \ {Pick(s)}
      OBVIOUS
    <3>2. Cardinality((s \cap D) \ {Pick(s)}) = Cardinality(s \cap D) - 1
      BY <1>2, <2>1, <2>3, FS_RemoveElement
    <3>3. h[s \ {Pick(s)}] = Cardinality(s \cap D) - 1 /\ f[Pick(s)] = 1
      BY <2>3, <3>1, <3>2
    <3>4. Cardinality(s \cap D) \in Nat
      BY <1>2
    <3> QED BY <2>2, <3>3, <3>4
  <2>4. CASE Pick(s) \notin D
    <3>1. (s \ {Pick(s)}) \cap D = s \cap D
      BY <2>4
    <3> QED BY <1>2, <2>1, <2>2, <2>4, <3>1
  <2> QED BY <2>3, <2>4
<1> HIDE DEF good
<1>5. S \in good
  BY <1>3, <1>4, TakingApart
<1>6. S \cap D = D
  OBVIOUS
<1> QED BY <1>1, <1>5, <1>6 DEF good

LEMMA SumSingle ==
  ASSUME NEW S, IsFiniteSet(S), NEW q \in S, NEW d \in Nat, NEW f \in [S -> Nat],
         \A x \in S : f[x] = IF x = q THEN d ELSE 0
  PROVE  SumFunctionOnSet(f, S) = d
<1>1. PICK h : Sums(f, S, h) /\ SumFunctionOnSet(f, S) = h[S]
  BY SumDef
<1> DEFINE good == {s \in SUBSET S : h[s] = IF q \in s THEN d ELSE 0}
<1>2. {} \in good
  BY <1>1 DEF Sums
<1>3. \A s \in SUBSET S : s # {} /\ s \ {Pick(s)} \in good => s \in good
  <2> SUFFICES ASSUME NEW s \in SUBSET S, s # {}, s \ {Pick(s)} \in good
               PROVE  h[s] = IF q \in s THEN d ELSE 0
    OBVIOUS
  <2>1. Pick(s) \in s
    BY DEF Pick
  <2>2. h[s] = f[Pick(s)] + h[s \ {Pick(s)}]
    BY <1>1 DEF Sums
  <2> QED BY <2>1, <2>2
<1> HIDE DEF good
<1>4. S \in good
  BY <1>2, <1>3, TakingApart
<1> QED BY <1>1, <1>4 DEF good

(* A sum of naturals is one, and it grows with its terms.                  *)
LEMMA SumGrows ==
  ASSUME NEW S, IsFiniteSet(S), NEW f \in [S -> Nat], NEW g \in [S -> Nat],
         \A x \in S : f[x] <= g[x]
  PROVE  /\ SumFunctionOnSet(f, S) \in Nat /\ SumFunctionOnSet(g, S) \in Nat
         /\ SumFunctionOnSet(f, S) <= SumFunctionOnSet(g, S)
<1> DEFINE e == [x \in S |-> g[x] - f[x]]
<1>1. e \in [S -> Nat] /\ \A x \in S : g[x] = f[x] + e[x]
  OBVIOUS
<1> HIDE DEF e
<1>2. \A d \in [S -> Nat] : SumFunctionOnSet(d, S) \in Nat
  <2> TAKE d \in [S -> Nat]
  <2>1. PICK h : Sums(d, S, h) /\ SumFunctionOnSet(d, S) = h[S]
    BY SumDef
  <2> QED BY <2>1 DEF Sums
<1>3. SumFunctionOnSet(g, S) = SumFunctionOnSet(f, S) + SumFunctionOnSet(e, S)
  BY <1>1, SumPlus
<1> QED BY <1>1, <1>2, <1>3

-----------------------------------------------------------------------------
(* Folding over a sequence.                                                *)

(* A sum of which one part changes.                                        *)
LEMMA SumChange ==
  ASSUME NEW S, IsFiniteSet(S), NEW q \in S, NEW f \in [S -> Nat],
         NEW g \in [S -> Nat], \A x \in S \ {q} : g[x] = f[x]
  PROVE  /\ SumFunctionOnSet(f, S) \in Nat /\ SumFunctionOnSet(g, S) \in Nat
         /\ f[q] <= SumFunctionOnSet(f, S)
         /\ SumFunctionOnSet(g, S) = SumFunctionOnSet(f, S) - f[q] + g[q]
<1> DEFINE rest == [x \in S |-> IF x = q THEN 0 ELSE f[x]]
           old == [x \in S |-> IF x = q THEN f[q] ELSE 0]
           new == [x \in S |-> IF x = q THEN g[q] ELSE 0]
<1>1. /\ rest \in [S -> Nat] /\ old \in [S -> Nat] /\ new \in [S -> Nat]
      /\ f[q] \in Nat /\ g[q] \in Nat
      /\ \A x \in S : f[x] = rest[x] + old[x]
      /\ \A x \in S : g[x] = rest[x] + new[x]
  OBVIOUS
<1>2. SumFunctionOnSet(old, S) = f[q]
  <2> DEFINE d == f[q]
  <2>1. /\ d \in Nat /\ old \in [S -> Nat]
        /\ \A x \in S : old[x] = IF x = q THEN d ELSE 0
    BY <1>1
  <2> HIDE DEF old, new, rest, d
  <2>2. SumFunctionOnSet(old, S) = d
    BY <2>1, SumSingle
  <2> QED BY <2>2 DEF d
<1>3. SumFunctionOnSet(new, S) = g[q]
  <2> DEFINE d == g[q]
  <2>1. /\ d \in Nat /\ new \in [S -> Nat]
        /\ \A x \in S : new[x] = IF x = q THEN d ELSE 0
    BY <1>1
  <2> HIDE DEF old, new, rest, d
  <2>2. SumFunctionOnSet(new, S) = d
    BY <2>1, SumSingle
  <2> QED BY <2>2 DEF d
<1> HIDE DEF rest, old, new
<1>4. SumFunctionOnSet(rest, S) \in Nat
  BY <1>1, SumGrows
<1>5. /\ SumFunctionOnSet(f, S) = SumFunctionOnSet(rest, S) + f[q]
      /\ SumFunctionOnSet(g, S) = SumFunctionOnSet(rest, S) + g[q]
  <2>1. SumFunctionOnSet(f, S) = SumFunctionOnSet(rest, S) + SumFunctionOnSet(old, S)
    BY <1>1, SumPlus
  <2>2. SumFunctionOnSet(g, S) = SumFunctionOnSet(rest, S) + SumFunctionOnSet(new, S)
    BY <1>1, SumPlus
  <2> QED BY <1>2, <1>3, <2>1, <2>2
<1> QED BY <1>1, <1>4, <1>5

LEMMA HighestNumber ==
  ASSUME NEW n \in Nat, NEW T \in SUBSET (1 .. n), T # {}
  PROVE  Max(T) \in T /\ \A j \in T : j <= Max(T)
<1> DEFINE below == {n - j : j \in T}
<1>1. below \in SUBSET Nat /\ below # {}
  <2>1. \A j \in T : n - j \in Nat
    OBVIOUS
  <2>2. below \in SUBSET Nat
    BY <2>1
  <2>3. PICK j : j \in T
    OBVIOUS
  <2>4. n - j \in below
    BY <2>3
  <2> QED BY <2>2, <2>4
<1>2. PICK d \in below : \A k \in below : d <= k
  BY <1>1, LowestNumber
<1>3. PICK i \in T : d = n - i
  BY <1>2
<1>4. \A j \in T : n - j \in below
  OBVIOUS
<1> HIDE DEF below
<1>5. \A j \in T : n - i <= n - j
  BY <1>2, <1>3, <1>4
<1>6. \A j \in T : j <= i
  BY <1>5
<1> QED BY <1>6 DEF Max

LEMMA TopOfInterval ==
  ASSUME NEW n \in Nat, NEW m \in 1 .. n
  PROVE  Max(1 .. m) = m /\ (1 .. m) \ {Max(1 .. m)} = 1 .. m - 1
<1>1. Max(1 .. m) \in 1 .. m /\ \A j \in 1 .. m : j <= Max(1 .. m)
  <2>1. 1 .. m \in SUBSET (1 .. n) /\ 1 .. m # {}
    OBVIOUS
  <2> QED BY <2>1, HighestNumber
<1>2. Max(1 .. m) = m
  BY <1>1
<1> QED BY <1>2

(* h[T] is what folding the steps in T, the highest last, makes of base.   *)
FoldsSteps(h, n, A, base, step) ==
  /\ h \in [SUBSET (1 .. n) -> A]
  /\ \A T \in SUBSET (1 .. n) :
       h[T] = IF T = {} THEN base ELSE step[Max(T)][h[T \ {Max(T)}]]

LEMMA FoldDefined ==
  ASSUME NEW n \in Nat, NEW A, NEW base \in A, NEW step \in [1 .. n -> [A -> A]]
  PROVE  \E h : FoldsSteps(h, n, A, base, step)
<1> DEFINE pick == [T \in SUBSET (1 .. n) |-> Max(T)]
<1>1. Picks(pick, 1 .. n)
  BY HighestNumber DEF Picks
<1>2. IsFiniteSet(1 .. n)
  BY FS_Interval
<1>3. \A T \in SUBSET (1 .. n) : pick[T] = Max(T)
  OBVIOUS
<1> HIDE DEF pick
<1>4. PICK h : TakesApart(h, 1 .. n, A, base, step, pick)
  BY <1>1, <1>2, TakingApartDefines
<1>5. \A T \in SUBSET (1 .. n) :
        h[T] = IF T = {} THEN base ELSE step[Max(T)][h[T \ {Max(T)}]]
  BY <1>3, <1>4 DEF TakesApart
<1> QED BY <1>4, <1>5 DEF TakesApart, FoldsSteps

-----------------------------------------------------------------------------
(* Counting what a sequence holds.                                         *)

Occurrences(x, s) == Cardinality({j \in DOMAIN s : s[j] = x})

LEMMA OccurrencesType ==
  ASSUME NEW S, NEW s \in Seq(S), NEW x
  PROVE  /\ IsFiniteSet({j \in DOMAIN s : s[j] = x})
         /\ Occurrences(x, s) \in Nat
         /\ (\A j \in DOMAIN s : s[j] # x) => Occurrences(x, s) = 0
<1>1. {j \in DOMAIN s : s[j] = x} \in SUBSET (1 .. Len(s)) /\ Len(s) \in Int
  OBVIOUS
<1>2. IsFiniteSet({j \in DOMAIN s : s[j] = x})
  BY <1>1, FS_Interval, FS_Subset
<1>3. (\A j \in DOMAIN s : s[j] # x) => {j \in DOMAIN s : s[j] = x} = {}
  OBVIOUS
<1> QED BY <1>2, <1>3, FS_CardinalityType, FS_EmptySet DEF Occurrences

LEMMA OccurrencesConcat ==
  ASSUME NEW S, NEW s \in Seq(S), NEW t \in Seq(S), NEW x
  PROVE  Occurrences(x, s \o t) = Occurrences(x, s) + Occurrences(x, t)
<1> DEFINE u == s \o t
           a == Len(s)
           inS == {j \in DOMAIN s : s[j] = x}
           inT == {j \in DOMAIN t : t[j] = x}
           shifted == {j \in a + 1 .. a + Len(t) : t[j - a] = x}
<1>1. /\ u \in Seq(S) /\ Len(u) = a + Len(t) /\ a \in Nat /\ Len(t) \in Nat
      /\ DOMAIN u = 1 .. a + Len(t) /\ DOMAIN s = 1 .. a /\ DOMAIN t = 1 .. Len(t)
      /\ \A j \in 1 .. a : u[j] = s[j]
      /\ \A j \in a + 1 .. a + Len(t) : u[j] = t[j - a]
  OBVIOUS
<1> HIDE DEF u, a
<1>2. {j \in DOMAIN u : u[j] = x} = inS \cup shifted
  <2>1. \A j : j \in 1 .. a + Len(t) <=> j \in 1 .. a \/ j \in a + 1 .. a + Len(t)
    BY <1>1
  <2> QED BY <1>1, <2>1
<1>3. inS \cap shifted = {}
  BY <1>1
<1>4. IsFiniteSet(inS) /\ IsFiniteSet(inT)
  BY OccurrencesType
<1>5. IsFiniteSet(shifted) /\ Cardinality(shifted) = Cardinality(inT)
  <2> DEFINE f == [j \in inT |-> j + a]
  <2>1. f \in Bijection(inT, shifted)
    <3>1. \A j \in inT : j + a \in shifted
      BY <1>1
    <3>2. \A j \in shifted : j - a \in inT /\ (j - a) + a = j
      BY <1>1
    <3>3. \A j, k \in inT : j + a = k + a => j = k
      BY <1>1
    <3>4. f \in [inT -> shifted]
      BY <3>1
    <3>5. \A j \in shifted : f[j - a] = j
      BY <3>2
    <3>6. f \in Injection(inT, shifted)
      BY <3>3, <3>4 DEF Injection, IsInjective
    <3>7. f \in Surjection(inT, shifted)
      <4>1. \A j \in shifted : \E k \in inT : f[k] = j
        BY <3>2, <3>5
      <4> HIDE DEF f
      <4> QED BY <3>4, <4>1 DEF Surjection
    <3> QED BY <3>6, <3>7 DEF Bijection
  <2>2. ExistsBijection(inT, shifted)
    BY <2>1 DEF ExistsBijection
  <2> QED BY <1>4, <2>2, FS_Bijection
<1>6. Cardinality(inS \cup shifted) = Cardinality(inS) + Cardinality(inT)
  <2> HIDE DEF inS, inT, shifted
  <2>1. Cardinality(inS) \in Nat /\ Cardinality(inT) \in Nat
    BY <1>4, FS_CardinalityType
  <2>2. Cardinality(inS \cap shifted) = 0
    BY <1>3, FS_EmptySet
  <2>3. Cardinality(inS \cup shifted) =
          Cardinality(inS) + Cardinality(shifted) - Cardinality(inS \cap shifted)
    BY <1>4, <1>5, FS_Union
  <2> QED BY <1>5, <2>1, <2>2, <2>3
<1> QED BY <1>2, <1>6 DEF Occurrences, u

LEMMA OccurrencesOne ==
  ASSUME NEW x, NEW y
  PROVE  Occurrences(x, <<y>>) = IF x = y THEN 1 ELSE 0
<1>1. DOMAIN <<y>> = {1} /\ <<y>>[1] = y
  OBVIOUS
<1>2. {j \in DOMAIN <<y>> : <<y>>[j] = x} = IF x = y THEN {1} ELSE {}
  BY <1>1
<1> QED BY <1>2, FS_EmptySet, FS_Singleton DEF Occurrences

(* With an element more at the end, and with the first one gone.           *)
LEMMA OccurrencesAppend ==
  ASSUME NEW S, NEW s \in Seq(S), NEW y \in S, NEW x
  PROVE  Occurrences(x, Append(s, y)) = Occurrences(x, s) + IF x = y THEN 1 ELSE 0
<1>1. Append(s, y) = s \o <<y>> /\ <<y>> \in Seq(S)
  OBVIOUS
<1>2. Occurrences(x, s \o <<y>>) = Occurrences(x, s) + Occurrences(x, <<y>>)
  BY <1>1, OccurrencesConcat
<1> QED BY <1>1, <1>2, OccurrencesOne

LEMMA OccurrencesTail ==
  ASSUME NEW S, NEW s \in Seq(S), s # <<>>, NEW x
  PROVE  Occurrences(x, s) = Occurrences(x, Tail(s)) + IF x = Head(s) THEN 1 ELSE 0
<1>1. /\ s = <<Head(s)>> \o Tail(s)
      /\ <<Head(s)>> \in Seq(S) /\ Tail(s) \in Seq(S)
  OBVIOUS
<1>2. Occurrences(x, Tail(s)) \in Nat
  BY <1>1, OccurrencesType
<1>3. Occurrences(x, s) = Occurrences(x, <<Head(s)>>) + Occurrences(x, Tail(s))
  BY <1>1, OccurrencesConcat
<1>4. Occurrences(x, <<Head(s)>>) = IF x = Head(s) THEN 1 ELSE 0
  BY OccurrencesOne
<1> QED BY <1>2, <1>3, <1>4
=============================================================================

--------------------------- MODULE InductionFacts ---------------------------
(***************************************************************************)
(* Least and greatest elements, induction on the natural numbers for a set *)
(* in place of a predicate, and what it shows of FlattenSeq.               *)
(***************************************************************************)
EXTENDS Integers, Sequences, SequencesExt, FiniteSetTheorems, SequenceTheorems, TLAPS

(* Every set of natural numbers that is not empty has a least element: of the
   intervals from 0 to its elements one is in no other. *)
LEMMA LeastNatural ==
  ASSUME NEW T, T \subseteq Nat, T # {}
  PROVE  \E x \in T : \A y \in T : x <= y
<1> DEFINE R == StrictSubsetOrdering(Nat)
           F == {0 .. n : n \in T}
<1>1. F \subseteq FiniteSubsetsOf(Nat)
  <2> SUFFICES ASSUME NEW n \in T PROVE 0 .. n \in FiniteSubsetsOf(Nat)
    OBVIOUS
  <2>1. n \in Int /\ 0 \in Int /\ 0 .. n \in SUBSET Nat
    OBVIOUS
  <2>2. IsFiniteSet(0 .. n)
    BY <2>1, FS_Interval
  <2> QED
    BY <2>1, <2>2 DEF FiniteSubsetsOf
<1>2. F # {}
  OBVIOUS
<1>3. IsWellFoundedOn(R, FiniteSubsetsOf(Nat))
  BY FS_StrictSubsetOrderingWellFounded
<1>4. \A x, y \in T : y < x => <<0 .. y, 0 .. x>> \in R
  <2> SUFFICES ASSUME NEW x \in T, NEW y \in T, y < x
               PROVE  <<0 .. y, 0 .. x>> \in R
    OBVIOUS
  <2>1. x \in Nat /\ y \in Nat
    OBVIOUS
  <2>2. (0 .. y) \subseteq (0 .. x) /\ x \in 0 .. x /\ x \notin 0 .. y
    BY <2>1
  <2> QED
    BY <2>1, <2>2 DEF StrictSubsetOrdering
<1>5. PICK U \in F : \A V \in F : ~ (<<V, U>> \in R)
  <2> HIDE DEF F, R
  <2> QED
    BY <1>1, <1>2, <1>3, WFMin
<1>6. PICK x \in T : U = 0 .. x
  OBVIOUS
<1>7. \A y \in T : ~ (y < x)
  <2> HIDE DEF R
  <2> QED
    BY <1>4, <1>5, <1>6
<1> QED
  BY <1>7

(* A finite set of integers that is not empty has a greatest element: of the sets
   of those above an element one is minimal, and it is empty. *)
LEMMA GreatestInteger ==
  ASSUME NEW T, T \subseteq Int, IsFiniteSet(T), T # {}
  PROVE  \E x \in T : \A y \in T : y <= x
<1> DEFINE R == StrictSubsetOrdering(Int)
           Above(x) == {y \in T : y > x}
           F == {Above(x) : x \in T}
<1>1. F \subseteq FiniteSubsetsOf(Int)
  <2> SUFFICES ASSUME NEW x \in T PROVE Above(x) \in FiniteSubsetsOf(Int)
    OBVIOUS
  <2>1. Above(x) \in SUBSET T /\ Above(x) \in SUBSET Int
    OBVIOUS
  <2>2. IsFiniteSet(Above(x))
    BY <2>1, FS_Subset
  <2> QED
    BY <2>1, <2>2 DEF FiniteSubsetsOf
<1>2. IsWellFoundedOn(R, FiniteSubsetsOf(Int))
  BY FS_StrictSubsetOrderingWellFounded
<1>3. PICK U \in F : \A V \in F : ~ (<<V, U>> \in R)
  <2>1. F # {}
    OBVIOUS
  <2> HIDE DEF F, R
  <2> QED
    BY <1>1, <1>2, <2>1, WFMin
<1>4. PICK x \in T : U = Above(x)
  OBVIOUS
<1>5. \A y \in T : ~ (y > x)
  <2> SUFFICES ASSUME NEW y \in T, y > x PROVE FALSE
    OBVIOUS
  <2>1. x \in Int /\ y \in Int
    OBVIOUS
  <2>2. Above(y) \subseteq Above(x) /\ y \in Above(x) /\ y \notin Above(y)
    <3>1. ASSUME NEW z \in Above(y) PROVE z \in Above(x)
      <4>1. z \in T /\ z \in Int /\ z > y
        BY <3>1
      <4> QED
        BY <2>1, <4>1
    <3>2. y \in Above(x) /\ ~ (y > y)
      BY <2>1
    <3> QED
      BY <3>1, <3>2
  <2>3. Above(x) \in SUBSET Int /\ Above(y) \in SUBSET Int
    OBVIOUS
  <2>4. <<Above(y), Above(x)>> \in R
    BY <2>2, <2>3 DEF StrictSubsetOrdering
  <2> QED
    BY <1>3, <1>4, <2>4
<1> QED
  BY <1>5

(* What Max and Min are. *)
LEMMA MaxIs ==
  ASSUME NEW T, T \subseteq Int, IsFiniteSet(T), T # {}
  PROVE  Max(T) \in T /\ \A y \in T : y <= Max(T)
<1>1. \E x \in T : \A y \in T : y <= x
  BY GreatestInteger
<1>2. \E x \in T : \A y \in T : x >= y
  BY <1>1
<1> QED
  BY <1>2 DEF Max

LEMMA MinIs ==
  ASSUME NEW T, T \subseteq Nat, T # {}
  PROVE  Min(T) \in T /\ \A y \in T : Min(T) <= y
BY LeastNatural DEF Min

(* A function has as many values as arguments at most. *)
LEMMA ImageFinite ==
  ASSUME NEW S, IsFiniteSet(S), NEW T, NEW f \in [S -> T]
  PROVE  IsFiniteSet({f[x] : x \in S})
<1> DEFINE V == {f[x] : x \in S}
<1>1. f \in Surjection(S, V)
  BY DEF Surjection
<1> QED
  BY <1>1, FS_Surjection

(* A set that has 0, and with a number the next one, has all of them. *)
LEMMA SetInduction ==
  ASSUME NEW S, 0 \in S, \A n \in Nat : n \in S => n + 1 \in S
  PROVE  Nat \subseteq S
<1> SUFFICES ASSUME NEW n \in Nat, n \notin S
             PROVE  FALSE
  OBVIOUS
<1> DEFINE T == {m \in Nat : m \notin S}
<1>1. PICK x \in T : \A y \in T : x <= y
  BY LeastNatural
<1>2. x # 0 /\ x - 1 \in Nat /\ x - 1 \notin T
  BY <1>1
<1> QED
  BY <1>1, <1>2

(* The recursive function inside FlattenSeq, for a list ss of n >= 1 sequences:
   f[k] is the first k of them, one after the other. *)
Flattens(f, ss) ==
  f = [i \in 1 .. Len(ss) |-> IF i = 1 THEN ss[i] ELSE f[i - 1] \o ss[i]]

(* There is such a function. *)
LEMMA FlatteningExists ==
  ASSUME NEW A, NEW ss \in Seq(Seq(A)), ss # <<>>
  PROVE  \E f : Flattens(f, ss)
<1> DEFINE Step(f, i) == IF i = 1 THEN ss[i] ELSE f[i - 1] \o ss[i]
           S == {k \in Nat : \E f : f = [i \in 1 .. k |-> Step(f, i)]}
<1>1. 0 \in S
  <2> DEFINE e == [i \in 1 .. 0 |-> {}]
  <2>1. e = [i \in 1 .. 0 |-> Step(e, i)]
    OBVIOUS
  <2> QED
    BY <2>1
<1>2. ASSUME NEW k \in Nat, k \in S
      PROVE  k + 1 \in S
  <2>1. PICK f : f = [i \in 1 .. k |-> Step(f, i)]
    BY <1>2
  <2> DEFINE g == [i \in 1 .. k + 1 |-> IF i <= k THEN f[i] ELSE Step(f, i)]
  <2>2. ASSUME NEW i \in 1 .. k + 1
        PROVE  g[i] = Step(g, i)
    <3>1. CASE i <= k
      <4>1. i \in 1 .. k /\ g[i] = f[i]
        BY <3>1
      <4>3. f[i] = Step(f, i)
        <5> HIDE DEF Step
        <5> QED
          BY <2>1, <4>1
      <4>2. i # 1 => i - 1 \in 1 .. k + 1 /\ i - 1 <= k
        BY <3>1
      <4> QED
        BY <4>1, <4>2, <4>3
    <3>2. CASE ~ (i <= k)
      <4>2. i # 1 => i - 1 \in 1 .. k + 1 /\ i - 1 <= k
        BY <3>2
      <4> QED
        BY <3>2, <4>2
    <3> QED
      BY <3>1, <3>2
  <2>3. g = [i \in 1 .. k + 1 |-> Step(g, i)]
    <3>1. g = [i \in 1 .. k + 1 |-> g[i]]
      OBVIOUS
    <3> HIDE DEF g, Step
    <3> QED
      BY <2>2, <3>1
  <2> HIDE DEF g, Step
  <2> QED
    BY <2>3
<1> HIDE DEF S
<1>3. Nat \subseteq S
  BY <1>1, <1>2, SetInduction
<1>4. Len(ss) \in S
  BY <1>3
<1> USE DEF S
<1>5. PICK f : f = [i \in 1 .. Len(ss) |-> Step(f, i)]
  <2> HIDE DEF Step
  <2> QED
    BY <1>4
<1> QED
  BY <1>5 DEF Flattens

(* FlattenSeq is the last value of such a function. *)
LEMMA FlattenSeqIs ==
  ASSUME NEW A, NEW ss \in Seq(Seq(A)), ss # <<>>
  PROVE  \E f : Flattens(f, ss) /\ FlattenSeq(ss) = f[Len(ss)]
<1> DEFINE f == CHOOSE f : Flattens(f, ss)
<1>1. Flattens(f, ss)
  BY FlatteningExists
<1>2. FlattenSeq(ss) = f[Len(ss)]
  BY DEF FlattenSeq, Flattens
<1> QED
  BY <1>1, <1>2
=============================================================================

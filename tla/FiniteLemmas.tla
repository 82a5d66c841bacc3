----------------------------- MODULE FiniteLemmas -----------------------------
(***************************************************************************)
(* What the other proofs need of finite sets: least and greatest elements, *)
(* and the value of the folds of the community modules.  A fold is defined *)
(* by recursion over the subsets of its domain; it has a value because a   *)
(* smallest subset without one cannot be.                                  *)
(***************************************************************************)
EXTENDS Integers, FiniteSets, FiniteSetTheorems, WellFoundedInduction, TLAPS

LEMMA LeastIn ==
    ASSUME NEW T \in SUBSET Nat, T # {}
    PROVE  \E x \in T : \A y \in T : x <= y
<1> DEFINE R == OpToRel(<, Nat)
<1>1. IsWellFoundedOn(R, Nat)
  BY NatLessThanWellFounded
<1>2. \E x \in T : \A y \in T : ~(<<y, x>> \in R)
  <2> HIDE DEF R
  <2> QED BY <1>1, WFMin
<1>3. \A x, y \in Nat : ~(<<y, x>> \in R) => x <= y
  BY DEF OpToRel
<1> QED BY <1>2, <1>3

(***************************************************************************)
(* Sums over a finite set                                                  *)
(***************************************************************************)
\* One step of the fold of the community modules, and the fold so far.
Adds(f, g, s) ==
    IF s = {} THEN 0 ELSE LET x == CHOOSE x \in s : TRUE IN f[x] + g[s \ {x}]
Small(S, n) == {s \in SUBSET S : Cardinality(s) <= n}

LEMMA Smaller ==
    ASSUME NEW S, IsFiniteSet(S), NEW s \in SUBSET S, s # {}
    PROVE  LET x == CHOOSE x \in s : TRUE
           IN  /\ x \in s /\ x \in S /\ s \ {x} \in SUBSET S
               /\ Cardinality(s) \in Nat /\ Cardinality(s \ {x}) = Cardinality(s) - 1
               /\ Cardinality(s \ {x}) \in Nat
<1> DEFINE x == CHOOSE x \in s : TRUE
<1>1. x \in s OBVIOUS
<1>2. IsFiniteSet(s) BY FS_Subset
<1> HIDE DEF x
<1>3. IsFiniteSet(s \ {x}) /\ Cardinality(s \ {x}) = Cardinality(s) - 1
  BY <1>1, <1>2, FS_RemoveElement
<1>4. Cardinality(s) \in Nat /\ Cardinality(s \ {x}) \in Nat
  BY <1>2, <1>3, FS_CardinalityType
<1> QED BY <1>1, <1>3, <1>4 DEF x

Unfolds(f, T) == \E g : g = [s \in T |-> Adds(f, g, s)]

LEMMA AddsExtends ==
    ASSUME NEW S, IsFiniteSet(S), NEW f, NEW m \in Nat
    PROVE  Unfolds(f, Small(S, m))
<1> USE DEF Unfolds
<1> DEFINE Bad == {n \in Nat : ~\E g : g = [s \in Small(S, n) |-> Adds(f, g, s)]}
<1>1. SUFFICES ASSUME Bad # {} PROVE FALSE OBVIOUS
<1>2. PICK n \in Bad : \A k \in Bad : n <= k
  <2>1. Bad \in SUBSET Nat OBVIOUS
  <2> HIDE DEF Bad
  <2> QED BY <1>1, <2>1, LeastIn
<1>3. CASE n = 0
  <2> DEFINE g == [s \in Small(S, 0) |-> 0]
  <2>1. \A s \in Small(S, 0) : s = {}
    <3>1. ASSUME NEW s \in Small(S, 0), s # {} PROVE FALSE
      <4>1. s \in SUBSET S /\ Cardinality(s) <= 0 BY DEF Small
      <4> DEFINE x == CHOOSE x \in s : TRUE
      <4>2. /\ Cardinality(s) \in Nat /\ Cardinality(s \ {x}) \in Nat
            /\ Cardinality(s \ {x}) = Cardinality(s) - 1
        BY <3>1, <4>1, Smaller
      <4> QED BY <4>1, <4>2
    <3> QED BY <3>1
  <2>2. \A s \in Small(S, 0) : Adds(f, g, s) = 0 BY <2>1 DEF Adds
  <2>3. g = [s \in Small(S, 0) |-> Adds(f, g, s)] BY <2>2
  <2> QED BY <1>2, <1>3, <2>3
<1>4. CASE n # 0
  <2>1. n \in Nat /\ n - 1 \in Nat /\ n - 1 \notin Bad BY <1>2, <1>4
  <2>2. PICK g : g = [s \in Small(S, n - 1) |-> Adds(f, g, s)] BY <2>1
  <2> DEFINE h == [s \in Small(S, n) |-> Adds(f, g, s)]
  <2>3. \A s \in Small(S, n - 1) : s \in Small(S, n) /\ h[s] = g[s]
    <3>1. ASSUME NEW s \in Small(S, n - 1) PROVE s \in Small(S, n)
      <4>1. s \in SUBSET S /\ Cardinality(s) <= n - 1 BY DEF Small
      <4>2. IsFiniteSet(s) BY <4>1, FS_Subset
      <4>3. Cardinality(s) \in Nat BY <4>2, FS_CardinalityType
      <4> QED BY <2>1, <4>1, <4>3 DEF Small
    <3>2. \A s \in Small(S, n - 1) : g[s] = Adds(f, g, s) BY <2>2
    <3> QED BY <3>1, <3>2
  <2> HIDE DEF h
  <2>4. \A s \in Small(S, n) : Adds(f, h, s) = Adds(f, g, s)
    <3> SUFFICES ASSUME NEW s \in Small(S, n), s # {} PROVE Adds(f, h, s) = Adds(f, g, s)
      BY DEF Adds
    <3> DEFINE x == CHOOSE x \in s : TRUE
    <3>1. s \in SUBSET S /\ Cardinality(s) <= n BY DEF Small
    <3>2. /\ s \ {x} \in SUBSET S /\ Cardinality(s) \in Nat
          /\ Cardinality(s \ {x}) = Cardinality(s) - 1
      BY <3>1, Smaller
    <3>3. s \ {x} \in Small(S, n - 1)
      <4> HIDE DEF x
      <4> QED BY <2>1, <3>1, <3>2 DEF Small
    <3>4. h[s \ {x}] = g[s \ {x}] BY <2>3, <3>3
    <3> QED BY <3>4 DEF Adds
  <2>5. h = [s \in Small(S, n) |-> Adds(f, h, s)] BY <2>4 DEF h
  <2> QED BY <1>2, <2>5
<1> QED BY <1>3, <1>4

LEMMA FoldTyped ==
    ASSUME NEW S, IsFiniteSet(S), NEW f \in [S -> Int]
    PROVE  (CHOOSE g : g = [s \in SUBSET S |-> Adds(f, g, s)])[S] \in Int
<1> DEFINE all == CHOOSE g : g = [s \in SUBSET S |-> Adds(f, g, s)]
<1>3. \E g : g = [s \in SUBSET S |-> Adds(f, g, s)]
  <2>1. \A m \in Nat : Unfolds(f, Small(S, m)) BY AddsExtends
  <2>2. Cardinality(S) \in Nat /\ SUBSET S = Small(S, Cardinality(S))
    BY FS_Subset, FS_CardinalityType DEF Small
  <2>3. Unfolds(f, SUBSET S) BY <2>1, <2>2
  <2> QED BY <2>3 DEF Unfolds
<1>4. all = [s \in SUBSET S |-> Adds(f, all, s)] BY <1>3
<1> HIDE DEF all
<1> DEFINE Bad == {Cardinality(s) : s \in {t \in SUBSET S : all[t] \notin Int}}
<1>5. Bad = {}
  <2> SUFFICES ASSUME Bad # {} PROVE FALSE OBVIOUS
  <2>1. Bad \in SUBSET Nat
    <3>1. \A s \in SUBSET S : Cardinality(s) \in Nat BY FS_Subset, FS_CardinalityType
    <3> QED BY <3>1
  <2>2. PICK n \in Bad : \A k \in Bad : n <= k
    <3> HIDE DEF Bad
    <3> QED BY <2>1, LeastIn
  <2>3. PICK s \in SUBSET S : Cardinality(s) = n /\ all[s] \notin Int OBVIOUS
  <2>4. all[s] = Adds(f, all, s) BY <1>4
  <2>5. s # {} BY <2>3, <2>4 DEF Adds
  <2> DEFINE x == CHOOSE x \in s : TRUE
  <2>6. /\ x \in S /\ s \ {x} \in SUBSET S /\ Cardinality(s) \in Nat
        /\ Cardinality(s \ {x}) = Cardinality(s) - 1
    BY <2>5, Smaller
  <2>7. all[s] = f[x] + all[s \ {x}] BY <2>4, <2>5 DEF Adds
  <2> HIDE DEF x
  <2>8. all[s \ {x}] \in Int
    <3>1. SUFFICES ASSUME all[s \ {x}] \notin Int PROVE FALSE OBVIOUS
    <3>2. Cardinality(s \ {x}) \in Bad BY <2>6, <3>1
    <3>3. n <= Cardinality(s \ {x}) BY <2>2, <3>2
    <3> QED BY <2>3, <2>6, <3>3
  <2> QED BY <2>3, <2>6, <2>7, <2>8
<1> QED BY <1>5 DEF all

(***************************************************************************)
(* The greatest of a finite set                                            *)
(***************************************************************************)
LEMMA GreatestIn ==
    ASSUME NEW R \in SUBSET Int, R # {}, IsFiniteSet(R)
    PROVE  \E a \in R : \A b \in R : a >= b
<1> DEFINE Best(T) == \E a \in T : \A b \in T : a >= b
           Bad == {Cardinality(T) : T \in {T \in SUBSET R : T # {} /\ ~Best(T)}}
<1>1. SUFFICES ASSUME Bad # {} PROVE FALSE OBVIOUS
<1>2. Bad \in SUBSET Nat
  <2>1. \A T \in SUBSET R : Cardinality(T) \in Nat BY FS_Subset, FS_CardinalityType
  <2> HIDE DEF Best
  <2> QED BY <2>1
<1>3. PICK n \in Bad : \A k \in Bad : n <= k
  <2> HIDE DEF Bad
  <2> QED BY <1>1, <1>2, LeastIn
<1>4. PICK T \in SUBSET R : T # {} /\ ~Best(T) /\ Cardinality(T) = n
  <2> HIDE DEF Best
  <2> QED OBVIOUS
<1>5. PICK a \in T : TRUE BY <1>4
<1>6. T \ {a} # {}
  <2>1. T \ {a} = {} => Best(T) OBVIOUS
  <2> QED BY <1>4, <2>1
<1>7. Best(T \ {a})
  <2> HIDE DEF Best
  <2>1. SUFFICES ASSUME ~Best(T \ {a}) PROVE FALSE OBVIOUS
  <2>2. IsFiniteSet(T) BY FS_Subset
  <2>3. Cardinality(T \ {a}) = Cardinality(T) - 1 /\ Cardinality(T) \in Nat
    BY <2>2, FS_RemoveElement, FS_CardinalityType
  <2>4. Cardinality(T \ {a}) \in Bad BY <1>6, <2>1
  <2>5. n <= Cardinality(T \ {a}) BY <1>3, <2>4
  <2> QED BY <1>4, <2>3, <2>5
<1>8. PICK m \in T \ {a} : \A b \in T \ {a} : m >= b BY <1>7
<1>9. a \in Int /\ m \in Int OBVIOUS
<1>10. CASE m >= a BY <1>4, <1>8, <1>10
<1>11. CASE a >= m
  <2>1. \A b \in T : a >= b BY <1>8, <1>9, <1>11
  <2> QED BY <1>4, <2>1
<1> QED BY <1>9, <1>10, <1>11
===============================================================================

------------------------------ MODULE Recursion ------------------------------
(***************************************************************************)
(* Induction and recursion over the natural numbers, on sets and functions *)
(* rather than on operators: a set that has 0 and with each number the     *)
(* next has them all, and a function that is defined step by step exists.  *)
(* The loops of the code over columns, tags and rows are such functions.   *)
(***************************************************************************)
EXTENDS Integers, Sequences, WellFoundedInduction, TLAPS

(* A set of numbers has a least.                                           *)
LEMMA LeastNat ==
    ASSUME NEW T, T \subseteq Nat, T # {}
    PROVE  \E x \in T : \A y \in T : x <= y
  <1>1. \E x \in T : \A y \in T : ~ (<<y, x>> \in OpToRel(<, Nat))
    BY WFMin, NatLessThanWellFounded, Zenon
  <1>2. PICK x \in T : \A y \in T : ~ (<<y, x>> \in OpToRel(<, Nat))
    BY <1>1, Zenon
  <1>3. ASSUME NEW y \in T PROVE ~(y < x)
    BY <1>2 DEF OpToRel
  <1>4. ASSUME NEW y \in T PROVE x <= y
    BY <1>3
  <1> QED
    BY <1>4

LEMMA Induction ==
    ASSUME NEW T, 0 \in T, \A n \in Nat : n \in T => n + 1 \in T
    PROVE  Nat \subseteq T
  <1> SUFFICES ASSUME NEW k \in Nat, k \notin T PROVE FALSE
    OBVIOUS
  <1>1. PICK x \in Nat \ T : \A y \in Nat \ T : x <= y
    BY LeastNat
  <1>2. x # 0 /\ x - 1 \in Nat
    BY <1>1
  <1>3. x - 1 \in T
    BY <1>1, <1>2
  <1>4. (x - 1) + 1 \in T
    BY <1>2, <1>3
  <1> QED
    BY <1>1, <1>4

(* Up to a bound.                                                          *)
LEMMA InductionTo ==
    ASSUME NEW n \in Nat, NEW T, 0 \in T,
           \A i \in 0..(n - 1) : i \in T => i + 1 \in T
    PROVE  0..n \subseteq T
  <1> DEFINE U == {i \in Nat : i <= n => i \in T}
  <1>1. Nat \subseteq U
    <2>1. 0 \in U
      OBVIOUS
    <2>2. \A i \in Nat : i \in U => i + 1 \in U
      OBVIOUS
    <2> HIDE DEF U
    <2> QED
      BY <2>1, <2>2, Induction
  <1> QED
    BY <1>1

(* The results of a loop of n turns, after each of them.                   *)
IsLoop(w, n, S, base, step) ==
    /\ w \in [0..n -> S]
    /\ w[0] = base
    /\ \A i \in 1..n : w[i] = step[<<w[i - 1], i>>]

LEMMA LoopExists ==
    ASSUME NEW n \in Nat, NEW S, NEW base \in S, NEW step \in [S \X (1..n) -> S]
    PROVE  \E w : IsLoop(w, n, S, base, step)
  <1> DEFINE T == {m \in 0..n : \E w : IsLoop(w, m, S, base, step)}
  <1>1. 0 \in T
    <2> DEFINE w == [i \in 0..0 |-> base]
    <2>1. IsLoop(w, 0, S, base, step)
      BY DEF IsLoop
    <2> QED
      BY <2>1
  <1>2. ASSUME NEW m \in 0..(n - 1), m \in T PROVE m + 1 \in T
    <2>1. PICK w \in [0..m -> S] : w[0] = base /\ \A i \in 1..m : w[i] = step[<<w[i - 1], i>>]
      BY <1>2 DEF IsLoop
    <2>2. w[m] \in S /\ m + 1 \in 1..n
      BY <2>1
    <2>3. step[<<w[m], m + 1>>] \in S
      BY <2>2
    <2> DEFINE v == [i \in 0..(m + 1) |-> IF i = m + 1 THEN step[<<w[m], m + 1>>] ELSE w[i]]
    <2>4. v \in [0..(m + 1) -> S]
      BY <2>1, <2>3
    <2>5. v[0] = base
      BY <2>1
    <2>6. ASSUME NEW i \in 1..(m + 1) PROVE v[i] = step[<<v[i - 1], i>>]
      <3>1. i - 1 \in 0..m /\ i - 1 # m + 1 /\ i \in 0..(m + 1) /\ i - 1 \in 0..(m + 1)
        OBVIOUS
      <3>2. v[i - 1] = w[i - 1]
        BY <3>1
      <3>3. CASE i = m + 1
        <4>1. v[i] = step[<<w[m], m + 1>>] /\ i - 1 = m
          BY <3>3
        <4> QED
          BY <4>1, <3>2, <3>3
      <3>4. CASE i # m + 1
        <4>1. i \in 1..m /\ v[i] = w[i]
          BY <3>4
        <4> QED
          BY <4>1, <3>2, <2>1
      <3> QED
        BY <3>3, <3>4
    <2>7. IsLoop(v, m + 1, S, base, step)
      <3> HIDE DEF v
      <3> QED
        BY <2>4, <2>5, <2>6 DEF IsLoop
    <2>8. m + 1 \in 0..n
      OBVIOUS
    <2> QED
      BY <2>7, <2>8
  <1>3. 0..n \subseteq T
    <2> HIDE DEF T
    <2> QED
      BY <1>1, <1>2, InductionTo
  <1>4. n \in T
    BY <1>3
  <1> QED
    BY <1>4
=============================================================================

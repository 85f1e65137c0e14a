------------------------------- MODULE Recursion -------------------------------
(* Induction over the natural numbers and recursive definitions, stated for  *)
(* sets and functions instead of operators: what the proofs about the        *)
(* byte-wise folds of the data path rest on.  Nothing here is about the      *)
(* simulator.                                                                *)
EXTENDS Integers, TLAPS, WellFoundedInduction

(* Every non-empty set of natural numbers has a least element.               *)
LEMMA LeastElement ==
    ASSUME NEW T \in SUBSET Nat, T # {}
    PROVE  \E x \in T : \A y \in T : x <= y
<1>1. \E x \in T : \A y \in T : ~(<<y, x>> \in OpToRel(<, Nat))
  BY NatLessThanWellFounded, WFMin, Zenon
<1>2. \E x \in T : \A y \in T : ~(y < x)
  BY <1>1, Zenon DEF OpToRel
<1> QED
  BY <1>2

(* A set that holds 0 and with each number the next holds all of them.       *)
LEMMA SetInduction ==
    ASSUME NEW T, 0 \in T, \A n \in Nat : n \in T => n + 1 \in T
    PROVE  Nat \subseteq T
<1> SUFFICES ASSUME Nat \ T # {} PROVE FALSE
  OBVIOUS
<1>1. PICK x \in Nat \ T : \A y \in Nat \ T : x <= y
  BY LeastElement
<1>2. x # 0 /\ x - 1 \in Nat /\ x - 1 \in T
  BY <1>1
<1>3. (x - 1) + 1 \in T
  BY <1>2
<1> QED
  BY <1>1, <1>3

(* f starts at a, and step[i] takes its value at i - 1 to the one at i.      *)
Recurs(f, a, step, n) == f[0] = a /\ \A i \in 1 .. n : f[i] = step[i][f[i - 1]]

(* Primitive recursion up to n has a solution.                               *)
LEMMA RecursiveFunctionExists ==
    ASSUME NEW S, NEW a \in S, NEW n \in Nat, NEW step \in [1 .. n -> [S -> S]]
    PROVE  \E f \in [0 .. n -> S] : Recurs(f, a, step, n)
<1> DEFINE T == {m \in Nat : m <= n => \E f \in [0 .. m -> S] : Recurs(f, a, step, m)}
<1>1. 0 \in T
  <2> DEFINE f == [i \in 0 .. 0 |-> a]
  <2>1. f \in [0 .. 0 -> S] /\ Recurs(f, a, step, 0)
    BY DEF Recurs
  <2> QED
    BY <2>1
<1>2. ASSUME NEW m \in Nat, m \in T PROVE m + 1 \in T
  <2> SUFFICES ASSUME m + 1 <= n PROVE \E f \in [0 .. m + 1 -> S] : Recurs(f, a, step, m + 1)
    OBVIOUS
  <2>1. PICK g \in [0 .. m -> S] : Recurs(g, a, step, m)
    BY <1>2
  <2> DEFINE f == [i \in 0 .. m + 1 |-> IF i = m + 1 THEN step[m + 1][g[m]] ELSE g[i]]
  <2>2. f \in [0 .. m + 1 -> S]
    OBVIOUS
  <2>3. f[0] = a /\ \A i \in 0 .. m : f[i] = g[i]
    BY <2>1 DEF Recurs
  <2>4. ASSUME NEW i \in 1 .. m + 1 PROVE f[i] = step[i][f[i - 1]]
    <3>1. CASE i = m + 1
      <4>1. i - 1 = m /\ m \in 0 .. m
        BY <3>1
      <4>2. f[i] = step[m + 1][g[m]] /\ f[i - 1] = g[m]
        BY <3>1, <4>1, <2>3
      <4> QED
        BY <3>1, <4>2
    <3>2. CASE i # m + 1
      <4>1. i \in 1 .. m /\ i \in 0 .. m /\ i - 1 \in 0 .. m
        BY <3>2
      <4>2. f[i] = g[i] /\ f[i - 1] = g[i - 1]
        BY <4>1, <2>3
      <4> QED
        BY <4>1, <4>2, <2>1 DEF Recurs
    <3> QED
      BY <3>1, <3>2
  <2>5. Recurs(f, a, step, m + 1)
    BY <2>3, <2>4 DEF Recurs
  <2> QED
    BY <2>2, <2>5
<1>3. n \in T
  <2> HIDE DEF T
  <2> QED
    BY <1>1, <1>2, SetInduction
<1> QED
  BY <1>3

(* Values that start in a set and stay in it from each to the next are in it. *)
LEMMA ValuesStayIn ==
    ASSUME NEW S, NEW n \in Nat, NEW f,
           f[0] \in S, \A i \in 1 .. n : f[i - 1] \in S => f[i] \in S
    PROVE  \A i \in 0 .. n : f[i] \in S
<1> DEFINE T == {i \in Nat : i <= n => f[i] \in S}
<1>1. ASSUME NEW i \in Nat, i \in T PROVE i + 1 \in T
  <2> SUFFICES ASSUME i + 1 <= n PROVE f[i + 1] \in S
    OBVIOUS
  <2>1. f[i] \in S /\ i + 1 \in 1 .. n /\ (i + 1) - 1 = i
    BY <1>1
  <2> QED
    BY <2>1
<1>2. 0 \in T
  OBVIOUS
<1>3. Nat \subseteq T
  <2> HIDE DEF T
  <2> QED
    BY <1>1, <1>2, SetInduction
<1> QED
  BY <1>3

(* Two solutions agree as far as both go.                                    *)
LEMMA RecursiveFunctionUnique ==
    ASSUME NEW a, NEW step, NEW f, NEW g, NEW m \in Nat, NEW n \in Nat,
           Recurs(f, a, step, m), Recurs(g, a, step, n)
    PROVE  \A i \in Nat : i <= m /\ i <= n => f[i] = g[i]
<1> DEFINE T == {i \in Nat : i <= m /\ i <= n => f[i] = g[i]}
<1>1. 0 \in T
  BY DEF Recurs
<1>2. ASSUME NEW i \in Nat, i \in T PROVE i + 1 \in T
  <2> SUFFICES ASSUME i + 1 <= m, i + 1 <= n PROVE f[i + 1] = g[i + 1]
    OBVIOUS
  <2>1. f[i] = g[i] /\ i + 1 \in 1 .. m /\ i + 1 \in 1 .. n /\ (i + 1) - 1 = i
    BY <1>2
  <2>2. f[i + 1] = step[i + 1][f[(i + 1) - 1]] /\ g[i + 1] = step[i + 1][g[(i + 1) - 1]]
    BY <2>1 DEF Recurs
  <2> QED
    BY <2>1, <2>2
<1>3. Nat \subseteq T
  <2> HIDE DEF T
  <2> QED
    BY <1>1, <1>2, SetInduction
<1> QED
  BY <1>3

(* Primitive recursion over all natural numbers has a solution.              *)
LEMMA RecursiveFunctionOnNatExists ==
    ASSUME NEW S, NEW a \in S, NEW step \in [Nat \ {0} -> [S -> S]]
    PROVE  \E f \in [Nat -> S] : \A n \in Nat : Recurs(f, a, step, n)
<1> DEFINE Upto(n) == {g \in [0 .. n -> S] : Recurs(g, a, step, n)}
<1>1. ASSUME NEW n \in Nat PROVE \E g : g \in Upto(n)
  <2> DEFINE part == [i \in 1 .. n |-> step[i]]
  <2>1. part \in [1 .. n -> [S -> S]]
    OBVIOUS
  <2>2. PICK g \in [0 .. n -> S] : Recurs(g, a, part, n)
    <3> HIDE DEF part
    <3> QED
      BY <2>1, RecursiveFunctionExists
  <2>3. Recurs(g, a, step, n)
    BY <2>2 DEF Recurs
  <2> QED
    BY <2>3
<1> DEFINE f == [n \in Nat |-> (CHOOSE g : g \in Upto(n))[n]]
<1>2. ASSUME NEW n \in Nat, NEW g \in Upto(n) PROVE f[n] = g[n]
  <2> DEFINE h == CHOOSE h : h \in Upto(n)
  <2>1. h \in Upto(n)
    BY <1>2, Zenon
  <2>2. f[n] = h[n]
    OBVIOUS
  <2> HIDE DEF h, f
  <2>3. Recurs(h, a, step, n) /\ Recurs(g, a, step, n)
    BY <2>1
  <2>4. \A i \in Nat : i <= n /\ i <= n => h[i] = g[i]
    BY <2>3, RecursiveFunctionUnique
  <2> QED
    BY <2>2, <2>4
<1> f = [n \in Nat |-> f[n]]
  OBVIOUS
<1> HIDE DEF f
<1>3. f \in [Nat -> S]
  <2> SUFFICES ASSUME NEW n \in Nat PROVE f[n] \in S
    OBVIOUS
  <2> QED
    BY <1>1, <1>2
<1>4. f[0] = a
  <2> PICK g : g \in Upto(0)
    BY <1>1
  <2> QED
    BY <1>2 DEF Recurs
<1>5. ASSUME NEW n \in Nat \ {0} PROVE f[n] = step[n][f[n - 1]]
  <2>1. PICK g : g \in Upto(n)
    BY <1>1
  <2> DEFINE h == [i \in 0 .. n - 1 |-> g[i]]
  <2>2. n - 1 \in Nat /\ n \in 1 .. n /\ h \in [0 .. n - 1 -> S] /\ h[n - 1] = g[n - 1]
    BY <2>1
  <2>3. Recurs(h, a, step, n - 1)
    <3>1. h[0] = a
      BY <2>1 DEF Recurs
    <3>2. ASSUME NEW i \in 1 .. n - 1 PROVE h[i] = step[i][h[i - 1]]
      <4>1. i \in 0 .. n - 1 /\ i - 1 \in 0 .. n - 1 /\ i \in 1 .. n
        OBVIOUS
      <4>2. h[i] = g[i] /\ h[i - 1] = g[i - 1]
        BY <4>1
      <4> QED
        BY <2>1, <4>1, <4>2 DEF Recurs
    <3> QED
      BY <3>1, <3>2 DEF Recurs
  <2>4. f[n - 1] = g[n - 1]
    <3> HIDE DEF h
    <3> QED
      BY <1>2, <2>2, <2>3
  <2>5. f[n] = g[n] /\ g[n] = step[n][g[n - 1]]
    BY <1>2, <2>1, <2>2 DEF Recurs
  <2> QED
    BY <2>4, <2>5
<1> QED
  BY <1>3, <1>4, <1>5 DEF Recurs

=============================================================================

---------------------------- MODULE DataInduction ----------------------------
(***************************************************************************)
(* Induction over data in first-order form: a set of naturals instead of a  *)
(* predicate, a function instead of an operator.  With it the values of a   *)
(* function that is defined by recursion on 0 .. n can be reasoned about.   *)
(***************************************************************************)
EXTENDS Integers, WellFoundedInduction, TLAPS

-----------------------------------------------------------------------------
\* A set of naturals that is not empty has a least element.
LEMMA Minimum ==
  ASSUME NEW T \in SUBSET Nat, T # {}
  PROVE  \E x \in T : \A y \in T : x <= y
<1> DEFINE R == {ss \in Nat \X Nat : ss[1] < ss[2]}
<1>1. IsWellFoundedOn(R, Nat)
  BY NatLessThanWellFounded DEF OpToRel
<1>2. \A x, y \in Nat : x < y => <<x, y>> \in R
  OBVIOUS
<1> HIDE DEF R
<1>3. PICK x \in T : \A y \in T : ~(<<y, x>> \in R)
  BY <1>1, WFMin
<1>4. ASSUME NEW y \in T
      PROVE  x <= y
  <2>1. x \in Nat /\ y \in Nat
    OBVIOUS
  <2>2. ~(<<y, x>> \in R)
    BY <1>3
  <2>3. ~(y < x)
    BY <1>2, <2>1, <2>2, Zenon
  <2> QED
    BY <2>1, <2>3
<1> QED
  BY <1>4

\* A set of naturals below n that is not empty has a greatest element.
LEMMA Maximum ==
  ASSUME NEW n \in Nat, NEW T \in SUBSET (0 .. n - 1), T # {}
  PROVE  \E x \in T : \A y \in T : y <= x
<1> DEFINE D == {n - x : x \in T}
<1>1. D \in SUBSET Nat /\ D # {}
  OBVIOUS
<1>2. PICK d \in D : \A e \in D : d <= e
  <2> HIDE DEF D
  <2> QED  BY <1>1, Minimum
<1>3. PICK x \in T : d = n - x
  OBVIOUS
<1>4. ASSUME NEW y \in T
      PROVE  y <= x
  <2>1. n - y \in D
    OBVIOUS
  <2>2. d <= n - y
    BY <1>2, <2>1
  <2>3. y \in Int /\ x \in Int
    OBVIOUS
  <2> QED
    BY <1>3, <2>2, <2>3
<1> QED
  BY <1>4

\* A set that holds 0, and n + 1 with every n, holds every natural.
LEMMA Induction ==
  ASSUME NEW S, 0 \in S, \A n \in Nat : n \in S => n + 1 \in S
  PROVE  Nat \subseteq S
<1> SUFFICES ASSUME Nat \ S # {}
             PROVE  FALSE
  OBVIOUS
<1>1. PICK x \in Nat \ S : \A y \in Nat \ S : x <= y
  BY Minimum
<1>2. x - 1 \in Nat
  BY <1>1
<1>3. x - 1 \notin Nat \ S
  BY <1>1, <1>2
<1>4. x \in S
  BY <1>2, <1>3
<1> QED
  BY <1>1, <1>4

\* The same up to a bound: what holds at 0 and carries over holds on 0 .. n.
LEMMA InductionUpTo ==
  ASSUME NEW n \in Nat, NEW S, 0 \in S,
         \A i \in 1 .. n : i - 1 \in S => i \in S
  PROVE  0 .. n \subseteq S
<1> DEFINE A == {i \in Nat : i <= n => i \in S}
<1>1. 0 \in A
  OBVIOUS
<1>2. \A i \in Nat : i \in A => i + 1 \in A
  <2> SUFFICES ASSUME NEW i \in Nat, i \in A, i + 1 <= n
               PROVE  i + 1 \in S
    OBVIOUS
  <2>1. i + 1 \in 1 .. n /\ (i + 1) - 1 = i
    OBVIOUS
  <2>2. i \in S
    OBVIOUS
  <2> QED
    BY <2>1, <2>2
<1>3. Nat \subseteq A
  <2> HIDE DEF A
  <2> QED  BY <1>1, <1>2, Induction
<1> QED
  BY <1>3

\* A function on 0 .. n that is defined by its first value and a step from each
\* value to the next: it exists.
Steps(X, n) == [X \X (1 .. n) -> X]

Iterates(g, n, X, a, step) ==
  /\ g \in [0 .. n -> X] /\ g[0] = a
  /\ \A i \in 1 .. n : g[i] = step[<<g[i - 1], i>>]

LEMMA Recursion ==
  ASSUME NEW n \in Nat, NEW X, NEW a \in X, NEW step \in Steps(X, n)
  PROVE  \E g : Iterates(g, n, X, a, step)
<1>0. step \in [X \X (1 .. n) -> X]
  BY DEF Steps
<1> DEFINE Upto(m) == \E g \in [0 .. m -> X] :
             /\ g[0] = a
             /\ \A i \in 1 .. m : g[i] = step[<<g[i - 1], i>>]
           S == {m \in 0 .. n : Upto(m)}
<1>1. 0 \in S
  <2>1. [i \in 0 .. 0 |-> a] \in [0 .. 0 -> X]
    OBVIOUS
  <2>2. Upto(0)
    <3> DEFINE g == [i \in 0 .. 0 |-> a]
    <3>1. g[0] = a /\ \A i \in 1 .. 0 : g[i] = step[<<g[i - 1], i>>]
      OBVIOUS
    <3> QED  BY <2>1, <3>1
  <2> QED  BY <2>2
<1>2. ASSUME NEW m \in 1 .. n, m - 1 \in S
      PROVE  m \in S
  <2>1. PICK g \in [0 .. m - 1 -> X] :
          /\ g[0] = a
          /\ \A i \in 1 .. m - 1 : g[i] = step[<<g[i - 1], i>>]
    BY <1>2
  <2> DEFINE h == [i \in 0 .. m |-> IF i = m THEN step[<<g[m - 1], m>>] ELSE g[i]]
  <2>2. g[m - 1] \in X
    OBVIOUS
  <2>3. <<g[m - 1], m>> \in X \X (1 .. n)
    BY <2>2
  <2>4. step[<<g[m - 1], m>>] \in X
    BY <1>0, <2>3
  <2>5. h \in [0 .. m -> X]
    <3>1. \A i \in 0 .. m : i # m => i \in 0 .. m - 1
      OBVIOUS
    <3> QED  BY <2>4, <3>1
  <2>6. h[0] = a
    BY <2>1
  <2>7. ASSUME NEW i \in 1 .. m
        PROVE  h[i] = step[<<h[i - 1], i>>]
    <3>1. h[i - 1] = g[i - 1]
      OBVIOUS
    <3>2. CASE i = m
      <4>1. h[m] = step[<<g[m - 1], m>>]
        BY <1>2
      <4> HIDE DEF h
      <4> QED  BY <3>1, <3>2, <4>1
    <3>3. CASE i # m
      <4>1. i \in 1 .. m - 1 /\ i \in 0 .. m
        BY <3>3
      <4>2. h[i] = g[i]
        BY <3>3, <4>1
      <4>3. g[i] = step[<<g[i - 1], i>>]
        BY <2>1, <4>1
      <4> HIDE DEF h
      <4> QED  BY <3>1, <4>2, <4>3
    <3> QED  BY <3>2, <3>3
  <2>8. Upto(m)
    <3> HIDE DEF h
    <3> QED  BY <2>5, <2>6, <2>7
  <2> QED
    BY <2>8
<1>3. 0 .. n \subseteq S
  <2> HIDE DEF S
  <2> QED  BY <1>1, <1>2, InductionUpTo
<1>4. Upto(n)
  BY <1>3
<1> QED
  BY <1>4 DEF Iterates

=============================================================================

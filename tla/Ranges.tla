------------------------------- MODULE Ranges -------------------------------
(***************************************************************************)
(* Induction and recursion on the numbers up to some other, with a set in  *)
(* the place of a property and a function in that of a step: what the      *)
(* loops of the models, written as recursive functions, are proved with.   *)
(***************************************************************************)
EXTENDS Integers, FiniteSets, WellFoundedInduction, TLAPS

\* A set of natural numbers has a least one.
LEMMA LeastExists ==
  ASSUME NEW S \in SUBSET Nat, S # {}
  PROVE  \E x \in S : \A y \in S : x <= y
<1> DEFINE Precedes == {q \in Nat \X Nat : q[1] < q[2]}
<1>1. IsWellFoundedOn(Precedes, Nat)
  BY NatLessThanWellFounded DEF OpToRel
<1>2. PICK x \in S : \A y \in S : <<y, x>> \notin Precedes
  <2> HIDE DEF Precedes
  <2>1. QED BY <1>1, WFMin
<1>3. ASSUME NEW y \in S PROVE x <= y
  <2>1. x \in Nat /\ y \in Nat
    OBVIOUS
  <2>2. y < x => <<y, x>> \in Precedes
    BY <2>1
  <2> HIDE DEF Precedes
  <2>3. QED
    BY <1>2, <2>1, <2>2
<1>4. QED
  BY <1>3

\* Induction, for a set of numbers in the place of a property.
LEMMA RangeInduction ==
  ASSUME NEW N \in Nat, NEW S, 0 \in S, \A k \in 0..N - 1 : k \in S => k + 1 \in S
  PROVE  0..N \subseteq S
<1> DEFINE Others == (0..N) \ S
<1> SUFFICES ASSUME Others # {} PROVE FALSE
  OBVIOUS
<1>1. Others \in SUBSET Nat
  OBVIOUS
<1>2. PICK x \in Others : \A y \in Others : x <= y
  <2> HIDE DEF Others
  <2>1. QED BY <1>1, LeastExists
<1>3. x # 0 /\ x - 1 \in 0..N - 1 /\ (x - 1) + 1 = x /\ ~(x <= x - 1) /\ x - 1 \in 0..N
  OBVIOUS
<1>4. x - 1 \in S
  BY <1>2, <1>3
<1>5. QED
  BY <1>3, <1>4

\* Loops: a function of the number of steps.
Loops(N, S, base, step) ==
  \E g \in [0..N -> S] : g[0] = base /\ \A n \in 1..N : g[n] = step[n][g[n - 1]]

\* A function that is defined by recursion on a range of numbers exists.
LEMMA RangeRecursion ==
  ASSUME NEW N \in Nat, NEW S, NEW base \in S, NEW step \in [1..N -> [S -> S]]
  PROVE  Loops(N, S, base, step)
<1> DEFINE Upto(m, g) == g[0] = base /\ \A n \in 1..m : g[n] = step[n][g[n - 1]]
           Defined == {m \in 0..N : \E g \in [0..N -> S] : Upto(m, g)}
<1>1. 0 \in Defined
  <2> DEFINE g == [n \in 0..N |-> base]
  <2>1. 0 \in 0..N /\ g \in [0..N -> S] /\ Upto(0, g)
    OBVIOUS
  <2> HIDE DEF g, Upto
  <2>2. QED
    BY <2>1
<1>2. ASSUME NEW m \in 0..N - 1, m \in Defined PROVE m + 1 \in Defined
  <2>1. PICK g \in [0..N -> S] : Upto(m, g)
    BY <1>2
  <2> DEFINE h == [g EXCEPT ![m + 1] = step[m + 1][g[m]]]
  <2>2. m + 1 \in 1..N /\ m \in 0..N /\ m + 1 \in 0..N
    OBVIOUS
  <2>3. step[m + 1][g[m]] \in S
    BY <2>2
  <2>4. h \in [0..N -> S] /\ h[m + 1] = step[m + 1][g[m]] /\ \A i \in 0..m : h[i] = g[i]
    BY <2>2, <2>3
  <2> HIDE DEF h
  <2>5. ASSUME NEW n \in 1..m + 1 PROVE h[n] = step[n][h[n - 1]]
    <3>1. n - 1 \in 0..m /\ (n \in 1..m \/ n = m + 1)
      BY <2>2
    <3>2. h[n - 1] = g[n - 1]
      BY <2>4, <3>1
    <3>3. CASE n \in 1..m
      <4>1. h[n] = g[n]
        BY <2>4, <3>3
      <4>2. QED
        BY <2>1, <3>2, <3>3, <4>1
    <3>4. CASE n = m + 1
      BY <2>2, <2>4, <3>2, <3>4
    <3>5. QED
      BY <3>1, <3>3, <3>4
  <2>6. h[0] = base
    BY <2>1, <2>2, <2>4
  <2>7. QED
    BY <2>2, <2>4, <2>5, <2>6
<1>3. N \in Defined
  <2> HIDE DEF Defined
  <2>1. 0..N \subseteq Defined
    BY <1>1, <1>2, RangeInduction
  <2>2. QED
    BY <2>1
<1>4. QED
  BY <1>3 DEF Loops
=============================================================================

--------------------------- MODULE LuaSort_proofs ---------------------------
(***************************************************************************)
(* For every list, every relation as the order, and every function in its  *)
(* place: table.sort loses and doubles no value of the table, and stays    *)
(* within its interval and one field beyond (Bounds).  Each exchange keeps *)
(* the table one to one, if both fields are in it (Exchange); that they    *)
(* are is InBounds, which the partition keeps since each of its two        *)
(* searches gives up one field beyond the interval.                        *)
(*                                                                         *)
(* If the function is an order, the list gets sorted (Ordered): two fields *)
(* that are not both of an interval that is still to be sorted are in      *)
(* order.  An exchange in an interval keeps that (Within); the interval of *)
(* two or three fields is in order when auxsort returns, and a longer one  *)
(* is divided at the pivot (SplitOrdered).                                 *)
(*                                                                         *)
(* The calls are no deeper than the logarithm of the length (Shallow):     *)
(* each inner call gets the smaller half of what its caller had.           *)
(***************************************************************************)
EXTENDS LuaSort, WellFoundedInduction, TLAPS

LEMMA Half ==
  ASSUME NEW x \in Int, NEW y \in Int, x + 2 <= y
  PROVE  (x + y) \div 2 \in Int /\ x < (x + y) \div 2 /\ (x + y) \div 2 < y
OBVIOUS

LEMMA Pop ==
  ASSUME NEW S, NEW s \in Seq(S), s # <<>>
  PROVE  /\ SubSeq(s, 1, Len(s) - 1) \in Seq(S)
         /\ Len(SubSeq(s, 1, Len(s) - 1)) = Len(s) - 1
         /\ \A k \in 1..Len(s) - 1 : SubSeq(s, 1, Len(s) - 1)[k] = s[k]
         /\ s[Len(s)] \in S /\ Len(s) \in 1..Len(s) /\ Len(s) \in Nat
<1>1. Len(s) \in Nat /\ Len(s) > 0
  OBVIOUS
<1>2. SubSeq(s, 1, Len(s) - 1) = [k \in 1..Len(s) - 1 |-> s[k]]
  BY <1>1
<1>3. \A k \in 1..Len(s) : s[k] \in S
  BY <1>1
<1>4. /\ [k \in 1..Len(s) - 1 |-> s[k]] \in Seq(S)
      /\ Len([k \in 1..Len(s) - 1 |-> s[k]]) = Len(s) - 1
  BY <1>1, <1>3
<1>5. s[Len(s)] \in S /\ Len(s) \in 1..Len(s)
  BY <1>1, <1>3
<1>6. QED
  BY <1>1, <1>2, <1>4, <1>5

LEMMA Push ==
  ASSUME NEW S, NEW s \in Seq(S), NEW x \in S
  PROVE  LET r == Append(s, x) IN
         /\ r \in Seq(S) /\ Len(r) = Len(s) + 1
         /\ \A k \in 1..Len(r) : r[k] = IF k = Len(s) + 1 THEN x ELSE s[k]
OBVIOUS

\* An exchange of two fields.
LEMMA Exchange ==
  ASSUME NEW x \in Fields, NEW y \in Fields, TypeOK, Permuted
  PROVE  /\ set2(x, y, a[x], a[y]) \in [Fields -> Fields]
         /\ \A f, g \in Fields :
              set2(x, y, a[x], a[y])[f] = set2(x, y, a[x], a[y])[g] => f = g
<1> DEFINE b == set2(x, y, a[x], a[y])
<1>1. a \in [Fields -> Fields] /\ \A f, g \in Fields : a[f] = a[g] => f = g
  BY DEF TypeOK, Permuted
<1>2. b \in [Fields -> Fields]
  BY <1>1 DEF set2
<1>3. ASSUME NEW f \in Fields, NEW g \in Fields, b[f] = b[g]
      PROVE  f = g
  BY <1>1, <1>3 DEF set2
<1>4. QED
  BY <1>2, <1>3

LEMMA LengthNat == TypeOK => n \in Nat /\ Fields = 0..n + 1
BY ListAssumption DEF TypeOK, n, Fields

\* A table that is as it was, or had two of its fields exchanged.
Exchanged ==
  \/ a' = a
  \/ \E x, y \in Fields : a' = set2(x, y, a[x], a[y])

LEMMA KeepsPermuted ==
  ASSUME TypeOK, Permuted, Exchanged, UNCHANGED list
  PROVE  Permuted' /\ a' \in [Fields' -> Fields'] /\ n' = n /\ Fields' = Fields
<1>1. n' = n /\ Fields' = Fields
  BY DEF n, Fields
<1>2. CASE a' = a
  BY <1>1, <1>2 DEF TypeOK, Permuted
<1>3. CASE \E x, y \in Fields : a' = set2(x, y, a[x], a[y])
  <2>1. PICK x \in Fields, y \in Fields : a' = set2(x, y, a[x], a[y])
    BY <1>3
  <2>2. a' \in [Fields -> Fields] /\ \A f, g \in Fields : a'[f] = a'[g] => f = g
    <3>1. /\ set2(x, y, a[x], a[y]) \in [Fields -> Fields]
          /\ \A f, g \in Fields :
               set2(x, y, a[x], a[y])[f] = set2(x, y, a[x], a[y])[g] => f = g
      BY Exchange
    <3>2. QED
      BY <2>1, <3>1
  <2>3. QED
    BY <1>1, <2>2 DEF Permuted
<1>4. QED
  BY <1>2, <1>3 DEF Exchanged

LEMMA InitBounds == Init => Bounds
<1> SUFFICES ASSUME Init PROVE Bounds
  OBVIOUS
<1>1. n \in Nat
  BY ListAssumption DEF Init, n
<1>2. TypeOK
  BY <1>1 DEF Init, TypeOK, Fields
<1>3. QED
  BY <1>1, <1>2 DEF Init, Bounds, Permuted, InBounds, HereOK, FramesOK

LEMMA NextBounds == Bounds /\ [Next]_vars => Bounds'
<1> SUFFICES ASSUME Bounds, [Next]_vars PROVE Bounds'
  OBVIOUS
<1> USE DEF Bounds
<1>0. n \in Nat /\ Fields = 0..n + 1
  BY LengthNat
<1>a. l \in Int /\ u \in Int /\ i \in Int /\ j \in Int
  BY DEF TypeOK
<1>b. HereOK /\ FramesOK
  BY DEF InBounds
<1>1. CASE Return
  <2>1. UNCHANGED list /\ Exchanged
    BY <1>1 DEF Return, Exchanged
  <2>2. Permuted' /\ a' \in [Fields' -> Fields'] /\ n' = n /\ Fields' = Fields
    BY <2>1, KeepsPermuted
  <2>3. ASSUME frames # <<>>
        PROVE  /\ l' \in Int /\ u' \in Int /\ 1 <= l' /\ u' <= n
               /\ frames' \in Seq([l : Int, u : Int])
               /\ \A k \in 1..Len(frames') : 1 <= frames'[k].l /\ frames'[k].u <= n
    <3> DEFINE Interval == [l : Int, u : Int]
    <3>1. frames \in Seq(Interval)
      BY DEF TypeOK
    <3>2. /\ frames' \in Seq(Interval) /\ Len(frames') = Len(frames) - 1
          /\ \A k \in 1..Len(frames') : frames'[k] = frames[k]
          /\ frames[Len(frames)] \in Interval /\ Len(frames) \in 1..Len(frames)
          /\ Len(frames) \in Nat
      <4> HIDE DEF Interval
      <4>1. frames' = SubSeq(frames, 1, Len(frames) - 1)
        BY <1>1, <2>3 DEF Return
      <4>2. QED
        BY <2>3, <3>1, <4>1, Pop
    <3>3. l' = frames[Len(frames)].l /\ u' = frames[Len(frames)].u
      BY <1>1, <2>3 DEF Return
    <3>4. \A k \in 1..Len(frames) : 1 <= frames[k].l /\ frames[k].u <= n
      BY <1>b DEF FramesOK
    <3>5. l' \in Int /\ u' \in Int
      BY <3>2, <3>3
    <3>6. 1 <= l' /\ u' <= n
      BY <3>2, <3>3, <3>4
    <3>7. \A k \in 1..Len(frames') : k \in 1..Len(frames) /\ frames'[k] = frames[k]
      BY <3>2
    <3>8. \A k \in 1..Len(frames') : 1 <= frames'[k].l /\ frames'[k].u <= n
      BY <3>4, <3>7
    <3>9. QED
      BY <3>2, <3>5, <3>6, <3>8
  <2>4. TypeOK'
    BY <1>0, <1>1, <2>2, <2>3 DEF Return, TypeOK
  <2>5. InBounds'
    BY <1>0, <1>a, <1>b, <1>1, <2>2, <2>3 DEF Return, HereOK, FramesOK, InBounds
  <2>6. QED
    BY <2>2, <2>4, <2>5
<1>2. CASE Ends
  <2>1. l \in Fields /\ u \in Fields
    BY <1>0, <1>a, <1>b, <1>2 DEF Ends, HereOK
  <2>2. UNCHANGED list /\ Exchanged
    BY <1>2, <2>1 DEF Ends, Exchanged
  <2>3. Permuted' /\ a' \in [Fields' -> Fields'] /\ n' = n /\ Fields' = Fields
    BY <2>2, KeepsPermuted
  <2>4. i' \in Int /\ (l + 2 <= u => l < i' /\ i' < u)
    BY <1>a, <1>2, Half DEF Ends
  <2>5. TypeOK'
    BY <1>2, <2>3, <2>4 DEF Ends, TypeOK
  <2>6. HereOK'
    BY <1>0, <1>a, <1>b, <1>2, <2>3, <2>4 DEF Ends, HereOK
  <2>7. FramesOK'
    BY <1>b, <1>2, <2>3 DEF Ends, FramesOK
  <2>8. QED
    BY <2>3, <2>5, <2>6, <2>7 DEF InBounds
<1>3. CASE Middle
  <2>1. i \in Fields /\ l \in Fields
    BY <1>0, <1>a, <1>b, <1>3 DEF Middle, HereOK
  <2>2. UNCHANGED list /\ Exchanged
    BY <1>3, <2>1 DEF Middle, Exchanged
  <2>3. Permuted' /\ a' \in [Fields' -> Fields'] /\ n' = n /\ Fields' = Fields
    BY <2>2, KeepsPermuted
  <2>4. TypeOK'
    BY <1>3, <2>3 DEF Middle, TypeOK, locals
  <2>5. HereOK'
    BY <1>0, <1>a, <1>b, <1>3, <2>3 DEF Middle, HereOK, locals
  <2>6. FramesOK'
    BY <1>b, <1>3, <2>3 DEF Middle, FramesOK, locals
  <2>7. QED
    BY <2>3, <2>4, <2>5, <2>6 DEF InBounds
<1>4. CASE Upper
  <2>1. i \in Fields /\ u \in Fields
    BY <1>0, <1>a, <1>b, <1>4 DEF Upper, HereOK
  <2>2. UNCHANGED list /\ Exchanged
    BY <1>4, <2>1 DEF Upper, Exchanged
  <2>3. Permuted' /\ a' \in [Fields' -> Fields'] /\ n' = n /\ Fields' = Fields
    BY <2>2, KeepsPermuted
  <2>4. TypeOK'
    BY <1>4, <2>3 DEF Upper, TypeOK, locals
  <2>5. HereOK'
    BY <1>0, <1>a, <1>b, <1>4, <2>3 DEF Upper, HereOK, locals
  <2>6. FramesOK'
    BY <1>b, <1>4, <2>3 DEF Upper, FramesOK, locals
  <2>7. QED
    BY <2>3, <2>4, <2>5, <2>6 DEF InBounds
<1>5. CASE Pivot
  <2>1. i \in Fields /\ u - 1 \in Fields
    BY <1>0, <1>a, <1>b, <1>5 DEF Pivot, HereOK
  <2>2. UNCHANGED list /\ Exchanged
    BY <1>5, <2>1 DEF Pivot, Exchanged
  <2>3. Permuted' /\ a' \in [Fields' -> Fields'] /\ n' = n /\ Fields' = Fields
    BY <2>2, KeepsPermuted
  <2>4. TypeOK'
    BY <1>5, <2>1, <2>3 DEF Pivot, TypeOK
  <2>5. HereOK'
    BY <1>0, <1>a, <1>b, <1>5, <2>3 DEF Pivot, HereOK
  <2>6. FramesOK'
    BY <1>b, <1>5, <2>3 DEF Pivot, FramesOK
  <2>7. QED
    BY <2>3, <2>4, <2>5, <2>6 DEF InBounds
<1>6. CASE Up
  <2>1. UNCHANGED list /\ Exchanged
    BY <1>6 DEF Up, Exchanged
  <2>2. Permuted' /\ a' \in [Fields' -> Fields'] /\ n' = n /\ Fields' = Fields
    BY <2>1, KeepsPermuted
  <2>3. TypeOK'
    BY <1>6, <2>2 DEF Up, TypeOK
  <2>4. HereOK'
    <3>1. /\ pc = "up" /\ l' = l /\ u' = u
          /\ \/ i <= u /\ i' = i + 1 /\ pc' = "up" /\ j' = j
             \/ pc' = "invalid" /\ i' = i /\ j' = j
             \/ pc' = "down" /\ i' = i /\ j' = j - 1
      BY <1>6 DEF Up
    <3>2. /\ 1 <= l /\ u <= n /\ l + 3 <= u /\ l + 1 <= i /\ i <= u + 1
          /\ l - 1 <= j /\ j <= u - 1 /\ l <= j
      BY <1>b, <3>1 DEF HereOK
    <3>3. 1 <= l' /\ u' <= n' /\ l' + 3 <= u'
      BY <2>2, <3>1, <3>2
    <3>4. l' + 1 <= i' /\ i' <= u' + 1
      BY <1>a, <3>1, <3>2
    <3>5. l' - 1 <= j' /\ j' <= u' - 1
      BY <1>a, <3>1, <3>2
    <3>6. pc' = "up" => l' <= j'
      BY <1>a, <3>1, <3>2
    <3>7. QED
      BY <3>1, <3>3, <3>4, <3>5, <3>6 DEF HereOK
  <2>5. FramesOK'
    BY <1>b, <1>6, <2>2 DEF Up, FramesOK
  <2>6. QED
    BY <2>2, <2>3, <2>4, <2>5 DEF InBounds
<1>7. CASE Down
  <2>1. j >= i => i \in Fields /\ j \in Fields
    BY <1>0, <1>a, <1>b, <1>7 DEF Down, HereOK
  <2>2. UNCHANGED list /\ Exchanged
    BY <1>7, <2>1 DEF Down, Exchanged
  <2>3. Permuted' /\ a' \in [Fields' -> Fields'] /\ n' = n /\ Fields' = Fields
    BY <2>2, KeepsPermuted
  <2>4. TypeOK'
    BY <1>7, <2>3 DEF Down, TypeOK
  <2>5. HereOK'
    <3>1. /\ pc = "down" /\ l' = l /\ u' = u
          /\ \/ j >= l /\ j' = j - 1 /\ pc' = "down" /\ i' = i
             \/ pc' = "invalid" /\ i' = i /\ j' = j
             \/ pc' = "split" /\ i' = i /\ j' = j
             \/ j >= i /\ i' = i + 1 /\ pc' = "up" /\ j' = j
      BY <1>7 DEF Down
    <3>2. /\ 1 <= l /\ u <= n /\ l + 3 <= u /\ l + 1 <= i /\ i <= u + 1
          /\ l - 1 <= j /\ j <= u - 1
      BY <1>b, <3>1 DEF HereOK
    <3>3. 1 <= l' /\ u' <= n' /\ l' + 3 <= u'
      BY <2>3, <3>1, <3>2
    <3>4. l' + 1 <= i' /\ i' <= u' + 1
      BY <1>a, <3>1, <3>2
    <3>5. l' - 1 <= j' /\ j' <= u' - 1
      BY <1>a, <3>1, <3>2
    <3>6. pc' = "up" => l' <= j'
      BY <1>a, <3>1, <3>2
    <3>7. QED
      BY <3>1, <3>3, <3>4, <3>5, <3>6 DEF HereOK
  <2>6. FramesOK'
    BY <1>b, <1>7, <2>3 DEF Down, FramesOK
  <2>7. QED
    BY <2>3, <2>4, <2>5, <2>6 DEF InBounds
<1>8. CASE Split
  <2>1. u - 1 \in Fields /\ i \in Fields
    BY <1>0, <1>a, <1>b, <1>8 DEF Split, HereOK
  <2>2. UNCHANGED list /\ Exchanged
    BY <1>8, <2>1 DEF Split, Exchanged
  <2>3. Permuted' /\ a' \in [Fields' -> Fields'] /\ n' = n /\ Fields' = Fields
    BY <2>2, KeepsPermuted
  <2>4. /\ l' \in Int /\ u' \in Int /\ 1 <= l' /\ u' <= n
        /\ \E f \in [l : Int, u : Int] :
             1 <= f.l /\ f.u <= n /\ frames' = Append(frames, f)
    <3>1. CASE Smaller
      <4>1. /\ l' = l /\ u' = i - 1
            /\ frames' = Append(frames, [l |-> i + 1, u |-> u])
        BY <1>8, <3>1 DEF Split
      <4>2. 1 <= l /\ i - 1 \in Int /\ i - 1 <= n /\ i + 1 \in Int /\ 1 <= i + 1 /\ u <= n
        BY <1>0, <1>a, <1>b, <1>8 DEF Split, HereOK
      <4>3. QED
        BY <1>a, <4>1, <4>2
    <3>2. CASE ~Smaller
      <4>1. /\ l' = i + 1 /\ u' = u
            /\ frames' = Append(frames, [l |-> l, u |-> i - 1])
        BY <1>8, <3>2 DEF Split
      <4>2. 1 <= l /\ i - 1 \in Int /\ i - 1 <= n /\ i + 1 \in Int /\ 1 <= i + 1 /\ u <= n
        BY <1>0, <1>a, <1>b, <1>8 DEF Split, HereOK
      <4>3. QED
        BY <1>a, <4>1, <4>2
    <3>3. QED
      BY <3>1, <3>2
  <2>5. /\ frames' \in Seq([l : Int, u : Int])
        /\ \A k \in 1..Len(frames') : 1 <= frames'[k].l /\ frames'[k].u <= n
    <3> DEFINE Interval == [l : Int, u : Int]
    <3>1. PICK f \in Interval : 1 <= f.l /\ f.u <= n /\ frames' = Append(frames, f)
      BY <2>4
    <3>2. frames \in Seq(Interval) /\ \A k \in 1..Len(frames) : 1 <= frames[k].l /\ frames[k].u <= n
      BY <1>b DEF TypeOK, FramesOK
    <3>3. /\ frames' \in Seq(Interval) /\ Len(frames') = Len(frames) + 1
          /\ \A k \in 1..Len(frames') : frames'[k] = IF k = Len(frames) + 1 THEN f ELSE frames[k]
      <4> HIDE DEF Interval
      <4>1. QED
        BY <3>1, <3>2, Push
    <3>4. Len(frames) \in Nat
      BY <3>2
    <3>5. QED
      BY <3>1, <3>2, <3>3, <3>4
  <2>6. TypeOK'
    BY <1>8, <2>3, <2>4, <2>5 DEF Split, TypeOK
  <2>7. InBounds'
    BY <1>8, <2>3, <2>4, <2>5 DEF Split, HereOK, FramesOK, InBounds
  <2>8. QED
    BY <2>3, <2>6, <2>7
<1>9. CASE Raise
  <2>1. UNCHANGED list /\ Exchanged
    BY <1>9 DEF Raise, Exchanged
  <2>2. Permuted' /\ a' \in [Fields' -> Fields'] /\ n' = n /\ Fields' = Fields
    BY <2>1, KeepsPermuted
  <2>3. TypeOK'
    BY <1>9, <2>2 DEF Raise, TypeOK, locals
  <2>4. HereOK'
    BY <1>0, <1>a, <1>b, <1>9, <2>2 DEF Raise, HereOK, locals
  <2>5. FramesOK'
    BY <1>b, <1>9, <2>2 DEF Raise, FramesOK, locals
  <2>6. QED
    BY <2>2, <2>3, <2>4, <2>5 DEF InBounds
<1>10. CASE UNCHANGED vars
  <2>1. UNCHANGED list /\ Exchanged
    BY <1>10 DEF vars, Exchanged
  <2>2. Permuted' /\ a' \in [Fields' -> Fields'] /\ n' = n /\ Fields' = Fields
    BY <2>1, KeepsPermuted
  <2>3. TypeOK'
    BY <1>10, <2>2 DEF vars, TypeOK, locals
  <2>4. HereOK'
    BY <1>0, <1>a, <1>b, <1>10, <2>2 DEF vars, HereOK, locals
  <2>5. FramesOK'
    BY <1>b, <1>10, <2>2 DEF vars, FramesOK, locals
  <2>6. QED
    BY <2>2, <2>3, <2>4, <2>5 DEF InBounds
<1>11. QED
  BY <1>1, <1>2, <1>3, <1>4, <1>5, <1>6, <1>7, <1>8, <1>9, <1>10 DEF Next

-----------------------------------------------------------------------------
(* Induction, and the powers of two.                                       *)

\* Induction, for a set of numbers in the place of a property.
LEMMA Induction ==
  ASSUME NEW S \in SUBSET Nat, 0 \in S, \A k \in S : k + 1 \in S
  PROVE  S = Nat
<1> DEFINE Precedes == {q \in Nat \X Nat : q[1] < q[2]}
<1>1. IsWellFoundedOn(Precedes, Nat)
  BY NatLessThanWellFounded DEF OpToRel
<1> SUFFICES ASSUME Nat \ S # {} PROVE FALSE
  OBVIOUS
<1>2. PICK x \in Nat \ S : \A y \in Nat \ S : <<y, x>> \notin Precedes
  <2> HIDE DEF Precedes
  <2>1. QED BY <1>1, WFMin
<1>3. x # 0 /\ x - 1 \in Nat /\ (x - 1) + 1 = x
  OBVIOUS
<1>4. x - 1 \notin S
  BY <1>3
<1>5. <<x - 1, x>> \in Precedes
  BY <1>3
<1>6. QED
  BY <1>2, <1>3, <1>4, <1>5

\* Recursion on a number, for a function in the place of the body.
LEMMA Recursion ==
  ASSUME NEW S, NEW base \in S, NEW step \in [S -> S]
  PROVE  \E g \in [Nat -> S] : g[0] = base /\ \A k \in Nat : g[k + 1] = step[g[k]]
<1> DEFINE Starts(g, m) == g[0] = base /\ \A k \in 0..m - 1 : g[k + 1] = step[g[k]]
           Defined == {m \in Nat : \E g \in [Nat -> S] : Starts(g, m)}
<1>1. Defined = Nat
  <2>1. 0 \in Defined
    <3>1. [k \in Nat |-> base] \in [Nat -> S] /\ Starts([k \in Nat |-> base], 0)
      OBVIOUS
    <3>2. QED
      BY <3>1
  <2>2. ASSUME NEW m \in Defined PROVE m + 1 \in Defined
    <3>1. m \in Nat
      OBVIOUS
    <3>2. PICK g \in [Nat -> S] : Starts(g, m)
      OBVIOUS
    <3> DEFINE h == [g EXCEPT ![m + 1] = step[g[m]]]
    <3>3. h \in [Nat -> S]
      BY <3>1
    <3>4. Starts(h, m + 1)
      BY <3>1, <3>2
    <3> HIDE DEF h, Starts
    <3>5. QED
      BY <3>1, <3>3, <3>4
  <2> HIDE DEF Defined
  <2>3. QED
    <3>1. Defined \in SUBSET Nat BY DEF Defined
    <3>2. QED BY <2>1, <2>2, <3>1, Induction
<1>2. ASSUME NEW g \in [Nat -> S], NEW h \in [Nat -> S], NEW m \in Nat, NEW q \in Nat,
             Starts(g, m), Starts(h, q), m <= q
      PROVE  g[m] = h[m]
  <2> DEFINE Same == {k \in Nat : k <= m => g[k] = h[k]}
  <2>1. 0 \in Same
    BY <1>2
  <2>2. ASSUME NEW k \in Same PROVE k + 1 \in Same
    <3>1. CASE k + 1 <= m
      <4>1. k \in Nat /\ k \in 0..m - 1 /\ k \in 0..q - 1 /\ g[k] = h[k]
        BY <1>2, <3>1
      <4>2. g[k + 1] = step[g[k]] /\ h[k + 1] = step[h[k]]
        BY <1>2, <4>1
      <4>3. QED
        BY <4>1, <4>2
    <3>2. CASE ~(k + 1 <= m)
      BY <3>2
    <3>3. QED
      BY <3>1, <3>2
  <2>3. Same \in SUBSET Nat
    OBVIOUS
  <2>4. Same = Nat
    <3> HIDE DEF Same
    <3>1. QED BY <2>1, <2>2, <2>3, Induction
  <2>5. QED
    BY <2>4
<1> DEFINE Some(m) == CHOOSE g \in [Nat -> S] : Starts(g, m)
           Whole == [m \in Nat |-> Some(m)[m]]
<1>3. \A m \in Nat : Some(m) \in [Nat -> S] /\ Starts(Some(m), m)
  BY <1>1
<1> HIDE DEF Some
<1>4. Whole \in [Nat -> S] /\ Whole[0] = base
  BY <1>3
<1>5. ASSUME NEW k \in Nat PROVE Whole[k + 1] = step[Whole[k]]
  <2>1. Some(k)[k] = Some(k + 1)[k]
    <3>1. Some(k) \in [Nat -> S] /\ Starts(Some(k), k)
      BY <1>3
    <3>2. Some(k+1) \in [Nat -> S] /\ Starts(Some(k+1), k+1)
      BY <1>3
    <3>3. k <= k + 1 /\ k + 1 \in Nat
      OBVIOUS
    <3> HIDE DEF Starts
    <3>4. QED
      BY <3>1, <3>2, <3>3, <1>2
  <2>2. Some(k + 1)[k + 1] = step[Some(k + 1)[k]]
    <3>1. k + 1 \in Nat /\ k \in 0..(k + 1) - 1
      OBVIOUS
    <3>2. Starts(Some(k + 1), k + 1)
      BY <3>1, <1>3
    <3>3. QED
      BY <3>1, <3>2
  <2>3. QED
    BY <2>1, <2>2
<1> HIDE DEF Whole
<1>6. QED
  BY <1>4, <1>5

LEMMA PowerDef ==
  Power \in [Nat -> Nat] /\ Power[0] = 1 /\ \A k \in Nat : Power[k + 1] = 2 * Power[k]
<1> DEFINE Step == [x \in Nat |-> 2 * x]
<1>1. Step \in [Nat -> Nat] /\ 1 \in Nat
  OBVIOUS
<1>2. PICK g \in [Nat -> Nat] : g[0] = 1 /\ \A k \in Nat : g[k + 1] = Step[g[k]]
  <2> DEFINE Numbers == Nat
             one == 1
  <2>1. Step \in [Numbers -> Numbers] /\ one \in Numbers
    OBVIOUS
  <2>2. \E g \in [Nat -> Numbers] : g[0] = one /\ \A k \in Nat : g[k + 1] = Step[g[k]]
    <3> HIDE DEF Step, Numbers, one
    <3>1. QED BY <2>1, Recursion
  <2>3. QED BY <2>2
<1>3. g = [k \in Nat |-> IF k = 0 THEN 1 ELSE 2 * g[k - 1]]
  <2>1. ASSUME NEW k \in Nat, k # 0 PROVE g[k] = 2 * g[k - 1]
    <3>1. k - 1 \in Nat /\ (k - 1) + 1 = k
      BY <2>1
    <3>2. QED
      BY <1>2, <3>1
  <2>2. QED BY <1>2, <2>1
<1>4. Power = [k \in Nat |-> IF k = 0 THEN 1 ELSE 2 * Power[k - 1]]
  BY <1>3 DEF Power
<1> DEFINE NonZero == {k \in Nat : Power[k] \in Nat}
<1>5. 0 \in NonZero /\ \A k \in NonZero : k + 1 \in NonZero
  BY <1>4
<1>6. NonZero = Nat
  <2> HIDE DEF NonZero
  <2>1. NonZero \in SUBSET Nat BY DEF NonZero
  <2>2. QED BY <1>5, <2>1, Induction
<1>7. \A k \in Nat : Power[k + 1] = 2 * Power[k]
  <2> TAKE k \in Nat
  <2>1. k + 1 \in Nat /\ k + 1 # 0 /\ (k + 1) - 1 = k
    OBVIOUS
  <2>2. QED
    BY <1>4, <2>1
<1>8. \A k \in Nat : Power[k] \in Nat
  BY <1>6
<1> HIDE DEF NonZero, Step
<1>9. Power[0] = 1
  BY <1>4
<1>10. Power \in [Nat -> Nat]
  BY <1>4, <1>8
<1>11. QED
  BY <1>7, <1>9, <1>10

-----------------------------------------------------------------------------
(* The order.                                                              *)

\* The field f of the table b is in order before the field g.
InOrderIn(b, f, g) == <<Content(b[g]), Content(b[f])>> \notin Less

\* Where the value comes from that an exchange of x and y puts into f.
Other(x, y, f) == IF f = x THEN y ELSE IF f = y THEN x ELSE f

LEMMA Values ==
  ASSUME Bounds, Outside
  PROVE  \A f \in 1..n : a[f] \in 1..n /\ Content(a[f]) \in Value
<1>1. n \in Nat /\ Fields = 0..n + 1 /\ list \in Seq(Value)
  BY LengthNat, ListAssumption DEF Bounds, TypeOK
<1>2. a[0] = 0 /\ a[n + 1] = n + 1 /\ a \in [Fields -> Fields]
  BY DEF Outside, Bounds, TypeOK
<1>3. \A f, g \in 0..n + 1 : a[f] = a[g] => f = g
  BY <1>1 DEF Bounds, Permuted
<1>4. ASSUME NEW f \in 1..n PROVE a[f] \in 1..n
  <2>1. f \in 0..n + 1 /\ f # 0 /\ f # n + 1 /\ 0 \in 0..n + 1 /\ n + 1 \in 0..n + 1
    BY <1>1
  <2>2. a[f] # 0 /\ a[f] # n + 1
    BY <1>2, <1>3, <2>1
  <2>3. a[f] \in 0..n + 1
    BY <1>1, <1>2, <2>1
  <2>4. QED
    BY <1>1, <2>2, <2>3
<1>5. \A c \in 1..n : Content(c) \in Value
  BY <1>1 DEF Content, n
<1>6. QED
  BY <1>4, <1>5

\* The order of values as one of fields, and what a comparison tells of it.
LEMMA Laws ==
  ASSUME Bounds, Outside, order
  PROVE  /\ \A f, g \in 1..n : Before(a[f], a[g]) => InOrder(f, g)
         /\ \A f, g \in 1..n : NotBefore(a[f], a[g]) => InOrder(g, f)
         /\ \A f, g, h \in 1..n : InOrder(f, g) /\ InOrder(g, h) => InOrder(f, h)
         /\ \A f \in 1..n : InOrder(f, f)
<1>1. \A f \in 1..n : Content(a[f]) \in Value
  BY Values
<1>2. QED
  BY <1>1, OrderAssumption DEF Before, NotBefore, InOrder

LEMMA Exchanging ==
  ASSUME Bounds, UNCHANGED list, NEW x \in 1..n, NEW y \in 1..n,
         a' = set2(x, y, a[x], a[y])
  PROVE  /\ \A f, g \in 1..n : InOrderIn(a', f, g) <=> InOrder(Other(x, y, f), Other(x, y, g))
         /\ \A f \in Fields : a'[f] = a[Other(x, y, f)]
<1>1. n \in Nat /\ Fields = 0..n + 1 /\ a \in [Fields -> Fields]
  BY LengthNat DEF Bounds, TypeOK
<1>2. \A f \in Fields : a'[f] = a[Other(x, y, f)]
  BY <1>1 DEF set2, Other
<1>3. \A f \in 1..n : f \in Fields
  BY <1>1
<1>4. QED
  BY <1>2, <1>3 DEF InOrderIn, InOrder

LEMMA Intervals ==
  Bounds => \A k \in 1..Len(frames) : frames[k].l \in Int /\ frames[k].u \in Int
<1> SUFFICES ASSUME Bounds, NEW k \in 1..Len(frames)
             PROVE  frames[k].l \in Int /\ frames[k].u \in Int
  OBVIOUS
<1> DEFINE Interval == [l : Int, u : Int]
<1>1. frames[k] \in Interval
  <2>1. frames \in Seq(Interval)
    BY DEF Bounds, TypeOK
  <2> HIDE DEF Interval
  <2>2. QED
    BY <2>1
<1>2. QED
  BY <1>1

\* An exchange within the interval keeps what is in order outside of it.
LEMMA Within ==
  ASSUME Bounds, Ordered, order, pc # "raised", Unsorted, UNCHANGED list,
         NEW x \in l..u, NEW y \in l..u, a' = set2(x, y, a[x], a[y])
  PROVE  /\ a'[0] = 0 /\ a'[n + 1] = n + 1
         /\ \A f, g \in 1..n : f < g =>
              \/ InOrderIn(a', f, g)
              \/ l <= f /\ g <= u
              \/ \E k \in 1..Len(frames) : frames[k].l <= f /\ g <= frames[k].u
<1>1. n \in Nat /\ Fields = 0..n + 1 /\ l \in Int /\ u \in Int /\ 1 <= l /\ u <= n
  BY LengthNat DEF Bounds, TypeOK, InBounds, HereOK
<1>2. x \in 1..n /\ y \in 1..n
  BY <1>1
<1>3. /\ \A f, g \in 1..n : InOrderIn(a', f, g) <=> InOrder(Other(x, y, f), Other(x, y, g))
      /\ \A f \in Fields : a'[f] = a[Other(x, y, f)]
  BY <1>2, Exchanging
<1>4. a'[0] = 0 /\ a'[n + 1] = n + 1
  <2>1. Other(x, y, 0) = 0 /\ Other(x, y, n + 1) = n + 1
    BY <1>1, <1>2 DEF Other
  <2>2. 0 \in Fields /\ n + 1 \in Fields
    BY <1>1
  <2>3. QED
    BY <1>3, <2>1, <2>2 DEF Ordered, Outside
<1>5. ASSUME NEW f \in 1..n, NEW g \in 1..n, f < g, ~(l <= f /\ g <= u),
             ~ \E k \in 1..Len(frames) : frames[k].l <= f /\ g <= frames[k].u
      PROVE  InOrderIn(a', f, g)
  <2> DEFINE F == Other(x, y, f)
             G == Other(x, y, g)
  <2>1. \A p, q \in 1..n : p < q =>
          \/ InOrder(p, q)
          \/ l <= p /\ q <= u
          \/ \E k \in 1..Len(frames) : frames[k].l <= p /\ q <= frames[k].u
    BY DEF Ordered, Sorted
  <2>2. \A k \in 1..Len(frames) : /\ frames[k].l \in Int /\ frames[k].u \in Int
                                  /\ frames[k].u < l \/ u < frames[k].l
    BY Intervals DEF Ordered, Apart, Unsorted
  <2>3. CASE f \in l..u
    <3>1. g > u /\ G = g
      BY <1>1, <1>5, <2>3 DEF Other
    <3>2. F \in l..u /\ F \in 1..n /\ F < g
      BY <1>1, <1>5, <2>3, <3>1 DEF Other
    <3> HIDE DEF F
    <3>3. \A k \in 1..Len(frames) : ~(frames[k].l <= F /\ g <= frames[k].u)
      <4> TAKE k \in 1..Len(frames)
      <4>1. /\ frames[k].l \in Int /\ frames[k].u \in Int
            /\ frames[k].u < l \/ u < frames[k].l
        BY <2>2
      <4>2. QED
        BY <1>1, <3>1, <3>2, <4>1
    <3>4. InOrder(F, g)
      BY <1>1, <2>1, <3>1, <3>2, <3>3
    <3>5. QED
      BY <1>3, <3>1, <3>4 DEF F
  <2>4. CASE g \in l..u
    <3>1. f < l /\ F = f
      BY <1>1, <1>5, <2>4 DEF Other
    <3>2. G \in l..u /\ G \in 1..n /\ f < G
      BY <1>1, <1>5, <2>4, <3>1 DEF Other
    <3> HIDE DEF G
    <3>3. \A k \in 1..Len(frames) : ~(frames[k].l <= f /\ G <= frames[k].u)
      <4> TAKE k \in 1..Len(frames)
      <4>1. /\ frames[k].l \in Int /\ frames[k].u \in Int
            /\ frames[k].u < l \/ u < frames[k].l
        BY <2>2
      <4>2. QED
        BY <1>1, <3>1, <3>2, <4>1
    <3>4. InOrder(f, G)
      BY <1>1, <2>1, <3>1, <3>2, <3>3
    <3>5. QED
      BY <1>3, <3>1, <3>4 DEF G
  <2>5. CASE f \notin l..u /\ g \notin l..u
    <3>1. F = f /\ G = g
      BY <2>5 DEF Other
    <3>2. InOrder(f, g)
      BY <1>5, <2>1
    <3>3. QED
      BY <1>3, <3>1, <3>2
  <2>6. QED
    BY <2>3, <2>4, <2>5
<1>6. QED
  BY <1>4, <1>5

\* No exchange is one of a field with itself.
LEMMA NoExchange ==
  ASSUME Bounds, NEW x \in 1..n, a' = a
  PROVE  a' = set2(x, x, a[x], a[x])
BY LengthNat DEF Bounds, TypeOK, set2

LEMMA SortedNext ==
  ASSUME UNCHANGED list,
         \A f, g \in 1..n : f < g =>
           \/ InOrderIn(a', f, g)
           \/ Unsorted' /\ l' <= f /\ g <= u'
           \/ \E k \in 1..Len(frames') : frames'[k].l <= f /\ g <= frames'[k].u
  PROVE  Sorted'
<1>1. n' = n
  BY DEF n
<1>2. \A f, g : InOrder(f, g)' <=> InOrderIn(a', f, g)
  BY <1>1 DEF InOrder, InOrderIn, Content
<1>3. QED
  BY <1>1, <1>2 DEF Sorted

\* A step of a partition: an exchange in the interval, and where auxsort is.
LEMMA Partition ==
  ASSUME Bounds, Ordered, order, pc # "raised", Unsorted,
         UNCHANGED <<list, order, l, u, frames>>,
         NEW x \in l..u, NEW y \in l..u, a' = set2(x, y, a[x], a[y]),
         pc' \notin {"invalid", "done"},
         pc' = "return" => \A f, g \in l..u : f < g => InOrderIn(a', f, g),
         Compared'
  PROVE  Ordered'
<1>1. n' = n /\ n \in Nat /\ l \in Int /\ u \in Int
  BY LengthNat DEF Bounds, TypeOK, n
<1>2. /\ a'[0] = 0 /\ a'[n + 1] = n + 1
      /\ \A f, g \in 1..n : f < g =>
           \/ InOrderIn(a', f, g)
           \/ l <= f /\ g <= u
           \/ \E k \in 1..Len(frames) : frames[k].l <= f /\ g <= frames[k].u
  BY Within
<1>3. Outside'
  BY <1>1, <1>2 DEF Outside
<1>4. Apart'
  BY <1>1 DEF Ordered, Apart, Unsorted
<1>5. Sorted'
  <2> SUFFICES ASSUME NEW f \in 1..n, NEW g \in 1..n, f < g
               PROVE  \/ InOrderIn(a', f, g)
                      \/ Unsorted' /\ l' <= f /\ g <= u'
                      \/ \E k \in 1..Len(frames') : frames'[k].l <= f /\ g <= frames'[k].u
    BY <1>1, SortedNext
  <2>1. CASE l <= f /\ g <= u
    <3>1. f \in l..u /\ g \in l..u
      BY <1>1, <2>1
    <3>2. QED
      BY <2>1, <3>1 DEF Unsorted
  <2>2. CASE ~(l <= f /\ g <= u)
    BY <1>2, <2>2
  <2>3. QED
    BY <2>1, <2>2
<1>6. QED
  BY <1>3, <1>4, <1>5 DEF Ordered

\* What an exchange leaves in order, by the fields of before.
LEMMA After ==
  ASSUME Bounds, UNCHANGED list, NEW x \in 1..n, NEW y \in 1..n,
         a' = set2(x, y, a[x], a[y]), NEW f \in 1..n, NEW g \in 1..n,
         InOrder(Other(x, y, f), Other(x, y, g))
  PROVE  InOrderIn(a', f, g)
BY Exchanging

LEMMA EndsOrdered ==
  ASSUME Bounds, Ordered, order, Ends
  PROVE  Ordered'
<1>1. /\ n \in Nat /\ l \in Int /\ u \in Int /\ 1 <= l /\ u <= n /\ l < u
      /\ pc = "loop" /\ Unsorted
  BY LengthNat DEF Bounds, TypeOK, InBounds, HereOK, Ends, Unsorted
<1>2. UNCHANGED <<list, order, l, u, frames>>
  BY DEF Ends
<1>3. l \in 1..n /\ u \in 1..n /\ l \in l..u /\ u \in l..u
  BY <1>1
<1>4. /\ \A f, g \in 1..n : Before(a[f], a[g]) => InOrder(f, g)
      /\ \A f, g \in 1..n : NotBefore(a[f], a[g]) => InOrder(g, f)
  BY <1>1, Laws DEF Ordered
<1>5. /\ pc' = IF u - l = 1 THEN "return" ELSE "middle"
      /\ \/ Before(a[u], a[l]) /\ a' = set2(l, u, a[l], a[u])
         \/ NotBefore(a[u], a[l]) /\ a' = a
  BY DEF Ends
<1>6. PICK x \in l..u, y \in l..u : a' = set2(x, y, a[x], a[y]) /\ InOrderIn(a', l, u)
  <2>1. CASE Before(a[u], a[l]) /\ a' = set2(l, u, a[l], a[u])
    <3>1. InOrder(Other(l, u, l), Other(l, u, u))
      BY <1>1, <1>3, <1>4, <2>1 DEF Other
    <3>2. QED
      BY <1>2, <1>3, <2>1, <3>1, After
  <2>2. CASE NotBefore(a[u], a[l]) /\ a' = a
    <3>1. InOrder(Other(l, l, l), Other(l, l, u)) /\ a' = set2(l, l, a[l], a[l])
      BY <1>1, <1>3, <1>4, <2>2, NoExchange DEF Other
    <3>2. QED
      BY <1>2, <1>3, <3>1, After
  <2>3. QED
    BY <1>5, <2>1, <2>2
<1>7. Compared'
  BY <1>2, <1>5, <1>6 DEF Compared, InOrder, InOrderIn, Content, n
<1>8. pc' = "return" => \A f, g \in l..u : f < g => InOrderIn(a', f, g)
  <2> SUFFICES ASSUME u - l = 1, NEW f \in l..u, NEW g \in l..u, f < g
               PROVE  InOrderIn(a', f, g)
    BY <1>5
  <2>1. f = l /\ g = u
    BY <1>1
  <2>2. QED
    BY <1>6, <2>1
<1>9. QED
  BY <1>1, <1>2, <1>5, <1>6, <1>7, <1>8, Partition

LEMMA MiddleOrdered ==
  ASSUME Bounds, Ordered, order, Middle
  PROVE  Ordered'
<1>1. /\ n \in Nat /\ l \in Int /\ u \in Int /\ i \in Int
      /\ 1 <= l /\ u <= n /\ l < i /\ i < u
      /\ pc = "middle" /\ Unsorted
  BY LengthNat DEF Bounds, TypeOK, InBounds, HereOK, Middle, Unsorted
<1>2. UNCHANGED <<list, order, l, u, i, frames>>
  BY DEF Middle, locals
<1>3. l \in 1..n /\ u \in 1..n /\ i \in 1..n /\ l \in l..u /\ u \in l..u /\ i \in l..u
  BY <1>1
<1>4. /\ \A f, g \in 1..n : Before(a[f], a[g]) => InOrder(f, g)
      /\ \A f, g \in 1..n : NotBefore(a[f], a[g]) => InOrder(g, f)
      /\ \A f, g, h \in 1..n : InOrder(f, g) /\ InOrder(g, h) => InOrder(f, h)
  BY <1>1, Laws DEF Ordered
<1>5. InOrder(l, u)
  BY <1>1 DEF Ordered, Compared
<1>6. CASE Before(a[i], a[l])
  <2>1. a' = set2(i, l, a[i], a[l]) /\ pc' = IF u - l = 2 THEN "return" ELSE "pivot"
    BY <1>4, <1>6 DEF Middle, Before, NotBefore
  <2>2. InOrder(i, l) /\ InOrder(i, u)
    BY <1>3, <1>4, <1>5, <1>6
  <2>3. /\ InOrder(Other(i, l, l), Other(i, l, i))
        /\ InOrder(Other(i, l, l), Other(i, l, u))
        /\ InOrder(Other(i, l, i), Other(i, l, u))
    BY <1>1, <1>5, <2>2 DEF Other
  <2>4. InOrderIn(a', l, i) /\ InOrderIn(a', l, u) /\ InOrderIn(a', i, u)
    BY <1>2, <1>3, <2>1, <2>3, After
  <2>5. Compared'
    BY <1>2, <2>1, <2>4 DEF Compared, InOrder, InOrderIn, Content, n
  <2>6. pc' = "return" => \A f, g \in l..u : f < g => InOrderIn(a', f, g)
    <3> SUFFICES ASSUME u - l = 2, NEW f \in l..u, NEW g \in l..u, f < g
                 PROVE  InOrderIn(a', f, g)
      BY <2>1
    <3>1. (f = l \/ f = i) /\ (g = i \/ g = u)
      BY <1>1
    <3>2. QED
      BY <2>4, <3>1
  <2>7. QED
    BY <1>1, <1>2, <1>3, <2>1, <2>5, <2>6, Partition
<1>7. CASE ~Before(a[i], a[l])
  <2>1. a' = a /\ pc' = "upper" /\ NotBefore(a[i], a[l])
    BY <1>7 DEF Middle
  <2>2. InOrder(l, i)
    BY <1>3, <1>4, <2>1
  <2>3. Compared'
    BY <1>2, <1>5, <2>1, <2>2 DEF Compared, InOrder, Content, n
  <2>4. a' = set2(l, l, a[l], a[l])
    BY <1>3, <2>1, NoExchange
  <2>5. QED
    BY <1>1, <1>2, <1>3, <2>1, <2>3, <2>4, Partition
<1>8. QED
  BY <1>6, <1>7

LEMMA UpperOrdered ==
  ASSUME Bounds, Ordered, order, Upper
  PROVE  Ordered'
<1>1. /\ n \in Nat /\ l \in Int /\ u \in Int /\ i \in Int
      /\ 1 <= l /\ u <= n /\ l < i /\ i < u
      /\ pc = "upper" /\ Unsorted
  BY LengthNat DEF Bounds, TypeOK, InBounds, HereOK, Upper, Unsorted
<1>2. UNCHANGED <<list, order, l, u, i, frames>>
  BY DEF Upper, locals
<1>3. l \in 1..n /\ u \in 1..n /\ i \in 1..n /\ l \in l..u /\ u \in l..u /\ i \in l..u
  BY <1>1
<1>4. /\ \A f, g \in 1..n : Before(a[f], a[g]) => InOrder(f, g)
      /\ \A f, g \in 1..n : NotBefore(a[f], a[g]) => InOrder(g, f)
      /\ \A f, g, h \in 1..n : InOrder(f, g) /\ InOrder(g, h) => InOrder(f, h)
  BY <1>1, Laws DEF Ordered
<1>5. InOrder(l, u) /\ InOrder(l, i)
  BY <1>1 DEF Ordered, Compared
<1>6. /\ pc' = IF u - l = 2 THEN "return" ELSE "pivot"
      /\ \/ Before(a[u], a[i]) /\ a' = set2(i, u, a[i], a[u])
         \/ NotBefore(a[u], a[i]) /\ a' = a
  BY DEF Upper
<1>7. PICK x \in l..u, y \in l..u : /\ a' = set2(x, y, a[x], a[y])
                                    /\ InOrderIn(a', l, i) /\ InOrderIn(a', i, u) /\ InOrderIn(a', l, u)
  <2>1. CASE Before(a[u], a[i]) /\ a' = set2(i, u, a[i], a[u])
    <3>1. InOrder(u, i)
      BY <1>3, <1>4, <2>1
    <3>2. /\ InOrder(Other(i, u, l), Other(i, u, i))
          /\ InOrder(Other(i, u, l), Other(i, u, u))
          /\ InOrder(Other(i, u, i), Other(i, u, u))
      BY <1>1, <1>5, <3>1 DEF Other
    <3>3. QED
      BY <1>2, <1>3, <2>1, <3>2, After
  <2>2. CASE NotBefore(a[u], a[i]) /\ a' = a
    <3>1. InOrder(i, u)
      BY <1>3, <1>4, <2>2
    <3>2. /\ InOrder(Other(l, l, l), Other(l, l, i))
          /\ InOrder(Other(l, l, l), Other(l, l, u))
          /\ InOrder(Other(l, l, i), Other(l, l, u))
      BY <1>1, <1>5, <3>1 DEF Other
    <3>3. a' = set2(l, l, a[l], a[l])
      BY <1>3, <2>2, NoExchange
    <3>4. QED
      BY <1>2, <1>3, <3>2, <3>3, After
  <2>3. QED
    BY <1>6, <2>1, <2>2
<1>8. Compared'
  BY <1>2, <1>6, <1>7 DEF Compared, InOrder, InOrderIn, Content, n
<1>9. pc' = "return" => \A f, g \in l..u : f < g => InOrderIn(a', f, g)
  <2> SUFFICES ASSUME u - l = 2, NEW f \in l..u, NEW g \in l..u, f < g
               PROVE  InOrderIn(a', f, g)
    BY <1>6
  <2>1. (f = l \/ f = i) /\ (g = i \/ g = u)
    BY <1>1
  <2>2. QED
    BY <1>7, <2>1
<1>10. QED
  BY <1>1, <1>2, <1>6, <1>7, <1>8, <1>9, Partition

\* The pivot moves to the field before the last.
LEMMA PivotOrdered ==
  ASSUME Bounds, Ordered, order, Pivot
  PROVE  Ordered'
<1>1. /\ n \in Nat /\ l \in Int /\ u \in Int /\ i \in Int
      /\ 1 <= l /\ u <= n /\ l < i /\ i < u /\ l + 3 <= u
      /\ pc = "pivot" /\ Unsorted
  BY LengthNat DEF Bounds, TypeOK, InBounds, HereOK, Pivot, Unsorted
<1>2. /\ UNCHANGED <<list, order, l, u, frames>>
      /\ i' = l + 1 /\ j' = u - 1 /\ pc' = "up" /\ pivot' = a[i]
      /\ a' = set2(i, u - 1, a[i], a[u - 1])
  BY DEF Pivot
<1>3. /\ l \in 1..n /\ u \in 1..n /\ i \in 1..n /\ u - 1 \in 1..n
      /\ u - 1 \in l..u /\ i \in l..u /\ u - 1 \in Fields
  BY <1>1, LengthNat DEF Bounds
<1>4. InOrder(l, i) /\ InOrder(i, u) /\ InOrder(i, i)
  BY <1>1, <1>3, Laws DEF Ordered, Compared
<1>5. /\ InOrder(Other(i, u - 1, l), Other(i, u - 1, u - 1))
      /\ InOrder(Other(i, u - 1, u - 1), Other(i, u - 1, u))
      /\ InOrder(Other(i, u - 1, u - 1), Other(i, u - 1, u - 1))
      /\ Other(i, u - 1, u - 1) = i
  BY <1>1, <1>4 DEF Other
<1>6. /\ InOrderIn(a', l, u - 1) /\ InOrderIn(a', u - 1, u) /\ InOrderIn(a', u - 1, u - 1)
      /\ a'[u - 1] = a[i]
  BY <1>2, <1>3, <1>5, After, Exchanging
<1>7. Compared'
  <2>1. \A f \in l..(l + 1) - 1 : InOrderIn(a', f, u - 1)
    BY <1>1, <1>6
  <2>2. \A f \in (u - 1) + 1..u : InOrderIn(a', u - 1, f)
    BY <1>1, <1>6
  <2>3. l + 1 < u /\ l < u - 1 /\ l + 1 <= (u - 1) + 1
    BY <1>1
  <2>4. QED
    BY <1>2, <1>6, <2>1, <2>2, <2>3 DEF Compared, InOrder, InOrderIn, Content, n
<1>8. QED
  BY <1>1, <1>2, <1>3, <1>7, Partition

LEMMA UpOrdered ==
  ASSUME Bounds, Ordered, order, Up
  PROVE  Ordered'
<1>1. /\ n \in Nat /\ l \in Int /\ u \in Int /\ i \in Int /\ j \in Int
      /\ 1 <= l /\ u <= n /\ l + 3 <= u /\ l + 1 <= i /\ j <= u - 1
      /\ pc = "up" /\ Unsorted
  BY LengthNat DEF Bounds, TypeOK, InBounds, HereOK, Up, Unsorted
<1>2. /\ a[u - 1] = pivot /\ i < u /\ l < j /\ i <= j + 1
      /\ \A f \in l..i - 1 : InOrder(f, u - 1)
      /\ \A f \in j + 1..u : InOrder(u - 1, f)
      /\ InOrder(u - 1, j)
  BY <1>1 DEF Ordered, Compared
<1>3. UNCHANGED <<list, order, a, l, u, pivot, frames>>
  BY DEF Up
<1>4. l \in 1..n /\ u \in 1..n /\ i \in 1..n /\ j \in 1..n /\ u - 1 \in 1..n /\ l \in l..u
  BY <1>1, <1>2
<1>5. a' = set2(l, l, a[l], a[l])
  BY <1>3, <1>4, NoExchange
<1>6. CASE Before(a[i], pivot)
  <2>1. InOrder(i, u - 1)
    BY <1>1, <1>2, <1>4, <1>6, Laws DEF Ordered
  <2>2. i < j
    <3>1. ~InOrder(u - 1, i)
      BY <1>2, <1>6 DEF Before, InOrder
    <3>2. ~(i \in j + 1..u) /\ i # j
      BY <1>2, <3>1
    <3>3. QED
      BY <1>1, <1>2, <3>2
  <2>3. i' = i + 1 /\ j' = j /\ pc' = "up"
    BY <1>1, <1>2, <1>6 DEF Up, NotBefore, Before
  <2>4. \A f \in l..(i + 1) - 1 : InOrder(f, u - 1)
    <3> TAKE f \in l..(i + 1) - 1
    <3>1. f = i \/ f \in l..i - 1
      BY <1>1
    <3>2. QED
      BY <1>2, <2>1, <3>1
  <2>5. i + 1 < u /\ i + 1 <= j + 1
    BY <1>1, <2>2
  <2>6. Compared'
    BY <1>2, <1>3, <2>3, <2>4, <2>5 DEF Compared, InOrder, Content, n
  <2>7. QED
    BY <1>1, <1>3, <1>4, <1>5, <2>3, <2>6, Partition
<1>7. CASE ~Before(a[i], pivot)
  <2>1. i' = i /\ j' = j - 1 /\ pc' = "down" /\ NotBefore(a[i], a[u - 1])
    BY <1>2, <1>7 DEF Up
  <2>2. InOrder(u - 1, i)
    BY <1>1, <1>4, <2>1, Laws DEF Ordered
  <2>3. \A f \in (j - 1) + 1..u : InOrder(u - 1, f)
    <3> TAKE f \in (j - 1) + 1..u
    <3>1. f = j \/ f \in j + 1..u
      BY <1>1
    <3>2. QED
      BY <1>2, <3>1
  <2>4. (j - 1) + 2 <= u /\ l <= j - 1 /\ i <= (j - 1) + 2
    BY <1>1, <1>2
  <2>5. Compared'
    BY <1>2, <1>3, <2>1, <2>2, <2>3, <2>4 DEF Compared, InOrder, Content, n
  <2>6. QED
    BY <1>1, <1>3, <1>4, <1>5, <2>1, <2>5, Partition
<1>8. QED
  BY <1>6, <1>7

LEMMA DownOrdered ==
  ASSUME Bounds, Ordered, order, Down
  PROVE  Ordered'
<1>1. /\ n \in Nat /\ l \in Int /\ u \in Int /\ i \in Int /\ j \in Int
      /\ 1 <= l /\ u <= n /\ l + 3 <= u /\ l + 1 <= i /\ j <= u - 1
      /\ pc = "down" /\ Unsorted
  BY LengthNat DEF Bounds, TypeOK, InBounds, HereOK, Down, Unsorted
<1>2. /\ a[u - 1] = pivot /\ i < u /\ l <= j /\ i <= j + 2 /\ j + 2 <= u
      /\ \A f \in l..i - 1 : InOrder(f, u - 1)
      /\ \A f \in j + 1..u : InOrder(u - 1, f)
      /\ InOrder(u - 1, i)
  BY <1>1 DEF Ordered, Compared
<1>3. UNCHANGED <<list, order, l, u, pivot, frames>>
  BY DEF Down
<1>4. l \in 1..n /\ u \in 1..n /\ i \in 1..n /\ j \in 1..n /\ u - 1 \in 1..n /\ l \in l..u
  BY <1>1, <1>2
<1>5. CASE Before(pivot, a[j])
  <2>1. InOrder(u - 1, j)
    BY <1>1, <1>2, <1>4, <1>5, Laws DEF Ordered
  <2>2. i <= j
    <3>1. ~InOrder(j, u - 1)
      BY <1>2, <1>5 DEF Before, InOrder
    <3>2. ~(j \in l..i - 1)
      BY <1>2, <3>1
    <3>3. QED
      BY <1>1, <1>2, <3>2
  <2>3. i' = i /\ j' = j - 1 /\ pc' = "down" /\ a' = a
    BY <1>1, <1>2, <1>5 DEF Down, NotBefore, Before
  <2>4. \A f \in (j - 1) + 1..u : InOrder(u - 1, f)
    <3> TAKE f \in (j - 1) + 1..u
    <3>1. f = j \/ f \in j + 1..u
      BY <1>1
    <3>2. QED
      BY <1>2, <2>1, <3>1
  <2>5. (j - 1) + 2 <= u /\ l <= j - 1 /\ i <= (j - 1) + 2
    BY <1>1, <1>2, <2>2
  <2>6. Compared'
    BY <1>2, <1>3, <2>3, <2>4, <2>5 DEF Compared, InOrder, Content, n
  <2>7. a' = set2(l, l, a[l], a[l])
    BY <1>4, <2>3, NoExchange
  <2>8. QED
    BY <1>1, <1>3, <1>4, <2>3, <2>6, <2>7, Partition
<1>6. CASE ~Before(pivot, a[j]) /\ j < i
  <2>1. i' = i /\ j' = j /\ pc' = "split" /\ a' = a
    BY <1>1, <1>6 DEF Down
  <2>2. Compared'
    BY <1>2, <1>3, <1>6, <2>1 DEF Compared, InOrder, Content, n
  <2>3. a' = set2(l, l, a[l], a[l])
    BY <1>4, <2>1, NoExchange
  <2>4. QED
    BY <1>1, <1>3, <1>4, <2>1, <2>2, <2>3, Partition
<1>7. CASE ~Before(pivot, a[j]) /\ i <= j
  <2>1. /\ i' = i + 1 /\ j' = j /\ pc' = "up" /\ NotBefore(a[u - 1], a[j])
        /\ a' = set2(i, j, a[i], a[j])
    BY <1>1, <1>2, <1>7 DEF Down
  <2>2. InOrder(j, u - 1)
    BY <1>1, <1>4, <2>1, Laws DEF Ordered
  <2>3. ASSUME NEW f \in l..(i + 1) - 1 PROVE InOrderIn(a', f, u - 1)
    <3>1. f \in 1..n /\ Other(i, j, u - 1) = u - 1
      BY <1>1, <1>2, <1>7 DEF Other
    <3>2. IF f = i THEN Other(i, j, f) = j ELSE f \in l..i - 1 /\ Other(i, j, f) = f
      BY <1>1, <1>7 DEF Other
    <3>3. InOrder(Other(i, j, f), Other(i, j, u - 1))
      BY <1>2, <2>2, <3>1, <3>2
    <3>4. QED
      BY <1>3, <1>4, <2>1, <3>1, <3>3, After
  <2>4. ASSUME NEW f \in j..u PROVE InOrderIn(a', u - 1, f)
    <3>1. f \in 1..n /\ Other(i, j, u - 1) = u - 1
      BY <1>1, <1>2, <1>7 DEF Other
    <3>2. IF f = j THEN Other(i, j, f) = i ELSE f \in j + 1..u /\ Other(i, j, f) = f
      BY <1>1, <1>7 DEF Other
    <3>3. InOrder(Other(i, j, u - 1), Other(i, j, f))
      BY <1>2, <3>1, <3>2
    <3>4. QED
      BY <1>3, <1>4, <2>1, <3>1, <3>3, After
  <2>5. a'[u - 1] = pivot
    <3>1. u - 1 \in Fields /\ Other(i, j, u - 1) = u - 1
      BY <1>1, <1>2, <1>7, LengthNat DEF Bounds, Other
    <3>2. QED
      BY <1>2, <1>3, <1>4, <2>1, <3>1, Exchanging
  <2>6. \A f \in j + 1..u : f \in j..u
    BY <1>1
  <2>7. i + 1 < u /\ l < j /\ i + 1 <= j + 1 /\ j \in j..u
    BY <1>1, <1>2, <1>7
  <2>8. Compared'
    BY <1>3, <2>1, <2>3, <2>4, <2>5, <2>6, <2>7 DEF Compared, InOrder, InOrderIn, Content, n
  <2>9. i \in l..u /\ j \in l..u
    BY <1>1, <1>2
  <2>10. QED
    BY <1>1, <1>3, <2>1, <2>8, <2>9, Partition
<1>8. QED
  BY <1>1, <1>5, <1>6, <1>7

\* The pivot goes where its halves meet; one of them is the next interval and
\* the other one is left.
LEMMA SplitOrdered ==
  ASSUME Bounds, Ordered, order, Split
  PROVE  Ordered'
<1>1. /\ n \in Nat /\ l \in Int /\ u \in Int /\ i \in Int /\ j \in Int
      /\ 1 <= l /\ u <= n /\ l + 3 <= u /\ l + 1 <= i /\ j <= u - 1
      /\ pc = "split" /\ Unsorted
  BY LengthNat DEF Bounds, TypeOK, InBounds, HereOK, Split, Unsorted
<1>2. /\ a[u - 1] = pivot /\ i < u /\ j < i
      /\ \A f \in l..i - 1 : InOrder(f, u - 1)
      /\ \A f \in j + 1..u : InOrder(u - 1, f)
  BY <1>1 DEF Ordered, Compared
<1>3. /\ UNCHANGED <<list, order>> /\ n' = n /\ pc' = "loop"
      /\ a' = set2(u - 1, i, a[u - 1], a[i])
  BY DEF Split, n
<1>4. PICK lo \in {l, i + 1}, hi \in {i - 1, u}, rest \in [l : Int, u : Int] :
        /\ l' = lo /\ u' = hi /\ frames' = Append(frames, rest)
        /\ \/ lo = l /\ hi = i - 1 /\ rest.l = i + 1 /\ rest.u = u
           \/ lo = i + 1 /\ hi = u /\ rest.l = l /\ rest.u = i - 1
  <2>1. CASE Smaller
    <3>1. [l |-> i + 1, u |-> u] \in [l : Int, u : Int]
      BY <1>1
    <3>2. l' = l /\ u' = i - 1 /\ frames' = Append(frames, [l |-> i + 1, u |-> u])
      BY <2>1 DEF Split
    <3>3. QED
      BY <3>1, <3>2
  <2>2. CASE ~Smaller
    <3>1. [l |-> l, u |-> i - 1] \in [l : Int, u : Int]
      BY <1>1
    <3>2. l' = i + 1 /\ u' = u /\ frames' = Append(frames, [l |-> l, u |-> i - 1])
      BY <2>2 DEF Split
    <3>3. QED
      BY <3>1, <3>2
  <2>3. QED
    BY <2>1, <2>2
<1>5. /\ Len(frames') = Len(frames) + 1 /\ Len(frames) \in Nat
      /\ \A k \in 1..Len(frames') : frames'[k] = IF k = Len(frames) + 1 THEN rest ELSE frames[k]
  <2> DEFINE Interval == [l : Int, u : Int]
  <2>1. frames \in Seq(Interval) /\ rest \in Interval
    BY DEF Bounds, TypeOK
  <2> HIDE DEF Interval
  <2>2. QED
    BY <1>4, <2>1, Push
<1>6. \A k \in 1..Len(frames) : frames[k].l \in Int /\ frames[k].u \in Int
  BY Intervals
<1>7. l \in l..u /\ u - 1 \in l..u /\ i \in l..u /\ u - 1 \in 1..n /\ i \in 1..n
  BY <1>1, <1>2
<1>8. /\ a'[0] = 0 /\ a'[n + 1] = n + 1
      /\ \A f, g \in 1..n : f < g =>
           \/ InOrderIn(a', f, g)
           \/ l <= f /\ g <= u
           \/ \E k \in 1..Len(frames) : frames[k].l <= f /\ g <= frames[k].u
  BY <1>1, <1>3, <1>7, Within
<1>9. ASSUME NEW f \in l..u, NEW g \in l..u, f < g
      PROVE  InOrderIn(a', f, g) \/ g < i \/ i < f
  <2>1. f \in 1..n /\ g \in 1..n
    BY <1>1
  <2> DEFINE G == Other(u - 1, i, g)
  <2>2. CASE f = i
    <3>1. G \in j + 1..u /\ Other(u - 1, i, f) = u - 1
      BY <1>1, <1>2, <1>9, <2>2 DEF Other
    <3>2. InOrder(Other(u - 1, i, f), G)
      BY <1>2, <3>1
    <3>3. QED
      BY <1>3, <1>7, <2>1, <3>2, After
  <2>3. CASE g = i
    <3>1. f \in l..i - 1 /\ Other(u - 1, i, f) = f /\ G = u - 1
      BY <1>1, <1>2, <1>9, <2>3 DEF Other
    <3>2. InOrder(Other(u - 1, i, f), G)
      BY <1>2, <3>1
    <3>3. QED
      BY <1>3, <1>7, <2>1, <3>2, After
  <2>4. CASE f < i /\ i < g
    <3>1. f \in l..i - 1 /\ Other(u - 1, i, f) = f /\ G \in j + 1..u /\ G \in 1..n
      BY <1>1, <1>2, <1>9, <2>4 DEF Other
    <3>2. InOrder(f, u - 1) /\ InOrder(u - 1, G)
      BY <1>2, <3>1
    <3>3. InOrder(Other(u - 1, i, f), G)
      BY <1>1, <1>7, <2>1, <3>1, <3>2, Laws DEF Ordered
    <3>4. QED
      BY <1>3, <1>7, <2>1, <3>3, After
  <2>5. QED
    BY <1>1, <1>9, <2>2, <2>3, <2>4
<1>10. Outside'
  BY <1>3, <1>8 DEF Outside
<1>11. Apart'
  <2>1. /\ \A k \in 1..Len(frames) : /\ frames[k].l <= frames[k].u
                                     /\ frames[k].u < l \/ u < frames[k].l
        /\ \A k, m \in 1..Len(frames) : k < m => frames[k].u < frames[m].l \/ frames[m].u < frames[k].l
    BY <1>1 DEF Ordered, Apart
  <2>2. l' <= u' /\ rest.l <= rest.u /\ (rest.u < l' \/ u' < rest.l)
    BY <1>1, <1>2, <1>4
  <2>3. \A k \in 1..Len(frames) : /\ frames[k].u < l' \/ u' < frames[k].l
                                  /\ frames[k].u < rest.l \/ rest.u < frames[k].l
    BY <1>1, <1>2, <1>4, <1>6, <2>1
  <2>4. ASSUME NEW k \in 1..Len(frames')
        PROVE  /\ frames'[k].l <= frames'[k].u
               /\ frames'[k].u < l' \/ u' < frames'[k].l
               /\ \A m \in 1..Len(frames') : k < m =>
                    frames'[k].u < frames'[m].l \/ frames'[m].u < frames'[k].l
    <3>1. CASE k = Len(frames) + 1
      <4>1. frames'[k] = rest /\ \A m \in 1..Len(frames') : ~(k < m)
        BY <1>5, <3>1
      <4>2. QED
        BY <2>2, <4>1
    <3>2. CASE k # Len(frames) + 1
      <4>1. k \in 1..Len(frames) /\ frames'[k] = frames[k]
        BY <1>5, <3>2
      <4>2. ASSUME NEW m \in 1..Len(frames'), k < m
            PROVE  frames[k].u < frames'[m].l \/ frames'[m].u < frames[k].l
        <5>1. CASE m = Len(frames) + 1
          BY <1>5, <2>3, <4>1, <5>1
        <5>2. CASE m # Len(frames) + 1
          <6>1. m \in 1..Len(frames) /\ frames'[m] = frames[m]
            BY <1>5, <5>2
          <6>2. QED
            BY <2>1, <4>1, <4>2, <6>1
        <5>3. QED
          BY <5>1, <5>2
      <4>3. QED
        BY <2>1, <2>3, <4>1, <4>2
    <3>3. QED
      BY <3>1, <3>2
  <2>5. QED
    BY <2>2, <2>4 DEF Apart
<1>12. Sorted'
  <2> SUFFICES ASSUME NEW f \in 1..n, NEW g \in 1..n, f < g
               PROVE  \/ InOrderIn(a', f, g)
                      \/ Unsorted' /\ l' <= f /\ g <= u'
                      \/ \E k \in 1..Len(frames') : frames'[k].l <= f /\ g <= frames'[k].u
    BY <1>3, SortedNext
  <2>1. Unsorted'
    BY <1>3 DEF Unsorted
  <2>2. ASSUME NEW k \in 1..Len(frames), frames[k].l <= f, g <= frames[k].u
        PROVE  \E m \in 1..Len(frames') : frames'[m].l <= f /\ g <= frames'[m].u
    <3>1. k \in 1..Len(frames') /\ frames'[k] = frames[k]
      BY <1>5
    <3>2. QED
      BY <2>2, <3>1
  <2>3. CASE l <= f /\ g <= u
    <3>1. f \in l..u /\ g \in l..u
      BY <1>1, <2>3
    <3>2. Len(frames') \in 1..Len(frames') /\ frames'[Len(frames')] = rest
      BY <1>5
    <3>3. \/ l' <= f /\ g <= u'
          \/ rest.l <= f /\ g <= rest.u
          \/ InOrderIn(a', f, g)
      BY <1>1, <1>4, <1>9, <2>3, <3>1
    <3>4. QED
      BY <2>1, <3>2, <3>3
  <2>4. CASE ~(l <= f /\ g <= u)
    BY <1>8, <2>2, <2>4
  <2>5. QED
    BY <2>3, <2>4
<1>13. Compared' /\ pc' # "done"
  BY <1>3 DEF Compared
<1>14. QED
  BY <1>10, <1>11, <1>12, <1>13 DEF Ordered

\* An interval of one field or none is in order; the next one is one that was left.
LEMMA ReturnOrdered ==
  ASSUME Bounds, Ordered, order, Return
  PROVE  Ordered'
<1>1. n \in Nat /\ l \in Int /\ u \in Int
  BY LengthNat DEF Bounds, TypeOK
<1>2. UNCHANGED <<list, order, a>> /\ n' = n /\ pc # "raised"
  BY DEF Return, n
<1>3. Outside /\ Apart /\ Sorted
  BY <1>2 DEF Ordered
<1>4. \A f, g \in 1..n : f < g =>
        InOrderIn(a', f, g) \/ \E k \in 1..Len(frames) : frames[k].l <= f /\ g <= frames[k].u
  <2>1. \A f, g \in 1..n : f < g => ~(Unsorted /\ l <= f /\ g <= u)
    BY <1>1 DEF Return, Unsorted
  <2>2. QED
    BY <1>2, <1>3, <2>1 DEF Sorted, InOrder, InOrderIn
<1>5. CASE frames = <<>>
  <2>1. pc' = "done" /\ UNCHANGED <<l, u, frames>> /\ Len(frames) = 0
    BY <1>5 DEF Return
  <2>2. Outside' /\ Compared'
    BY <1>2, <1>3, <2>1 DEF Outside, Compared
  <2>3. Apart'
    BY <1>2, <1>3, <2>1 DEF Apart
  <2>4. Sorted'
    BY <1>2, <1>4, <2>1 DEF Sorted, InOrder, InOrderIn, Content, n
  <2>5. QED
    BY <1>5, <2>1, <2>2, <2>3, <2>4 DEF Ordered
<1>6. CASE frames # <<>>
  <2>1. /\ pc' = "loop" /\ frames' = SubSeq(frames, 1, Len(frames) - 1)
        /\ l' = frames[Len(frames)].l /\ u' = frames[Len(frames)].u
    BY <1>6 DEF Return
  <2>2. /\ Len(frames') = Len(frames) - 1 /\ Len(frames) \in 1..Len(frames) /\ Len(frames) \in Nat
        /\ \A k \in 1..Len(frames') : frames'[k] = frames[k]
    <3> DEFINE Interval == [l : Int, u : Int]
    <3>1. frames \in Seq(Interval)
      BY DEF Bounds, TypeOK
    <3> HIDE DEF Interval
    <3>2. QED
      BY <1>6, <2>1, <3>1, Pop
  <2>3. Outside' /\ Compared'
    BY <1>2, <1>3, <2>1 DEF Outside, Compared
  <2>4. Apart'
    <3>1. \A k \in 1..Len(frames') : k \in 1..Len(frames) /\ k < Len(frames) /\ frames'[k] = frames[k]
      BY <2>2
    <3>2. l' <= u'
      BY <1>3, <2>1, <2>2 DEF Apart
    <3>3. \A k \in 1..Len(frames') : frames'[k].l <= frames'[k].u
      BY <1>3, <3>1 DEF Apart
    <3>4. \A k \in 1..Len(frames') : frames'[k].u < l' \/ u' < frames'[k].l
      BY <1>3, <2>1, <2>2, <3>1 DEF Apart
    <3>5. \A k, m \in 1..Len(frames') : k < m => frames'[k].u < frames'[m].l \/ frames'[m].u < frames'[k].l
      BY <1>3, <3>1 DEF Apart
    <3>6. QED
      BY <3>2, <3>3, <3>4, <3>5 DEF Apart
  <2>5. Sorted'
    <3> SUFFICES ASSUME NEW f \in 1..n, NEW g \in 1..n, f < g
                 PROVE  \/ InOrderIn(a', f, g)
                        \/ Unsorted' /\ l' <= f /\ g <= u'
                        \/ \E k \in 1..Len(frames') : frames'[k].l <= f /\ g <= frames'[k].u
      BY <1>2, SortedNext
    <3>1. ASSUME NEW k \in 1..Len(frames), frames[k].l <= f, g <= frames[k].u
          PROVE  \/ Unsorted' /\ l' <= f /\ g <= u'
                 \/ \E m \in 1..Len(frames') : frames'[m].l <= f /\ g <= frames'[m].u
      <4>1. CASE k = Len(frames)
        BY <2>1, <3>1, <4>1 DEF Unsorted
      <4>2. CASE k # Len(frames)
        <5>1. k \in 1..Len(frames') /\ frames'[k] = frames[k]
          BY <2>2, <4>2
        <5>2. QED
          BY <3>1, <5>1
      <4>3. QED
        BY <4>1, <4>2
    <3>2. QED
      BY <1>4, <3>1
  <2>6. QED
    BY <2>1, <2>3, <2>4, <2>5 DEF Ordered
<1>7. QED
  BY <1>5, <1>6

LEMMA InitOrdered == Init => Ordered
<1> SUFFICES ASSUME Init PROVE Ordered
  OBVIOUS
<1>1. n \in Nat /\ Fields = 0..n + 1
  BY InitBounds, LengthNat DEF Bounds
<1>2. /\ l = 1 /\ u = n /\ pc = "loop" /\ frames = <<>> /\ Len(frames) = 0
      /\ a[0] = 0 /\ a[n + 1] = n + 1
  BY <1>1 DEF Init
<1>3. QED
  BY <1>1, <1>2 DEF Ordered, Outside, Apart, Sorted, Unsorted, Compared

LEMMA NextOrdered ==
  ASSUME Bounds, Ordered, [Next]_vars
  PROVE  Ordered'
<1>1. CASE order
  <2>1. CASE Return
    BY <1>1, <2>1, ReturnOrdered
  <2>2. CASE Ends
    BY <1>1, <2>2, EndsOrdered
  <2>3. CASE Middle
    BY <1>1, <2>3, MiddleOrdered
  <2>4. CASE Upper
    BY <1>1, <2>4, UpperOrdered
  <2>5. CASE Pivot
    BY <1>1, <2>5, PivotOrdered
  <2>6. CASE Up
    BY <1>1, <2>6, UpOrdered
  <2>7. CASE Down
    BY <1>1, <2>7, DownOrdered
  <2>8. CASE Split
    BY <1>1, <2>8, SplitOrdered
  <2>9. CASE Raise
    <3>1. pc' = "raised" /\ UNCHANGED <<list, a>> /\ n' = n /\ Outside
      BY <1>1, <2>9 DEF Raise, n, Ordered
    <3>2. QED
      BY <3>1 DEF Ordered, Outside
  <2>10. CASE UNCHANGED vars
    BY <2>10 DEF vars, locals, Ordered, Outside, Apart, Sorted, Unsorted, Compared, InOrder, Content, n
  <2>11. QED
    BY <2>1, <2>2, <2>3, <2>4, <2>5, <2>6, <2>7, <2>8, <2>9, <2>10 DEF Next
<1>2. CASE ~order
  <2>1. order' = order
    BY DEF Next, Return, Ends, Middle, Upper, Pivot, Up, Down, Split, Raise, vars
  <2>2. pc' = "done" => frames' = <<>>
    BY DEF Next, Return, Ends, Middle, Upper, Pivot, Up, Down, Split, Raise, vars, Ordered
  <2>3. QED
    BY <1>2, <2>1, <2>2 DEF Ordered
<1>3. QED
  BY <1>1, <1>2

-----------------------------------------------------------------------------
(* The depth.                                                              *)

LEMMA Scaled ==
  ASSUME NEW p \in Nat, NEW x \in Int, NEW y \in Int, x <= y
  PROVE  p * x <= p * y /\ p * x \in Int /\ p * y \in Int /\ (2 * p) * x = p * (2 * x)
OBVIOUS

LEMMA InitShallow == Init => Shallow
<1> SUFFICES ASSUME Init PROVE Shallow
  OBVIOUS
<1>1. n \in Nat /\ Power[0] = 1
  BY InitBounds, LengthNat, PowerDef DEF Bounds
<1>2. l = 1 /\ u = n /\ Len(frames) = 0
  BY DEF Init
<1>3. QED
  BY <1>1, <1>2 DEF Shallow

\* The inner call gets the smaller half, so that the one that is left for it
\* counts as one interval that is as large and two that are half as large.
LEMMA SplitShallow ==
  ASSUME Bounds, Shallow, Split
  PROVE  Shallow'
<1>1. /\ n \in Nat /\ l \in Int /\ u \in Int /\ i \in Int
      /\ l + 3 <= u /\ l + 1 <= i /\ i <= u + 1 /\ n' = n
  BY LengthNat DEF Bounds, TypeOK, InBounds, HereOK, Split, n
<1>2. PICK rest \in [l : Int, u : Int] :
        /\ frames' = Append(frames, rest)
        /\ l' \in Int /\ u' \in Int
        /\ 2 * (u' - l' + 2) <= u - l + 2
        /\ rest.u - rest.l + 2 <= u - l + 2
        /\ rest.l < rest.u
  <2>1. CASE Smaller
    <3>1. [l |-> i + 1, u |-> u] \in [l : Int, u : Int]
      BY <1>1
    <3>2. l' = l /\ u' = i - 1 /\ frames' = Append(frames, [l |-> i + 1, u |-> u])
      BY <2>1 DEF Split
    <3>3. i - l < u - i
      BY <2>1 DEF Smaller
    <3>4. i - 1 \in Int /\ 2 * ((i - 1) - l + 2) <= u - l + 2 /\ u - (i + 1) + 2 <= u - l + 2 /\ i + 1 < u
      BY <1>1, <3>3
    <3>5. QED
      BY <1>1, <3>1, <3>2, <3>4
  <2>2. CASE ~Smaller
    <3>1. [l |-> l, u |-> i - 1] \in [l : Int, u : Int]
      BY <1>1
    <3>2. l' = i + 1 /\ u' = u /\ frames' = Append(frames, [l |-> l, u |-> i - 1])
      BY <2>2 DEF Split
    <3>3. ~(i - l < u - i)
      BY <2>2 DEF Smaller
    <3>4. i + 1 \in Int /\ 2 * (u - (i + 1) + 2) <= u - l + 2 /\ (i - 1) - l + 2 <= u - l + 2 /\ l < i - 1
      BY <1>1, <3>3
    <3>5. QED
      BY <1>1, <3>1, <3>2, <3>4
  <2>3. QED
    BY <2>1, <2>2
<1>3. /\ Len(frames') = Len(frames) + 1 /\ Len(frames) \in Nat
      /\ \A k \in 1..Len(frames') : frames'[k] = IF k = Len(frames) + 1 THEN rest ELSE frames[k]
  <2> DEFINE Interval == [l : Int, u : Int]
  <2>1. frames \in Seq(Interval) /\ rest \in Interval /\ frames' = Append(frames, rest)
    BY <1>2 DEF Bounds, TypeOK
  <2> HIDE DEF Interval
  <2>2. QED
    BY <2>1, Push
<1> DEFINE p == Power[Len(frames)]
<1>4. p \in Nat /\ Power[Len(frames) + 1] = 2 * p
  BY <1>3, PowerDef
<1> HIDE DEF p
<1>5. p * (u - l + 2) <= n + 1
  BY DEF Split, Shallow, p
<1>6. Power[Len(frames')] * (u' - l' + 2) <= n' + 1
  <2> DEFINE x == u' - l' + 2
             y == u - l + 2
  <2>0. p * y <= n + 1
    BY <1>5
  <2>1. x \in Int /\ 2 * x \in Int /\ y \in Int /\ 2 * x <= y
    <3>1. x \in Int /\ y \in Int
      BY <1>1, <1>2
    <3>2. 2 * x <= y
      BY <1>2
    <3> HIDE DEF x, y
    <3>3. QED
      BY <3>1, <3>2
  <2> HIDE DEF x, y
  <2>2. /\ p * (2 * x) <= p * y /\ p * (2 * x) \in Int /\ p * y \in Int
        /\ (2 * p) * x = p * (2 * x)
    BY <1>4, <2>1, Scaled
  <2>3. (2 * p) * x <= n + 1
    BY <1>1, <2>0, <2>1, <2>2
  <2>4. Power[Len(frames')] = 2 * p
    BY <1>3, <1>4
  <2>5. QED
    BY <1>1, <2>3, <2>4 DEF x
<1>7. ASSUME NEW k \in 1..Len(frames')
      PROVE  /\ frames'[k].l < frames'[k].u
             /\ Power[k - 1] * (frames'[k].u - frames'[k].l + 2) <= n' + 1
  <2>1. CASE k = Len(frames) + 1
    <3>1. frames'[k] = rest /\ k - 1 = Len(frames)
      BY <1>3, <2>1
    <3> DEFINE x == rest.u - rest.l + 2
               y == u - l + 2
    <3>0. p * y <= n + 1
      BY <1>5
    <3>2. x \in Int /\ y \in Int /\ x <= y
      BY <1>1, <1>2
    <3> HIDE DEF x, y
    <3>3. p * x <= p * y /\ p * x \in Int /\ p * y \in Int
      BY <1>4, <3>2, Scaled
    <3>4. p * x <= n + 1
      BY <1>1, <3>0, <3>2, <3>3
    <3>5. QED
      BY <1>1, <1>2, <3>1, <3>4 DEF x, p
  <2>2. CASE k # Len(frames) + 1
    <3>1. k \in 1..Len(frames) /\ frames'[k] = frames[k]
      BY <1>3, <2>2
    <3>2. QED
      BY <1>1, <3>1 DEF Shallow
  <2>3. QED
    BY <2>1, <2>2
<1>8. QED
  BY <1>6, <1>7 DEF Shallow

LEMMA NextShallow ==
  ASSUME Bounds, Shallow, [Next]_vars
  PROVE  Shallow'
<1>1. CASE Split
  BY <1>1, SplitShallow
<1>2. CASE Return
  <2>1. n' = n
    BY <1>2 DEF Return, n
  <2>2. CASE frames = <<>>
    <3>1. pc' = "done" /\ frames' = frames
      BY <1>2, <2>2 DEF Return
    <3>2. QED
      BY <2>1, <2>2, <3>1 DEF Shallow
  <2>3. CASE frames # <<>>
    <3>1. /\ frames' = SubSeq(frames, 1, Len(frames) - 1)
          /\ l' = frames[Len(frames)].l /\ u' = frames[Len(frames)].u
      BY <1>2, <2>3 DEF Return
    <3>2. /\ Len(frames') = Len(frames) - 1 /\ Len(frames) \in 1..Len(frames) /\ Len(frames) \in Nat
          /\ \A k \in 1..Len(frames') : frames'[k] = frames[k]
      <4> DEFINE Interval == [l : Int, u : Int]
      <4>1. frames \in Seq(Interval)
        BY DEF Bounds, TypeOK
      <4> HIDE DEF Interval
      <4>2. QED
        BY <2>3, <3>1, <4>1, Pop
    <3>3. Power[Len(frames')] * (u' - l' + 2) <= n' + 1
      BY <2>1, <3>1, <3>2 DEF Shallow
    <3>4. \A k \in 1..Len(frames') : k \in 1..Len(frames) /\ frames'[k] = frames[k]
      BY <3>2
    <3>5. \A k \in 1..Len(frames') :
            /\ frames'[k].l < frames'[k].u
            /\ Power[k - 1] * (frames'[k].u - frames'[k].l + 2) <= n' + 1
      BY <2>1, <3>4 DEF Shallow
    <3>6. QED
      BY <3>3, <3>5 DEF Shallow
  <2>4. QED
    BY <2>2, <2>3
<1>3. CASE ~Split /\ ~Return
  <2>1. UNCHANGED <<list, l, u, frames>> /\ (pc' # "done" => pc # "done")
    <3>1. CASE Ends
      BY <3>1 DEF Ends
    <3>2. CASE Middle
      BY <3>2 DEF Middle, locals
    <3>3. CASE Upper
      BY <3>3 DEF Upper, locals
    <3>4. CASE Pivot
      BY <3>4 DEF Pivot
    <3>5. CASE Up
      BY <3>5 DEF Up
    <3>6. CASE Down
      BY <3>6 DEF Down
    <3>7. CASE Raise
      BY <3>7 DEF Raise, locals, Comparing
    <3>8. CASE UNCHANGED vars
      BY <3>8 DEF vars, locals
    <3>9. QED
      BY <1>3, <3>1, <3>2, <3>3, <3>4, <3>5, <3>6, <3>7, <3>8 DEF Next
  <2>2. n' = n
    BY <2>1 DEF n
  <2>3. QED
    BY <2>1, <2>2 DEF Shallow
<1>4. QED
  BY <1>1, <1>2, <1>3

-----------------------------------------------------------------------------
(* The theorems.                                                           *)

LEMMA InitInv == Init => IInv
BY InitBounds, InitOrdered, InitShallow DEF IInv

LEMMA NextInv == IInv /\ [Next]_vars => IInv'
BY NextBounds, NextOrdered, NextShallow DEF IInv

LEMMA InvSorts == IInv => Sorts
<1> SUFFICES ASSUME IInv PROVE Sorts
  OBVIOUS
<1>1. n \in Nat /\ l \in Int /\ u \in Int /\ i \in Int /\ j \in Int /\ Bounds /\ Ordered /\ Shallow
  BY LengthNat DEF IInv, Bounds, TypeOK
<1>2. ASSUME order
      PROVE  /\ pc # "invalid" /\ a[0] = 0 /\ a[n + 1] = n + 1
             /\ pc = "up" => i < u
             /\ pc = "down" => l <= j
  BY <1>1, <1>2 DEF Ordered, Outside, Compared
<1>3. ASSUME order, pc = "up"
      PROVE  /\ \A f \in l..i - 1 : <<Content(pivot), Content(a[f])>> \notin Less
             /\ \A f \in j..u : <<Content(a[f]), Content(pivot)>> \notin Less
  <2>1. /\ a[u - 1] = pivot
        /\ \A f \in l..i - 1 : InOrder(f, u - 1)
        /\ \A f \in j + 1..u : InOrder(u - 1, f)
        /\ InOrder(u - 1, j)
    BY <1>1, <1>3 DEF Ordered, Compared
  <2>2. \A f \in j..u : f = j \/ f \in j + 1..u
    BY <1>1
  <2>3. QED
    BY <2>1, <2>2 DEF InOrder
<1>4. ASSUME order, pc = "done", NEW f \in 1..n - 1
      PROVE  <<Content(a[f + 1]), Content(a[f])>> \notin Less
  <2>1. f \in 1..n /\ f + 1 \in 1..n /\ f < f + 1 /\ Len(frames) = 0
    BY <1>1, <1>4 DEF Ordered
  <2>2. InOrder(f, f + 1)
    BY <1>1, <1>4, <2>1 DEF Ordered, Sorted, Unsorted
  <2>3. QED
    BY <2>2 DEF InOrder
<1>5. ASSUME frames # <<>>
      PROVE  Power[Len(frames)] <= n
  <2>1. frames \in Seq([l : Int, u : Int])
    BY <1>1 DEF Bounds, TypeOK
  <2>2. Len(frames) \in 1..Len(frames) /\ Len(frames) - 1 \in Nat
    BY <1>5, <2>1
  <2> DEFINE p == Power[Len(frames) - 1]
             x == frames[Len(frames)].u - frames[Len(frames)].l + 2
  <2>3. p \in Nat /\ Power[Len(frames)] = 2 * p
    <3>1. (Len(frames) - 1) + 1 = Len(frames)
      BY <2>2
    <3>2. QED
      BY <2>2, <3>1, PowerDef
  <2>4. x \in Int /\ 3 <= x
    BY <1>1, <2>2, Intervals DEF Shallow
  <2>5. p * x <= n + 1
    BY <1>1, <2>2 DEF Shallow
  <2> HIDE DEF p, x
  <2>6. p * 3 <= p * x /\ p * x \in Int
    BY <2>3, <2>4, Scaled
  <2>7. QED
    BY <1>1, <2>3, <2>5, <2>6
<1>6. QED
  BY <1>2, <1>3, <1>4, <1>5 DEF Sorts

\* table.sort stays in its interval, and one field beyond; its intervals are
\* apart, in order to each other, and not more than the list has room for.
THEOREM SortInvariant == Spec => []IInv
BY InitInv, NextInv, PTL DEF Spec

\* Whatever the order function answers, and whenever it fails, the table has
\* every value that it had, once.
THEOREM SortPermutes == Spec => []Permuted
<1>1. IInv => Permuted
  BY DEF IInv, Bounds
<1>2. QED
  BY <1>1, SortInvariant, PTL

\* Under an order, a list of any length is in order in the end, no comparison
\* leaves the interval, and sort does not give up; under any function, its calls
\* are no deeper than the logarithm of the length.
THEOREM SortSorts == Spec => []Sorts
BY InvSorts, SortInvariant, PTL
=============================================================================

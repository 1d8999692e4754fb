-------------------------- MODULE LuaTable_proofs --------------------------
(***************************************************************************)
(* Tables keep their promises, for any keys, values and hash functions.    *)
(*                                                                         *)
(* The loops of the code are recursive functions over nodes or numbers.    *)
(* Each is shown to have a solution where there is no circle               *)
(* (AlongSolution), or where n decreases (RangeRecursion), and only the    *)
(* equations are used then.  Chained(T) says what a table keeps; newkey,   *)
(* Store, PutBack and resize are each shown to keep it and to change no    *)
(* field but the one that is set (Assigns, Stores, Returns, Renews, Sets); *)
(* that rehash makes enough room is counting (NodesEnough).                *)
(***************************************************************************)
EXTENDS LuaTable, FiniteSetTheorems, Ranges

-----------------------------------------------------------------------------
(* Loops over chains.                                                      *)

\* f solves the equations of the loop on the nodes A, ...
Solves(T, stop, f, A) ==
  \A q \in A : f[q] = IF q \in stop \cup {NONE} THEN q ELSE f[T.node[q].next]
\* ... which it never leaves from A ...
ClosedIn(T, stop, A) == \A q \in A : q \in stop \cup {NONE} \/ T.node[q].next \in A

\* ... and Along is what solves them on all nodes.
AlongIs(T, stop, f) ==
  /\ Solves(T, stop, f, Positions(T) \cup {NONE})
  /\ \A p \in Positions(T) \cup {NONE} : Along(T, p, stop) = f[p]

\* Where there is no circle, the loop along a chain ends, from every node.
LEMMA AlongSolution ==
  ASSUME NEW T, NEW stop, NoCircle(T), NONE \notin Positions(T),
         \A q \in Positions(T) : T.node[q].next \in Positions(T) \cup {NONE}
  PROVE  \E f \in [Positions(T) \cup {NONE} -> Positions(T) \cup {NONE}] : AlongIs(T, stop, f)
<1> DEFINE D == Positions(T) \cup {NONE}
           Good(q, f, A) == /\ f \in [D -> D] /\ A \in SUBSET D /\ q \in A
                            /\ Solves(T, stop, f, A) /\ ClosedIn(T, stop, A)
           Bad == {q \in Positions(T) : \A f \in [D -> D], A \in SUBSET D : ~Good(q, f, A)}
<1>1. Good(NONE, [q \in D |-> q], {NONE})
  BY DEF Solves, ClosedIn
<1>2. Bad = {}
  <2> SUFFICES ASSUME Bad # {} PROVE FALSE
    OBVIOUS
  <2>1. PICK p \in Bad : T.node[p].next \notin Bad
    BY DEF NoCircle
  <2>2. PICK f \in [D -> D], A \in SUBSET D : Good(T.node[p].next, f, A)
    BY <1>1, <2>1
  <2> DEFINE g == [f EXCEPT ![p] = IF p \in stop THEN p ELSE f[T.node[p].next]]
             B == A \cup {p}
  <2>3. p \notin A
    BY <2>1, <2>2
  <2>4. g \in [D -> D] /\ B \in SUBSET D /\ p \in B /\ T.node[p].next # p
    BY <2>1, <2>2, <2>3
  <2>5. \A q \in A : g[q] = f[q]
    BY <2>3
  <2>6. ClosedIn(T, stop, B)
    BY <2>2 DEF ClosedIn
  <2>7. Solves(T, stop, g, B)
    <3>1. ASSUME NEW q \in A PROVE g[q] = IF q \in stop \cup {NONE} THEN q ELSE g[T.node[q].next]
      BY <2>2, <2>5 DEF Solves, ClosedIn
    <3>2. g[p] = IF p \in stop \cup {NONE} THEN p ELSE g[T.node[p].next]
      BY <2>1, <2>2, <2>4, <2>5
    <3> HIDE DEF g
    <3>3. QED
      BY <3>1, <3>2 DEF Solves
  <2>8. QED
    <3> HIDE DEF g, B
    <3>1. QED BY <2>1, <2>4, <2>6, <2>7
<1>3. \A q \in D : \E f \in [D -> D], A \in SUBSET D : Good(q, f, A)
  BY <1>1, <1>2
<1> DEFINE Fun(q) == CHOOSE f \in [D -> D] : \E A \in SUBSET D : Good(q, f, A)
           F == [q \in D |-> Fun(q)[q]]
<1>4. ASSUME NEW q \in D
      PROVE  Fun(q) \in [D -> D] /\ \E A \in SUBSET D : Good(q, Fun(q), A)
  <2> HIDE DEF Good
  <2>1. QED BY <1>3
<1>5. ASSUME NEW q \in D, NEW r \in D, NEW f, NEW A, NEW g, NEW B, Good(q, f, A), Good(r, g, B),
             NEW x \in A \cap B
      PROVE  f[x] = g[x]
  <2> DEFINE S == {y \in A \cap B : y # NONE /\ f[y] # g[y]}
  <2>1. S \in SUBSET Positions(T)
    BY <1>5
  <2>2. S = {}
    <3> SUFFICES ASSUME S # {} PROVE FALSE
      OBVIOUS
    <3>1. PICK y \in S : T.node[y].next \notin S
      BY <2>1 DEF NoCircle
    <3>2. y \in A /\ y \in B /\ f[y] # g[y] /\ y # NONE
      OBVIOUS
    <3>3. CASE y \in stop
      BY <1>5, <3>2, <3>3 DEF Solves
    <3>4. CASE y \notin stop
      <4>1. T.node[y].next \in A \cap B
        BY <1>5, <3>2, <3>4 DEF ClosedIn
      <4>2. f[y] = f[T.node[y].next] /\ g[y] = g[T.node[y].next]
        BY <1>5, <3>2, <3>4 DEF Solves
      <4>3. T.node[y].next = NONE
        BY <3>1, <3>2, <4>1, <4>2
      <4>4. QED
        BY <1>5, <3>2, <4>1, <4>2, <4>3 DEF Solves
    <3>5. QED
      BY <3>3, <3>4
  <2>3. CASE x = NONE
    BY <1>5, <2>3 DEF Solves
  <2>4. QED
    BY <2>2, <2>3
<1>6. F \in [D -> D]
  BY <1>4
<1>7. Solves(T, stop, F, D)
  <2> SUFFICES ASSUME NEW q \in D PROVE F[q] = IF q \in stop \cup {NONE} THEN q ELSE F[T.node[q].next]
    BY DEF Solves
  <2>1. PICK A \in SUBSET D : Good(q, Fun(q), A)
    BY <1>4
  <2> HIDE DEF Fun
  <2>2. CASE q \in stop \cup {NONE}
    BY <2>1, <2>2 DEF Solves
  <2>3. CASE q \notin stop \cup {NONE}
    <3> DEFINE r == T.node[q].next
    <3>1. r \in A /\ r \in D /\ Fun(q)[q] = Fun(q)[r]
      BY <2>1, <2>3 DEF Solves, ClosedIn
    <3> HIDE DEF r
    <3>2. PICK B \in SUBSET D : Good(r, Fun(r), B)
      BY <1>4, <3>1
    <3>3. r \in A \cap B
      BY <3>1, <3>2
    <3>4. Fun(q)[r] = Fun(r)[r]
      <4> HIDE DEF Good, D
      <4>1. QED BY <1>5, <2>1, <3>1, <3>2, <3>3
    <3>5. QED
      BY <2>3, <3>1, <3>4 DEF r
  <2>4. QED
    BY <2>2, <2>3
<1>8. F = [q \in D |-> IF q \in stop \cup {NONE} THEN q ELSE F[T.node[q].next]]
  <2> HIDE DEF Fun
  <2>1. QED BY <1>7 DEF Solves
<1> HIDE DEF F
<1> DEFINE find == CHOOSE f : f = [q \in D |-> IF q \in stop \cup {NONE} THEN q ELSE f[T.node[q].next]]
<1>9. find = [q \in D |-> IF q \in stop \cup {NONE} THEN q ELSE find[T.node[q].next]]
  BY <1>8
<1>10. \A p \in D : Along(T, p, stop) = find[p]
  BY DEF Along
<1> HIDE DEF find
<1>11. Solves(T, stop, find, D)
  BY <1>9 DEF Solves
<1>12. \A q \in D : find[q] = F[q]
  <2> DEFINE S == {q \in Positions(T) : find[q] # F[q]}
  <2>1. S = {}
    <3> SUFFICES ASSUME S # {} PROVE FALSE
      OBVIOUS
    <3>1. PICK y \in S : T.node[y].next \notin S
      BY DEF NoCircle
    <3>2. QED
      BY <1>7, <1>11, <3>1 DEF Solves
  <2>2. find[NONE] = F[NONE]
    BY <1>7, <1>11 DEF Solves
  <2>3. QED
    BY <2>1, <2>2
<1>13. find \in [D -> D]
  BY <1>6, <1>9, <1>12
<1>14. QED
  BY <1>10, <1>11, <1>13 DEF AlongIs

\* What the loop gives: a node of stop, or NONE, and then none of stop can be
\* reached.
LEMMA AlongStops ==
  ASSUME NEW T, NEW stop \in SUBSET Positions(T), NoCircle(T), NONE \notin Positions(T),
         \A q \in Positions(T) : T.node[q].next \in Positions(T) \cup {NONE},
         NEW p \in Positions(T)
  PROVE  \/ Along(T, p, stop) \in stop
         \/ /\ Along(T, p, stop) = NONE
            /\ \E S \in SUBSET (Positions(T) \ stop) :
                 p \in S /\ \A q \in S : T.node[q].next \in S \cup {NONE}
<1> DEFINE D == Positions(T) \cup {NONE}
<1>0. PICK f \in [D -> D] : AlongIs(T, stop, f)
  BY AlongSolution
<1>1. Solves(T, stop, f, D) /\ \A q \in D : Along(T, q, stop) = f[q]
  BY <1>0 DEF AlongIs
<1>2. \A q \in D : f[q] = IF q \in stop \cup {NONE} THEN q ELSE f[T.node[q].next]
  BY <1>1 DEF Solves
<1> DEFINE Lost == {q \in Positions(T) : f[q] \notin stop \cup {NONE}}
           S == {q \in Positions(T) : f[q] = NONE}
<1>3. Lost = {}
  <2> SUFFICES ASSUME Lost # {} PROVE FALSE
    OBVIOUS
  <2>1. PICK q \in Lost : T.node[q].next \notin Lost
    BY DEF NoCircle
  <2>2. QED
    BY <1>2, <2>1
<1>4. S \in SUBSET (Positions(T) \ stop)
  BY <1>2
<1>5. \A q \in S : T.node[q].next \in S \cup {NONE}
  BY <1>2, <1>4
<1>6. CASE f[p] = NONE
  BY <1>1, <1>4, <1>5, <1>6
<1>7. QED
  BY <1>1, <1>3, <1>6

-----------------------------------------------------------------------------
(* Types, main positions, and the search for keys.                         *)

\* The hashes are numbers.
HashOK == hash \in [Key -> Nat]

\* The parts of a table have their types.
LEMMA NodeTypes ==
  ASSUME NEW T, Typed(T)
  PROVE  /\ Cardinality(Positions(T)) \in Nat /\ Positions(T) = 0..Cardinality(Positions(T)) - 1
         /\ NONE \notin Positions(T)
         /\ Keyed(T) \in SUBSET Positions(T)
         /\ \A p \in Positions(T) :
              /\ T.node[p] \in NodesAt(Positions(T))
              /\ T.node[p].key \in Key \cup {Nil}
              /\ T.node[p].dead \in BOOLEAN
              /\ T.node[p].val \in Val \cup {Nil}
              /\ T.node[p].next \in Positions(T) \cup {NONE}
              /\ T.node[p].dead => T.node[p].key \in ObjectKeys /\ T.node[p].val = Nil
<1>1. Cardinality(Positions(T)) \in Nat
  BY FS_CardinalityType DEF Typed
<1>2. Positions(T) = 0..Cardinality(Positions(T)) - 1
  BY DEF Typed
<1>3. T.node \in [Positions(T) -> NodesAt(Positions(T))]
  BY DEF Typed
<1>4. NONE \notin Positions(T)
  BY <1>1, <1>2 DEF NONE
<1>5. \A p \in Positions(T) : T.node[p].dead => T.node[p].key \in ObjectKeys /\ T.node[p].val = Nil
  BY DEF Typed
<1>6. QED
  BY <1>1, <1>2, <1>3, <1>4, <1>5 DEF NodesAt, Keyed

\* Remainders are below the divisor.
LEMMA Remainder == \A x \in Nat, m \in Nat \ {0} : x % m \in 0..m - 1
  OBVIOUS

\* A main position is one of the nodes.
LEMMA MainInRange ==
  ASSUME NEW T, Typed(T), HashOK, ~isdummy(T), NEW k \in Key
  PROVE  mainposition(T, k) \in Positions(T)
<1> DEFINE c == Cardinality(Positions(T))
<1>1. c \in Nat /\ Positions(T) = 0..c - 1 /\ c # 0 /\ sizenode(T) = c /\ hash[k] \in Nat
  BY NodeTypes DEF isdummy, sizenode, HashOK
<1> HIDE DEF c
<1>2. hash[k] % c \in 0..c - 1
  BY <1>1, Remainder
<1>3. c # 1 => hash[k] % (c - 1) \in 0..(c - 1) - 1
  <2>1. c # 1 => c - 1 \in Nat \ {0}
    BY <1>1
  <2>2. QED
    BY <1>1, <2>1, Remainder
<1>4. hash[k] % 1 \in 0..1 - 1
  BY <1>1, Remainder
<1>5. QED
  BY <1>1, <1>2, <1>3, <1>4 DEF mainposition

\* It depends on the key and the number of nodes only.
LEMMA SameMain ==
  ASSUME NEW T, NEW U, Positions(U) = Positions(T), NEW k
  PROVE  mainposition(U, k) = mainposition(T, k)
BY DEF mainposition, sizenode, isdummy

\* If there is a node with the key, Find returns one.
LEMMA FindFinds ==
  ASSUME NEW T, Typed(T), NoCircle(T), Reached(T), HashOK, NEW k \in Key, NEW dead \in BOOLEAN
  PROVE  /\ Find(T, k, dead) \in With(T, k, dead) \cup {NONE}
         /\ Find(T, k, dead) = NONE => With(T, k, dead) = {}
<1>1. CASE isdummy(T)
  BY <1>1 DEF isdummy, Find, With
<1>2. CASE ~isdummy(T)
  <2> DEFINE stop == With(T, k, dead)
             mp == mainposition(T, k)
  <2>1. stop \in SUBSET Positions(T) /\ mp \in Positions(T) /\ Find(T, k, dead) = Along(T, mp, stop)
    BY <1>2, MainInRange DEF With, Find
  <2>2. \A q \in stop : q \in Keyed(T) /\ Main(T, q) = mp
    BY KeyAssumption DEF With, Keyed, Main
  <2> HIDE DEF stop, mp
  <2>3. \/ Along(T, mp, stop) \in stop
        \/ /\ Along(T, mp, stop) = NONE
           /\ \E S \in SUBSET (Positions(T) \ stop) :
                mp \in S /\ \A q \in S : T.node[q].next \in S \cup {NONE}
    BY <2>1, AlongStops, NodeTypes
  <2>4. ASSUME NEW S \in SUBSET (Positions(T) \ stop), mp \in S,
               \A q \in S : T.node[q].next \in S \cup {NONE}
        PROVE  stop = {}
    <3>1. S \in SUBSET Positions(T)
      OBVIOUS
    <3>2. QED
      BY <2>2, <2>4, <3>1 DEF Reached
  <2>5. NONE \notin stop
    BY <2>1, NodeTypes
  <2>6. QED
    BY <2>1, <2>3, <2>4, <2>5 DEF stop
<1>3. QED
  BY <1>1, <1>2

\* Of a key that is not dead, luaH_get finds the only node.
LEMMA NodeFinds ==
  ASSUME NEW T, Chained(T), HashOK, NEW k \in Key
  PROVE  /\ node(T, k) \in With(T, k, FALSE) \cup {NONE}
         /\ \A p \in With(T, k, FALSE) : node(T, k) = p
<1>1. /\ node(T, k) \in With(T, k, FALSE) \cup {NONE}
      /\ node(T, k) = NONE => With(T, k, FALSE) = {}
  BY FindFinds DEF Chained, node
<1>2. ASSUME NEW p \in With(T, k, FALSE), NEW q \in With(T, k, FALSE) PROVE p = q
  BY KeyAssumption DEF With, Chained, OncePerKey, Keyed
<1>3. QED
  BY <1>1, <1>2

-----------------------------------------------------------------------------
(* New keys.                                                               *)

\* The fields of the hash part, its keys, and whether none is dead.
Holds(T)  == {<<T.node[p].key, T.node[p].val>> : p \in {q \in Positions(T) : T.node[q].val # Nil}}
KeysOf(T) == {T.node[p].key : p \in Keyed(T)}
NoneDead(T) == \A p \in Positions(T) : ~T.node[p].dead

\* What a new key changes: it comes to the others, without a value.
Extends(T, U, k) ==
  /\ Positions(U) = Positions(T) /\ U.array = T.array
  /\ Holds(U) = Holds(T) /\ KeysOf(U) \subseteq KeysOf(T) \cup {k}
  /\ NoneDead(T) => NoneDead(U)

\* ... and now has a node.
Takes(T, U, k) ==
  Chained(U) /\ Extends(T, U, k) /\ U.full = T.full /\ With(U, k, FALSE) # {}

\* newkey where the main position is vacant.
LEMMA NewInPlace ==
  ASSUME NEW T, Chained(T), HashOK, NEW k \in Key, With(T, k, FALSE) = {}, ~InArray(T, k),
         Vacant(T, mainposition(T, k))
  PROVE  Takes(T, newkey(T, k), k)
<1> DEFINE mp == mainposition(T, k)
           U == newkey(T, k)
           P == Positions(T)
<1>a. Typed(T) /\ NoCircle(T) /\ SinglyLinked(T) /\ Reached(T) /\ LiveFirst(T)
      /\ OwnFirst(T) /\ OncePerKey(T) /\ UsedFromTop(T) /\ ~isdummy(T)
  BY DEF Chained, Vacant
<1>b. mp \in P /\ T.node[mp].val = Nil /\ NONE \notin P /\ k # Nil
  BY <1>a, MainInRange, NodeTypes, KeyAssumption DEF Vacant
<1>1. U = [T EXCEPT !.node[mp] = NewNode(k, T.node[mp].next)]
  BY DEF newkey
<1>2. NewNode(k, T.node[mp].next) \in NodesAt(P)
  BY <1>a, <1>b, NodeTypes DEF NewNode, NodesAt
<1>3. /\ U \in [array : Seq(Val \cup {Nil}), node : [P -> NodesAt(P)],
                lastfree : 0..Cardinality(P), full : BOOLEAN]
      /\ Positions(U) = P /\ U.array = T.array /\ U.lastfree = T.lastfree /\ U.full = T.full
      /\ \A p \in P : p # mp => U.node[p] = T.node[p]
      /\ U.node[mp] = NewNode(k, T.node[mp].next)
  <2> DEFINE R == [array : Seq(Val \cup {Nil}), node : [P -> NodesAt(P)],
                   lastfree : 0..Cardinality(P), full : BOOLEAN]
             N == NewNode(k, T.node[mp].next)
             f == [T.node EXCEPT ![mp] = N]
  <2>1. T \in R /\ T.node \in [P -> NodesAt(P)]
    BY <1>a DEF Typed
  <2> HIDE DEF N
  <2>2. f \in [P -> NodesAt(P)] /\ f[mp] = N /\ \A p \in P : p # mp => f[p] = T.node[p]
    BY <1>2, <1>b, <2>1 DEF N
  <2>3. U = [T EXCEPT !.node = f]
    BY <1>1, <2>1 DEF N
  <2> HIDE DEF f, U, P
  <2>4. /\ U \in R /\ U.node = f /\ U.array = T.array /\ U.lastfree = T.lastfree
        /\ U.full = T.full
    BY <2>1, <2>2, <2>3
  <2>5. Positions(U) = P
    BY <2>2, <2>4 DEF Positions
  <2>6. QED
    BY <2>2, <2>4, <2>5 DEF N
<1>4. /\ U.node[mp].key = k /\ ~U.node[mp].dead /\ U.node[mp].val = Nil
      /\ \A p \in P : U.node[p].next = T.node[p].next
  BY <1>3, <1>b DEF NewNode
<1>5. \A j : mainposition(U, j) = mainposition(T, j)
  BY <1>3, SameMain
<1> HIDE DEF U, mp
<1>6. Keyed(U) = Keyed(T) \cup {mp} /\ Keyed(T) \subseteq P
  BY <1>3, <1>4, <1>b DEF Keyed
<1>7. Main(U, mp) = mp /\ \A p \in Keyed(U) : p # mp => p \in Keyed(T) /\ Main(U, p) = Main(T, p)
  BY <1>3, <1>4, <1>5, <1>6 DEF Main, mp
<1>8. Typed(U)
  BY <1>a, <1>3, <1>4 DEF Typed
<1>9. NoCircle(U)
  BY <1>a, <1>3, <1>4 DEF NoCircle
<1>10. SinglyLinked(U)
  BY <1>a, <1>3, <1>4, <1>6 DEF SinglyLinked
<1>11. Reached(U)
  BY <1>a, <1>3, <1>4, <1>6, <1>7 DEF Reached
<1>18. LiveFirst(U)
  <2> SUFFICES ASSUME NEW p \in Keyed(U), ~U.node[p].dead, NEW S \in SUBSET P, Main(U, p) \in S,
                      \A q \in S : U.node[q].key = U.node[p].key \/ U.node[q].next \in S \cup {NONE}
               PROVE  p \in S
    BY <1>3 DEF LiveFirst
  <2>1. CASE p = mp
    BY <1>7, <2>1
  <2>2. CASE p # mp
    <3>1. p \in Keyed(T) /\ Main(T, p) \in S /\ T.node[p] = U.node[p] /\ p \in P
      BY <1>3, <1>6, <1>7, <2>2
    <3>2. T.node[p].key # k
      BY <3>1 DEF With
    <3>3. \A q \in S : T.node[q].key = T.node[p].key \/ T.node[q].next \in S \cup {NONE}
      BY <1>3, <1>4, <3>1, <3>2
    <3>4. QED
      BY <1>a, <3>1, <3>3 DEF LiveFirst
  <2>3. QED
    BY <2>1, <2>2
<1>12. OwnFirst(U)
  BY <1>a, <1>6, <1>7 DEF OwnFirst
<1>13. OncePerKey(U)
  <2>1. \A p \in Keyed(T) : T.node[p].key = k => T.node[p].dead
    BY DEF With, Keyed
  <2>2. \A p \in Keyed(U) : ~InArray(U, U.node[p].key)
    BY <1>a, <1>3, <1>4, <1>6 DEF OncePerKey, InArray
  <2>3. ASSUME NEW p \in Keyed(U), NEW q \in Keyed(U), U.node[p].key = U.node[q].key
        PROVE  p = q \/ U.node[p].dead \/ U.node[q].dead
    <3>1. p \in P /\ q \in P
      BY <1>3 DEF Keyed
    <3>2. QED
      BY <1>a, <1>3, <1>4, <1>6, <2>1, <2>3, <3>1 DEF OncePerKey
  <2>4. QED
    BY <2>2, <2>3 DEF OncePerKey
<1>14. UsedFromTop(U)
  BY <1>a, <1>3, <1>6 DEF UsedFromTop
<1>15. Extends(T, U, k)
  <2>1. Holds(U) = Holds(T)
    BY <1>3, <1>4, <1>b DEF Holds
  <2>2. KeysOf(U) \subseteq KeysOf(T) \cup {k}
    BY <1>3, <1>4, <1>6 DEF KeysOf, Keyed
  <2>3. QED
    BY <1>3, <1>4, <2>1, <2>2 DEF Extends, NoneDead
<1>16. With(U, k, FALSE) # {}
  BY <1>3, <1>4, <1>b DEF With
<1>17. QED
  BY <1>3, <1>8, <1>9, <1>10, <1>11, <1>12, <1>13, <1>14, <1>15, <1>16, <1>18
  DEF Chained, Takes, U

\* The free position: a finite set of numbers has a largest one.
LEMMA MaxIs ==
  ASSUME NEW m \in Nat, NEW S \in SUBSET (0..m), S # {}
  PROVE  Max(S) \in S /\ \A x \in S : x <= Max(S)
<1> DEFINE D == {m - x : x \in S}
<1>1. D \in SUBSET Nat /\ D # {}
  <2>1. \A x \in S : m - x \in Nat
    OBVIOUS
  <2>2. QED
    BY <2>1
<1>2. PICK d \in D : \A y \in D : d <= y
  <2> HIDE DEF D
  <2>1. QED BY <1>1, LeastExists
<1>3. PICK z \in S : d = m - z
  OBVIOUS
<1>4. ASSUME NEW x \in S PROVE z >= x
  <2>1. x \in 0..m /\ z \in 0..m /\ m - x \in D
    OBVIOUS
  <2>2. m - z <= m - x
    <3> HIDE DEF D
    <3>1. QED BY <1>2, <1>3, <2>1
  <2>3. QED
    BY <2>1, <2>2
<1>5. Max(S) \in S /\ \A x \in S : Max(S) >= x
  BY <1>4 DEF Max
<1>6. \A x \in S : Max(S) \in 0..m /\ x \in 0..m
  BY <1>5
<1>7. QED
  BY <1>5, <1>6

\* n is the highest node that never had a key.
TopFree(T, n) ==
  /\ n \in Positions(T) \ Keyed(T) /\ n \in 0..Cardinality(Positions(T))
  /\ \A p \in Positions(T) : p > n => p \in Keyed(T)

\* getfreepos returns the highest node that never had a key.
LEMMA FreePosition ==
  ASSUME NEW T, Typed(T), UsedFromTop(T), Free(T) # {}
  PROVE  TopFree(T, getfreepos(T))
<1> DEFINE c == Cardinality(Positions(T))
<1>1. c \in Nat /\ Positions(T) = 0..c - 1 /\ T.lastfree \in 0..c
  BY NodeTypes DEF Typed
<1> HIDE DEF c
<1>2. Free(T) \in SUBSET (0..c)
  BY <1>1 DEF Free
<1>3. getfreepos(T) \in Free(T) /\ \A x \in Free(T) : x <= getfreepos(T)
  BY <1>1, <1>2, MaxIs DEF getfreepos
<1> HIDE DEF getfreepos
<1>4. getfreepos(T) \in 0..T.lastfree - 1 /\ T.node[getfreepos(T)].key = Nil
  BY <1>3 DEF Free
<1>5. ASSUME NEW p \in Positions(T), p > getfreepos(T) PROVE p \in Keyed(T)
  <2>1. CASE p >= T.lastfree
    BY <2>1 DEF UsedFromTop
  <2>2. CASE ~(p >= T.lastfree)
    <3>1. p \in 0..T.lastfree - 1 /\ ~(p <= getfreepos(T))
      BY <1>1, <1>4, <1>5, <2>2
    <3>2. T.node[p].key # Nil
      BY <1>3, <3>1 DEF Free
    <3>3. QED
      BY <3>2 DEF Keyed
  <2>3. QED
    BY <2>1, <2>2
<1>6. QED
  BY <1>1, <1>4, <1>5 DEF Keyed, c, TopFree

\* The node at the main position of the key stays, and the new one comes behind it.
Behind(T, k, mp, n) ==
  [T EXCEPT !.node = [T.node EXCEPT ![n] = NewNode(k, T.node[mp].next), ![mp].next = n],
            !.lastfree = n]

\* newkey where another key is in its own main position.
LEMMA NewBehind ==
  ASSUME NEW T, Chained(T), HashOK, NEW k \in Key, With(T, k, FALSE) = {}, ~InArray(T, k),
         NEW n, TopFree(T, n),
         NEW mp, mp = mainposition(T, k), mp \in Keyed(T), Main(T, mp) = mp,
         T.node[mp].key # k,
         NEW U, U = Behind(T, k, mp, n)
  PROVE  Takes(T, U, k)
<1> DEFINE P == Positions(T)
<1>a. Typed(T) /\ NoCircle(T) /\ SinglyLinked(T) /\ Reached(T) /\ LiveFirst(T)
      /\ OwnFirst(T) /\ OncePerKey(T) /\ UsedFromTop(T)
  BY DEF Chained
<1>0. /\ n \in P \ Keyed(T) /\ n \in 0..Cardinality(P)
      /\ \A p \in P : p > n => p \in Keyed(T)
  BY DEF TopFree
<1>b. mp \in P /\ n \in P /\ n # mp /\ NONE \notin P /\ k # Nil /\ Keyed(T) \subseteq P
  BY <1>0, <1>a, NodeTypes, KeyAssumption DEF Keyed
<1>c. /\ T.node[n].key = Nil /\ T.node[n].val = Nil /\ T.node[n].next = NONE
      /\ \A q \in P : T.node[q].next # n
  <2>1. T.node[n] = EmptyNode /\ \A q \in P : T.node[q].next # n
    BY <1>0, <1>a DEF SinglyLinked
  <2>2. QED
    BY <2>1 DEF EmptyNode
<1>d. \A q \in P : T.node[q].next \in P \cup {NONE}
  BY <1>a, NodeTypes
<1>2. /\ NewNode(k, T.node[mp].next) \in NodesAt(P)
      /\ [T.node[mp] EXCEPT !.next = n] \in NodesAt(P)
  <2>1. T.node[mp] \in NodesAt(P) /\ T.node[mp].next \in P \cup {NONE}
    BY <1>a, <1>b, NodeTypes
  <2>2. QED
    BY <1>b, <2>1 DEF NewNode, NodesAt
<1>3. /\ U \in [array : Seq(Val \cup {Nil}), node : [P -> NodesAt(P)],
                lastfree : 0..Cardinality(P), full : BOOLEAN]
      /\ Positions(U) = P /\ U.array = T.array /\ U.lastfree = n /\ U.full = T.full
      /\ \A p \in P : p # mp /\ p # n => U.node[p] = T.node[p]
      /\ U.node[n] = NewNode(k, T.node[mp].next)
      /\ U.node[mp] = [T.node[mp] EXCEPT !.next = n]
  BY <1>0, <1>2, <1>a, <1>b DEF Typed, Positions, Behind
<1>4. /\ U.node[n].key = k /\ ~U.node[n].dead /\ U.node[n].val = Nil
      /\ U.node[n].next = T.node[mp].next
  BY <1>3 DEF NewNode
<1>5. /\ U.node[mp].key = T.node[mp].key /\ U.node[mp].dead = T.node[mp].dead
      /\ U.node[mp].val = T.node[mp].val /\ U.node[mp].next = n
  <2>1. T.node[mp] \in NodesAt(P)
    BY <1>a, <1>b, NodeTypes
  <2>2. QED
    BY <1>3, <2>1 DEF NodesAt
<1>6. \A p \in P : p # n => /\ U.node[p].key = T.node[p].key /\ U.node[p].dead = T.node[p].dead
                            /\ U.node[p].val = T.node[p].val
                            /\ p # mp => U.node[p].next = T.node[p].next
  BY <1>3, <1>5
<1>e. /\ Positions(U) = P /\ U.array = T.array /\ U.lastfree = n /\ U.full = T.full
      /\ n \in Positions(U) /\ mp \in Positions(U)
  BY <1>3, <1>b
<1>7. \A j : mainposition(U, j) = mainposition(T, j)
  BY <1>3, SameMain
<1>8. Keyed(U) = Keyed(T) \cup {n}
  <2>1. ASSUME NEW p \in P PROVE p \in Keyed(U) <=> p \in Keyed(T) \cup {n}
    BY <1>4, <1>6, <1>b, <1>e DEF Keyed
  <2>2. Keyed(U) \subseteq P
    BY <1>e DEF Keyed
  <2>3. QED
    BY <1>b, <2>1, <2>2
<1>9. Main(U, n) = mp /\ \A p \in Keyed(T) : p # n /\ Main(U, p) = Main(T, p)
  BY <1>4, <1>6, <1>7, <1>b, <1>0 DEF Main
<1>10. Typed(U)
  <2>1. \A p \in P : U.node[p].dead => U.node[p].key \in ObjectKeys /\ U.node[p].val = Nil
    <3>1. \A p \in P : T.node[p].dead => T.node[p].key \in ObjectKeys /\ T.node[p].val = Nil
      BY <1>a, NodeTypes
    <3>2. QED
      BY <1>4, <1>6, <3>1
  <2>2. QED
    BY <1>a, <1>3, <2>1 DEF Typed
<1>11. NoCircle(U)
  <2> SUFFICES ASSUME NEW S \in SUBSET P, S # {} PROVE \E p \in S : U.node[p].next \notin S
    BY <1>e DEF NoCircle
  <2>1. CASE S \ {n} = {}
    <3>1. S = {n}
      BY <2>1
    <3>2. T.node[mp].next # n
      BY <1>b, <1>c
    <3>3. QED
      BY <1>4, <3>1, <3>2
  <2>2. CASE S \ {n} # {}
    <3>1. PICK p \in S \ {n} : T.node[p].next \notin S \ {n}
      BY <1>a, <2>2 DEF NoCircle
    <3>2. T.node[p].next \notin S
      BY <1>c, <3>1
    <3>3. CASE p # mp
      BY <1>6, <3>1, <3>2, <3>3
    <3>4. CASE p = mp
      BY <1>4, <1>5, <3>1, <3>2, <3>4
    <3>5. QED
      BY <3>3, <3>4
  <2>3. QED
    BY <2>1, <2>2
<1>12. SinglyLinked(U)
  <2>1. ASSUME NEW p \in P, NEW q \in P, U.node[p].next = U.node[q].next, p # q
        PROVE  U.node[p].next = NONE
    <3>1. \A x, y \in P : T.node[x].next = T.node[y].next => x = y \/ T.node[x].next = NONE
      BY <1>a DEF SinglyLinked
    <3>a. \A x \in P : x # mp => U.node[x].next # n
      BY <1>b, <1>c, <1>4, <1>6
    <3>2. CASE p = mp \/ q = mp
      BY <1>5, <2>1, <3>2, <3>a
    <3>b. \A x \in P : x # n /\ x # mp /\ U.node[x].next = U.node[n].next => U.node[n].next = NONE
      BY <1>4, <1>6, <1>b, <1>c, <3>1
    <3>3. CASE (p = n \/ q = n) /\ p # mp /\ q # mp
      BY <2>1, <3>3, <3>b
    <3>4. CASE p \notin {mp, n} /\ q \notin {mp, n}
      BY <1>6, <2>1, <3>1, <3>4
    <3>5. QED
      BY <3>2, <3>3, <3>4
  <2>2. ASSUME NEW p \in P \ Keyed(U)
        PROVE  U.node[p] = EmptyNode /\ \A q \in P : U.node[q].next # p
    <3>1. p \in P \ Keyed(T) /\ p # n /\ p # mp
      BY <1>8
    <3>2. T.node[p] = EmptyNode /\ \A q \in P : T.node[q].next # p
      BY <1>a, <3>1 DEF SinglyLinked
    <3>3. U.node[p] = T.node[p]
      BY <1>3, <3>1
    <3>4. ASSUME NEW q \in P PROVE U.node[q].next # p
      <4>1. T.node[q].next # p /\ T.node[mp].next # p
        BY <1>b, <3>2
      <4>2. QED
        BY <1>4, <1>5, <1>6, <3>1, <4>1
    <3>5. QED
      BY <3>2, <3>3, <3>4
  <2>3. QED
    BY <1>e, <2>1, <2>2 DEF SinglyLinked
<1>13. Reached(U)
  <2> SUFFICES ASSUME NEW p \in Keyed(U), NEW S \in SUBSET P, Main(U, p) \in S,
                      \A q \in S : U.node[q].next \in S \cup {NONE}
               PROVE  p \in S
    BY <1>e DEF Reached
  <2>1. CASE p = n
    BY <1>5, <1>9, <1>b, <2>1
  <2>2. CASE p # n
    <3>1. p \in Keyed(T) /\ Main(T, p) \in S \ {n}
      <4>1. p \in Keyed(T) /\ Main(T, p) \in Keyed(T)
        BY <1>a, <1>8, <2>2 DEF OwnFirst
      <4>2. QED
        BY <1>9, <4>1
    <3>2. \A q \in S \ {n} : T.node[q].next \in (S \ {n}) \cup {NONE}
      <4>1. ASSUME NEW q \in S \ {n} PROVE T.node[q].next \in S \cup {NONE}
        <5>1. CASE q # mp
          BY <1>6, <4>1, <5>1
        <5>2. CASE q = mp
          BY <1>4, <1>5, <1>b, <5>2
        <5>3. QED
          BY <5>1, <5>2
      <4>2. QED
        BY <1>c, <4>1
    <3>3. S \ {n} \in SUBSET P
      OBVIOUS
    <3>4. QED
      BY <1>a, <3>1, <3>2, <3>3 DEF Reached
  <2>3. QED
    BY <2>1, <2>2
<1>20. LiveFirst(U)
  <2> SUFFICES ASSUME NEW p \in Keyed(U), ~U.node[p].dead, NEW S \in SUBSET P, Main(U, p) \in S,
                      \A q \in S : U.node[q].key = U.node[p].key \/ U.node[q].next \in S \cup {NONE}
               PROVE  p \in S
    BY <1>e DEF LiveFirst
  <2>1. CASE p = n
    <3>1. mp \in S /\ U.node[mp].key # U.node[n].key
      BY <1>4, <1>5, <1>9, <2>1
    <3>2. QED
      BY <1>5, <1>b, <2>1, <3>1
  <2>2. CASE p # n
    <3>1. p \in Keyed(T) /\ p \in P /\ T.node[p].key = U.node[p].key /\ ~T.node[p].dead
      BY <1>6, <1>8, <1>b, <2>2
    <3>2. Main(T, p) \in S \ {n}
      <4>1. Main(T, p) \in Keyed(T)
        BY <1>a, <3>1 DEF OwnFirst
      <4>2. QED
        BY <1>9, <3>1, <4>1
    <3>3. T.node[p].key # k
      BY <3>1 DEF With
    <3>4. ASSUME NEW q \in S \ {n}, T.node[q].key # T.node[p].key
          PROVE  T.node[q].next \in (S \ {n}) \cup {NONE}
      <4>1. U.node[q].next \in S \cup {NONE} /\ q \in P
        BY <1>6, <3>1, <3>4
      <4>2. T.node[q].next # n
        BY <1>c, <4>1
      <4>3. CASE q # mp
        BY <1>6, <4>1, <4>2, <4>3, <3>4
      <4>4. CASE q = mp
        <5>1. n \in S
          BY <1>5, <1>b, <4>1, <4>4
        <5>2. U.node[n].next \in S \cup {NONE}
          BY <1>4, <3>1, <3>3, <5>1
        <5>3. QED
          BY <1>4, <4>2, <4>4, <5>2
      <4>5. QED
        BY <4>3, <4>4
    <3>5. S \ {n} \in SUBSET P
      OBVIOUS
    <3>6. p \in S \ {n}
      <4> DEFINE R == S \ {n}
      <4>1. R \in SUBSET P /\ Main(T, p) \in R
            /\ \A q \in R : T.node[q].key = T.node[p].key \/ T.node[q].next \in R \cup {NONE}
        BY <3>2, <3>4, <3>5
      <4> HIDE DEF R
      <4>2. p \in R
        BY <1>a, <3>1, <4>1 DEF LiveFirst
      <4>3. QED
        BY <4>2 DEF R
    <3>7. QED
      BY <3>6
  <2>3. QED
    BY <2>1, <2>2
<1>14. OwnFirst(U)
  BY <1>a, <1>8, <1>9 DEF OwnFirst
<1>15. OncePerKey(U)
  <2>1. \A p \in Keyed(T) : T.node[p].key = k => T.node[p].dead
    BY DEF With, Keyed
  <2>0. \A j : InArray(U, j) <=> InArray(T, j)
    BY <1>e DEF InArray
  <2>2. \A p \in Keyed(U) : ~InArray(U, U.node[p].key)
    <3>1. ASSUME NEW p \in Keyed(T) PROVE ~InArray(U, U.node[p].key)
      BY <1>a, <1>b, <1>6, <1>9, <2>0, <3>1 DEF OncePerKey
    <3>2. QED
      BY <1>4, <1>8, <2>0, <3>1
  <2>3. ASSUME NEW p \in Keyed(U), NEW q \in Keyed(U), U.node[p].key = U.node[q].key
        PROVE  p = q \/ U.node[p].dead \/ U.node[q].dead
    <3>1. p \in P /\ q \in P
      BY <1>e DEF Keyed
    <3>2. \A x \in Keyed(T) : U.node[x].key = k => U.node[x].dead
      BY <1>b, <1>6, <1>9, <2>1
    <3>5. CASE p = n \/ q = n
      <4>1. U.node[p].key = k /\ U.node[q].key = k
        BY <1>4, <2>3, <3>5
      <4>2. QED
        BY <1>8, <3>2, <3>5, <4>1
    <3>3. CASE p # n /\ q # n
      BY <1>a, <1>6, <1>8, <2>3, <3>1, <3>3 DEF OncePerKey
    <3>4. QED
      BY <3>3, <3>5
  <2>4. QED
    BY <2>2, <2>3 DEF OncePerKey
<1>16. UsedFromTop(U)
  <2>1. ASSUME NEW p \in P, p >= n PROVE p \in Keyed(U)
    <3>1. CASE p = n
      BY <1>8, <3>1
    <3>2. CASE p # n
      <4>1. p \in Nat /\ n \in Nat
        BY <1>0, <1>a, NodeTypes
      <4>2. p > n
        BY <2>1, <3>2, <4>1
      <4>3. QED
        BY <1>0, <1>8, <4>2
    <3>3. QED
      BY <3>1, <3>2
  <2>2. QED
    BY <1>e, <2>1 DEF UsedFromTop
<1>17. Extends(T, U, k)
  <2>1. Holds(U) = Holds(T)
    <3>1. \A p \in P : /\ U.node[p].val = T.node[p].val
                       /\ U.node[p].val # Nil => U.node[p].key = T.node[p].key
      BY <1>4, <1>6, <1>c
    <3>2. QED
      BY <1>e, <3>1 DEF Holds
  <2>2. KeysOf(U) \subseteq KeysOf(T) \cup {k}
    <3>1. \A p \in Keyed(U) : U.node[p].key = k \/ \E q \in Keyed(T) : U.node[p].key = T.node[q].key
      BY <1>4, <1>6, <1>8, <1>b
    <3>2. QED
      BY <3>1 DEF KeysOf
  <2>3. NoneDead(T) => NoneDead(U)
    BY <1>e, <1>4, <1>6 DEF NoneDead
  <2>4. QED
    BY <1>e, <2>1, <2>2, <2>3 DEF Extends
<1>18. With(U, k, FALSE) # {}
  BY <1>e, <1>4, <1>b DEF With
<1>19. QED
  BY <1>e, <1>10, <1>11, <1>12, <1>13, <1>14, <1>15, <1>16, <1>17, <1>18, <1>20
  DEF Chained, Takes

\* The node before one that is not in its main position.
LEMMA PreviousFound ==
  ASSUME NEW T, Chained(T), HashOK, NEW mp \in Keyed(T), Main(T, mp) # mp
  PROVE  Along(T, Main(T, mp), {p \in Positions(T) : T.node[p].next = mp})
           \in {p \in Positions(T) : T.node[p].next = mp}
<1> DEFINE stop == {p \in Positions(T) : T.node[p].next = mp}
           other == Main(T, mp)
<1>1. Typed(T) /\ NoCircle(T) /\ Reached(T) /\ other \in Positions(T) /\ other # mp
      /\ stop \in SUBSET Positions(T)
  BY DEF Chained, OwnFirst, Keyed
<1>2. /\ NONE \notin Positions(T)
      /\ \A q \in Positions(T) : T.node[q].next \in Positions(T) \cup {NONE}
  BY <1>1, NodeTypes
<1>3. ASSUME NEW S \in SUBSET (Positions(T) \ stop), other \in S,
             \A q \in S : T.node[q].next \in S \cup {NONE}
      PROVE  FALSE
  <2>1. S \ {mp} \in SUBSET Positions(T) /\ other \in S \ {mp}
    BY <1>1, <1>3
  <2>2. \A q \in S \ {mp} : T.node[q].next \in (S \ {mp}) \cup {NONE}
    BY <1>3
  <2>3. mp \in S \ {mp}
    <3> HIDE DEF other
    <3>1. \A R \in SUBSET Positions(T) :
            other \in R /\ (\A q \in R : T.node[q].next \in R \cup {NONE}) => mp \in R
      BY <1>1 DEF Reached, other
    <3>2. QED
      BY <2>1, <2>2, <3>1
  <2>4. QED
    BY <2>3
<1> HIDE DEF stop, other
<1>4. \/ Along(T, other, stop) \in stop
      \/ /\ Along(T, other, stop) = NONE
         /\ \E S \in SUBSET (Positions(T) \ stop) :
              other \in S /\ \A q \in S : T.node[q].next \in S \cup {NONE}
  BY <1>1, <1>2, AlongStops
<1>5. QED
  BY <1>3, <1>4 DEF stop, other

\* The node at the main position of the key goes to the free one, with all that
\* leads to it and away from it, and the new one takes its place.
InFront(T, k, mp, n, prev) ==
  [T EXCEPT !.node = [T.node EXCEPT ![prev].next = n, ![n] = T.node[mp], ![mp] = NewNode(k, NONE)],
            !.lastfree = n]

\* newkey where a node is that collided there.
LEMMA NewInFront ==
  ASSUME NEW T, Chained(T), HashOK, NEW k \in Key, With(T, k, FALSE) = {}, ~InArray(T, k),
         NEW n, TopFree(T, n),
         NEW mp, mp = mainposition(T, k), mp \in Keyed(T), Main(T, mp) # mp,
         NEW prev \in Positions(T), T.node[prev].next = mp,
         NEW U, U = InFront(T, k, mp, n, prev)
  PROVE  Takes(T, U, k)
<1> DEFINE P == Positions(T)
<1>a. Typed(T) /\ NoCircle(T) /\ SinglyLinked(T) /\ Reached(T) /\ LiveFirst(T)
      /\ OwnFirst(T) /\ OncePerKey(T) /\ UsedFromTop(T)
  BY DEF Chained
<1>0. /\ n \in P \ Keyed(T) /\ n \in 0..Cardinality(P)
      /\ \A p \in P : p > n => p \in Keyed(T)
  BY DEF TopFree
<1>b. mp \in P /\ n \in P /\ n # mp /\ NONE \notin P /\ k # Nil /\ Keyed(T) \subseteq P
  BY <1>0, <1>a, NodeTypes, KeyAssumption DEF Keyed
<1>c. /\ T.node[n].key = Nil /\ T.node[n].val = Nil /\ T.node[n].next = NONE
      /\ \A q \in P : T.node[q].next # n
  <2>1. T.node[n] = EmptyNode /\ \A q \in P : T.node[q].next # n
    BY <1>0, <1>a DEF SinglyLinked
  <2>2. QED
    BY <2>1 DEF EmptyNode
<1>d. \A q \in P : T.node[q].next \in P \cup {NONE}
  BY <1>a, NodeTypes
<1>f. T.node[mp].next # mp
  <2>1. \E p \in {mp} : T.node[p].next \notin {mp}
    <3>1. {mp} \in SUBSET P /\ {mp} # {}
      BY <1>b
    <3>2. QED
      BY <1>a, <3>1 DEF NoCircle
  <2>2. QED
    BY <2>1
<1>g. prev # mp /\ prev # n /\ \A q \in P : q # prev => T.node[q].next # mp
  BY <1>a, <1>b, <1>c, <1>f DEF SinglyLinked
<1>h. \A q \in Keyed(T) : Main(T, q) # mp /\ Main(T, q) # n /\ Main(T, q) \in P
  BY <1>0, <1>a, <1>b DEF OwnFirst
<1>2. /\ NewNode(k, NONE) \in NodesAt(P) /\ T.node[mp] \in NodesAt(P)
      /\ [T.node[prev] EXCEPT !.next = n] \in NodesAt(P)
  <2>1. T.node[mp] \in NodesAt(P) /\ T.node[prev] \in NodesAt(P)
    BY <1>a, <1>b, NodeTypes
  <2>2. QED
    BY <1>b, <2>1 DEF NewNode, NodesAt
<1>3. /\ U \in [array : Seq(Val \cup {Nil}), node : [P -> NodesAt(P)],
                lastfree : 0..Cardinality(P), full : BOOLEAN]
      /\ Positions(U) = P /\ U.array = T.array /\ U.lastfree = n /\ U.full = T.full
      /\ \A p \in P : p # mp /\ p # n /\ p # prev => U.node[p] = T.node[p]
      /\ U.node[n] = T.node[mp]
      /\ U.node[mp] = NewNode(k, NONE)
      /\ U.node[prev] = [T.node[prev] EXCEPT !.next = n]
  BY <1>0, <1>2, <1>a, <1>b, <1>g DEF Typed, Positions, InFront
<1>e. /\ Positions(U) = P /\ U.array = T.array /\ U.lastfree = n /\ U.full = T.full
      /\ n \in Positions(U) /\ mp \in Positions(U)
  BY <1>3, <1>b
<1>4. /\ U.node[mp].key = k /\ ~U.node[mp].dead /\ U.node[mp].val = Nil
      /\ U.node[mp].next = NONE
  BY <1>3 DEF NewNode
<1>5. /\ U.node[n].key = T.node[mp].key /\ U.node[n].dead = T.node[mp].dead
      /\ U.node[n].val = T.node[mp].val /\ U.node[n].next = T.node[mp].next
  BY <1>3
<1>i. /\ U.node[prev].key = T.node[prev].key /\ U.node[prev].dead = T.node[prev].dead
      /\ U.node[prev].val = T.node[prev].val /\ U.node[prev].next = n
  <2>1. T.node[prev] \in NodesAt(P)
    BY <1>a, NodeTypes
  <2>2. QED
    BY <1>3, <2>1 DEF NodesAt
<1>6. \A p \in P : p # n /\ p # mp =>
        /\ U.node[p].key = T.node[p].key /\ U.node[p].dead = T.node[p].dead
        /\ U.node[p].val = T.node[p].val
        /\ p # prev => U.node[p].next = T.node[p].next
  BY <1>3, <1>i
<1>7. \A j : mainposition(U, j) = mainposition(T, j)
  BY <1>3, SameMain
<1>8. Keyed(U) = Keyed(T) \cup {n}
  <2>1. ASSUME NEW p \in P PROVE p \in Keyed(U) <=> p \in Keyed(T) \cup {n}
    BY <1>4, <1>5, <1>6, <1>b, <1>e DEF Keyed
  <2>2. Keyed(U) \subseteq P
    BY <1>e DEF Keyed
  <2>3. QED
    BY <1>b, <2>1, <2>2
<1>9. /\ Main(U, n) = Main(T, mp) /\ Main(U, mp) = mp
      /\ \A p \in Keyed(T) : p # n /\ (p # mp => Main(U, p) = Main(T, p))
  BY <1>4, <1>5, <1>6, <1>7, <1>b, <1>0 DEF Main
<1>10. Typed(U)
  <2>1. \A p \in P : U.node[p].dead => U.node[p].key \in ObjectKeys /\ U.node[p].val = Nil
    <3>1. \A p \in P : T.node[p].dead => T.node[p].key \in ObjectKeys /\ T.node[p].val = Nil
      BY <1>a, NodeTypes
    <3>2. U.node[n].dead => U.node[n].key \in ObjectKeys /\ U.node[n].val = Nil
      BY <1>b, <1>5, <3>1
    <3>3. \A p \in P : p # n /\ p # mp /\ U.node[p].dead => U.node[p].key \in ObjectKeys /\ U.node[p].val = Nil
      BY <1>6, <3>1
    <3>4. QED
      BY <1>4, <3>2, <3>3
  <2>2. QED
    BY <1>a, <1>3, <2>1 DEF Typed
<1>11. NoCircle(U)
  <2> SUFFICES ASSUME NEW S \in SUBSET P, S # {} PROVE \E p \in S : U.node[p].next \notin S
    BY <1>e DEF NoCircle
  <2>1. CASE mp \in S
    BY <1>4, <1>b, <2>1
  <2>2. CASE mp \notin S
    <3> DEFINE R == IF n \in S THEN (S \ {n}) \cup {mp} ELSE S
    <3>1. R \in SUBSET P /\ R # {} /\ n \notin R
      BY <1>b
    <3>2. PICK p \in R : T.node[p].next \notin R
      BY <1>a, <3>1 DEF NoCircle
    <3>3. CASE p = mp
      <4>1. n \in S
        BY <2>2, <3>2, <3>3
      <4>2. T.node[mp].next \notin S
        BY <1>b, <1>c, <3>2, <3>3, <4>1
      <4>3. QED
        BY <1>5, <4>1, <4>2
    <3>4. CASE p = prev
      <4>1. n \notin S
        BY <3>2, <3>4
      <4>2. p \in S
        BY <1>g, <3>2, <3>4, <4>1
      <4>3. QED
        BY <1>i, <3>4, <4>1, <4>2
    <3>5. CASE p # mp /\ p # prev
      <4>1. p \in S /\ p # n
        BY <1>b, <3>1, <3>2, <3>5
      <4>2. T.node[p].next \notin S
        BY <1>c, <3>2, <4>1
      <4>3. U.node[p].next = T.node[p].next
        BY <1>6, <3>5, <4>1
      <4>4. QED
        BY <4>1, <4>2, <4>3
    <3>6. QED
      BY <3>3, <3>4, <3>5
  <2>3. QED
    BY <2>1, <2>2
<1>12. SinglyLinked(U)
  <2>1. ASSUME NEW p \in P, NEW q \in P, U.node[p].next = U.node[q].next, p # q
        PROVE  U.node[p].next = NONE
    <3>1. \A x, y \in P : T.node[x].next = T.node[y].next => x = y \/ T.node[x].next = NONE
      BY <1>a DEF SinglyLinked
    <3>2. CASE p = mp \/ q = mp
      BY <1>4, <2>1, <3>2
    <3>3. CASE p \notin {mp, n} /\ q \notin {mp, n}
      BY <1>6, <1>c, <1>i, <2>1, <3>1, <3>3
    <3>4. ASSUME NEW x \in P, x # n, x # mp PROVE U.node[x].next = U.node[n].next => U.node[n].next = NONE
      <4>1. CASE x = prev
        BY <1>5, <1>b, <1>c, <1>i, <4>1
      <4>2. CASE x # prev
        <5>1. T.node[x].next = T.node[mp].next => T.node[mp].next = NONE
          BY <1>b, <3>1, <3>4
        <5>2. U.node[x].next = T.node[x].next
          BY <1>6, <3>4, <4>2
        <5>3. QED
          BY <1>5, <5>1, <5>2
      <4>3. QED
        BY <4>1, <4>2
    <3>5. QED
      BY <2>1, <3>2, <3>3, <3>4
  <2>2. ASSUME NEW p \in P \ Keyed(U)
        PROVE  U.node[p] = EmptyNode /\ \A q \in P : U.node[q].next # p
    <3>1. p \in P \ Keyed(T) /\ p # n /\ p # mp
      BY <1>8
    <3>2. T.node[p] = EmptyNode /\ \A q \in P : T.node[q].next # p
      BY <1>a, <3>1 DEF SinglyLinked
    <3>3. p # prev
      BY <1>b, <3>1, <3>2 DEF EmptyNode
    <3>4. U.node[p] = T.node[p]
      BY <1>3, <3>1, <3>3
    <3>5. ASSUME NEW q \in P PROVE U.node[q].next # p
      <4>1. T.node[q].next # p /\ T.node[mp].next # p /\ p # NONE
        BY <1>b, <3>2
      <4>2. QED
        BY <1>4, <1>5, <1>6, <1>i, <3>1, <4>1
    <3>6. QED
      BY <3>2, <3>4, <3>5
  <2>3. QED
    BY <1>e, <2>1, <2>2 DEF SinglyLinked
<1>13. Reached(U)
  <2> SUFFICES ASSUME NEW p \in Keyed(U), NEW S \in SUBSET P, Main(U, p) \in S,
                      \A q \in S : U.node[q].next \in S \cup {NONE}
               PROVE  p \in S
    BY <1>e DEF Reached
  <2> DEFINE R == IF n \in S THEN (S \ {n}) \cup {mp} ELSE S \ {mp}
             old == IF p = n THEN mp ELSE p
  <2>1. CASE p = mp
    BY <1>9, <2>1
  <2>2. CASE p # mp
    <3>1. old \in Keyed(T) /\ Main(T, old) \in R
      <4>1. old \in Keyed(T) /\ Main(U, p) = Main(T, old)
        BY <1>8, <1>9, <2>2
      <4>2. Main(T, old) # mp /\ Main(T, old) # n
        BY <1>h, <4>1
      <4>3. QED
        BY <4>1, <4>2
    <3>2. ASSUME NEW q \in R PROVE T.node[q].next \in R \cup {NONE}
      <4>1. CASE q = mp
        <5>1. n \in S
          BY <3>2, <4>1
        <5>2. T.node[mp].next \in S \cup {NONE}
          BY <1>5, <5>1
        <5>3. QED
          BY <1>b, <1>c, <4>1, <5>1, <5>2
      <4>2. CASE q = prev
        <5>1. prev \in S
          BY <1>g, <3>2, <4>2
        <5>2. n \in S
          BY <1>b, <1>i, <5>1
        <5>3. QED
          BY <4>2, <5>2
      <4>3. CASE q # mp /\ q # prev
        <5>1. q \in S /\ q # n /\ q \in P
          BY <3>2, <4>3
        <5>2. T.node[q].next \in S \cup {NONE}
          BY <1>6, <4>3, <5>1
        <5>3. T.node[q].next # n /\ T.node[q].next # mp
          BY <1>c, <1>g, <4>3, <5>1
        <5>4. QED
          BY <5>2, <5>3
      <4>4. QED
        BY <4>1, <4>2, <4>3
    <3>3. R \in SUBSET P
      BY <1>b
    <3>4. old \in R
      <4> HIDE DEF R, old
      <4>1. QED BY <1>a, <3>1, <3>2, <3>3 DEF Reached
    <3>5. QED
      BY <1>b, <2>2, <3>4
  <2>3. QED
    BY <2>1, <2>2
<1>20. LiveFirst(U)
  <2> SUFFICES ASSUME NEW p \in Keyed(U), ~U.node[p].dead, NEW S \in SUBSET P, Main(U, p) \in S,
                      \A q \in S : U.node[q].key = U.node[p].key \/ U.node[q].next \in S \cup {NONE}
               PROVE  p \in S
    BY <1>e DEF LiveFirst
  <2> DEFINE R == IF n \in S THEN (S \ {n}) \cup {mp} ELSE S \ {mp}
             old == IF p = n THEN mp ELSE p
             j == U.node[p].key
  <2>1. CASE p = mp
    BY <1>9, <2>1
  <2>2. CASE p # mp
    <3>1. /\ old \in Keyed(T) /\ Main(T, old) \in R /\ T.node[old].key = j /\ ~T.node[old].dead
      <4>1. old \in Keyed(T) /\ Main(U, p) = Main(T, old)
        BY <1>8, <1>9, <2>2
      <4>2. Main(T, old) # mp /\ Main(T, old) # n
        BY <1>h, <4>1
      <4>3. p \in P /\ T.node[old].key = j /\ ~T.node[old].dead
        BY <1>5, <1>6, <1>8, <1>b, <2>2
      <4>4. QED
        BY <4>1, <4>2, <4>3
    <3>2. ASSUME NEW q \in R, T.node[q].key # j PROVE T.node[q].next \in R \cup {NONE}
      <4>1. CASE q = mp
        <5>1. n \in S
          BY <3>2, <4>1
        <5>2. T.node[mp].next \in S \cup {NONE}
          BY <1>5, <3>2, <4>1, <5>1
        <5>3. QED
          BY <1>b, <1>c, <4>1, <5>1, <5>2
      <4>2. CASE q = prev
        <5>1. prev \in S /\ U.node[prev].key # j
          BY <1>g, <1>i, <3>2, <4>2
        <5>2. n \in S
          BY <1>b, <1>i, <5>1
        <5>3. QED
          BY <4>2, <5>2
      <4>3. CASE q # mp /\ q # prev
        <5>1. q \in S /\ q # n /\ q \in P
          BY <3>2, <4>3
        <5>2. U.node[q].key # j
          BY <1>6, <3>2, <4>3, <5>1
        <5>3. T.node[q].next \in S \cup {NONE}
          BY <1>6, <4>3, <5>1, <5>2
        <5>4. T.node[q].next # n /\ T.node[q].next # mp
          BY <1>c, <1>g, <4>3, <5>1
        <5>5. QED
          BY <5>3, <5>4
      <4>4. QED
        BY <4>1, <4>2, <4>3
    <3>3. R \in SUBSET P
      BY <1>b
    <3>4. old \in R
      <4> HIDE DEF R, old
      <4>1. \A q \in R : T.node[q].key = T.node[old].key \/ T.node[q].next \in R \cup {NONE}
        BY <3>1, <3>2
      <4>2. QED
        BY <1>a, <3>1, <3>3, <4>1 DEF LiveFirst
    <3>5. QED
      BY <1>b, <2>2, <3>4
  <2>3. QED
    BY <2>1, <2>2
<1>14. OwnFirst(U)
  <2>1. ASSUME NEW p \in Keyed(T)
        PROVE  /\ Main(T, p) \in Keyed(T) /\ Main(T, p) # mp
               /\ Main(U, Main(T, p)) = Main(T, p)
    BY <1>a, <1>9, <1>h DEF OwnFirst
  <2>2. QED
    BY <1>8, <1>9, <2>1 DEF OwnFirst
<1>15. OncePerKey(U)
  <2>1. \A p \in Keyed(T) : T.node[p].key = k => T.node[p].dead
    BY DEF With, Keyed
  <2>0. \A j : InArray(U, j) <=> InArray(T, j)
    BY <1>e DEF InArray
  <2>2. \A p \in Keyed(U) : ~InArray(U, U.node[p].key)
    <3>1. \A p \in Keyed(T) : ~InArray(U, T.node[p].key)
      BY <1>a, <2>0 DEF OncePerKey
    <3>2. ~InArray(U, U.node[n].key) /\ ~InArray(U, U.node[mp].key)
      BY <1>4, <1>5, <2>0, <3>1
    <3>3. \A p \in Keyed(T) : p # mp => ~InArray(U, U.node[p].key)
      BY <1>6, <1>9, <1>b, <3>1
    <3>4. QED
      BY <1>8, <3>2, <3>3
  <2>3. ASSUME NEW p \in Keyed(U), NEW q \in Keyed(U), U.node[p].key = U.node[q].key
        PROVE  p = q \/ U.node[p].dead \/ U.node[q].dead
    <3> DEFINE Old(x) == IF x = n THEN mp ELSE x
    <3>1. \A x \in Keyed(U) : x # mp =>
            /\ Old(x) \in Keyed(T) /\ U.node[x].key = T.node[Old(x)].key
            /\ U.node[x].dead = T.node[Old(x)].dead
      BY <1>5, <1>6, <1>8, <1>b
    <3>2. CASE p = mp \/ q = mp
      <4>1. U.node[p].key = k /\ U.node[q].key = k
        BY <1>4, <2>3, <3>2
      <4>2. \A x \in Keyed(U) : x # mp /\ U.node[x].key = k => U.node[x].dead
        BY <2>1, <3>1
      <4>3. QED
        BY <4>1, <4>2, <3>2
    <3>3. CASE p # mp /\ q # mp
      <4> HIDE DEF Old
      <4>1. Old(p) = Old(q) \/ U.node[p].dead \/ U.node[q].dead
        BY <1>a, <2>3, <3>1, <3>3 DEF OncePerKey
      <4>2. Old(p) = Old(q) => p = q
        BY <3>3 DEF Old
      <4>3. QED
        BY <4>1, <4>2
    <3>4. QED
      BY <3>2, <3>3
  <2>4. QED
    BY <2>2, <2>3 DEF OncePerKey
<1>16. UsedFromTop(U)
  <2>1. ASSUME NEW p \in P, p >= n PROVE p \in Keyed(U)
    <3>1. CASE p = n
      BY <1>8, <3>1
    <3>2. CASE p # n
      <4>1. p \in Nat /\ n \in Nat
        BY <1>0, <1>a, NodeTypes
      <4>2. p > n
        BY <2>1, <3>2, <4>1
      <4>3. QED
        BY <1>0, <1>8, <4>2
    <3>3. QED
      BY <3>1, <3>2
  <2>2. QED
    BY <1>e, <2>1 DEF UsedFromTop
<1>17. Extends(T, U, k)
  <2>1. Holds(U) = Holds(T)
    <3>1. ASSUME NEW p \in P, T.node[p].val # Nil
          PROVE  \E q \in P : /\ U.node[q].val = T.node[p].val /\ U.node[q].key = T.node[p].key
      <4>1. CASE p = mp
        BY <1>5, <1>b, <4>1
      <4>2. CASE p # mp
        BY <1>6, <1>c, <3>1, <4>2
      <4>3. QED
        BY <4>1, <4>2
    <3>2. ASSUME NEW p \in P, U.node[p].val # Nil
          PROVE  \E q \in P : /\ T.node[q].val = U.node[p].val /\ T.node[q].key = U.node[p].key
      <4>1. CASE p = n
        BY <1>5, <1>b, <4>1
      <4>2. CASE p # n
        BY <1>4, <1>6, <3>2, <4>2
      <4>3. QED
        BY <4>1, <4>2
    <3>3. Holds(U) \subseteq Holds(T)
      <4>1. ASSUME NEW p \in P, U.node[p].val # Nil
            PROVE  <<U.node[p].key, U.node[p].val>> \in Holds(T)
        <5>1. PICK q \in P : T.node[q].val = U.node[p].val /\ T.node[q].key = U.node[p].key
          BY <3>2, <4>1
        <5>2. QED
          BY <4>1, <5>1 DEF Holds
      <4>2. QED
        BY <1>e, <4>1 DEF Holds
    <3>4. Holds(T) \subseteq Holds(U)
      <4>1. ASSUME NEW p \in P, T.node[p].val # Nil
            PROVE  <<T.node[p].key, T.node[p].val>> \in Holds(U)
        <5>1. PICK q \in P : U.node[q].val = T.node[p].val /\ U.node[q].key = T.node[p].key
          BY <3>1, <4>1
        <5>2. QED
          BY <1>e, <4>1, <5>1 DEF Holds
      <4>2. QED
        BY <4>1 DEF Holds
    <3>5. QED
      BY <3>3, <3>4
  <2>2. KeysOf(U) \subseteq KeysOf(T) \cup {k}
    <3>1. ASSUME NEW p \in Keyed(U) PROVE U.node[p].key = k \/ \E q \in Keyed(T) : U.node[p].key = T.node[q].key
      BY <1>4, <1>5, <1>6, <1>8, <1>b
    <3>2. QED
      BY <3>1 DEF KeysOf
  <2>3. NoneDead(T) => NoneDead(U)
    BY <1>e, <1>b, <1>4, <1>5, <1>6 DEF NoneDead
  <2>4. QED
    BY <1>e, <2>1, <2>2, <2>3 DEF Extends
<1>18. With(U, k, FALSE) # {}
  BY <1>e, <1>4, <1>b DEF With
<1>19. QED
  BY <1>e, <1>10, <1>11, <1>12, <1>13, <1>14, <1>15, <1>16, <1>17, <1>18, <1>20
  DEF Chained, Takes

\* A new key has a node of its own, unless there is none left.
LEMMA NewKey ==
  ASSUME NEW T, Chained(T), HashOK, NEW k \in Key, With(T, k, FALSE) = {}, ~InArray(T, k)
  PROVE  IF Vacant(T, mainposition(T, k)) \/ Free(T) # {} THEN Takes(T, newkey(T, k), k)
         ELSE /\ Chained(newkey(T, k)) /\ Extends(T, newkey(T, k), k)
              /\ newkey(T, k) = [T EXCEPT !.full = TRUE] /\ newkey(T, k).full
<1> DEFINE mp == mainposition(T, k)
           n == getfreepos(T)
           U == newkey(T, k)
<1>a. Typed(T) /\ UsedFromTop(T)
  BY DEF Chained
<1>1. CASE Vacant(T, mp)
  BY <1>1, NewInPlace
<1>2. CASE ~Vacant(T, mp) /\ Free(T) = {}
  <2>1. U = [T EXCEPT !.full = TRUE]
    BY <1>2 DEF newkey
  <2>2. /\ U.array = T.array /\ U.node = T.node /\ U.lastfree = T.lastfree /\ U.full = TRUE
        /\ U \in [array : Seq(Val \cup {Nil}), node : [Positions(T) -> NodesAt(Positions(T))],
                  lastfree : 0..Cardinality(Positions(T)), full : BOOLEAN]
    BY <1>a, <2>1 DEF Typed
  <2>3. Positions(U) = Positions(T)
    BY <2>2 DEF Positions
  <2>4. \A j : mainposition(U, j) = mainposition(T, j)
    BY <2>3, SameMain
  <2>5. Keyed(U) = Keyed(T) /\ \A p : Main(U, p) = Main(T, p)
    BY <2>2, <2>3, <2>4 DEF Keyed, Main
  <2> HIDE DEF U
  <2>6. Typed(U)
    BY <1>a, <2>2, <2>3 DEF Typed
  <2>7. NoCircle(U) /\ SinglyLinked(U) /\ Reached(U) /\ LiveFirst(U) /\ OwnFirst(U)
    BY <2>2, <2>3, <2>5 DEF Chained, NoCircle, SinglyLinked, Reached, LiveFirst, OwnFirst
  <2>8. OncePerKey(U) /\ UsedFromTop(U)
    BY <2>2, <2>3, <2>5 DEF Chained, OncePerKey, UsedFromTop, InArray
  <2>9. Extends(T, U, k)
    BY <2>2, <2>3, <2>5 DEF Extends, Holds, KeysOf, NoneDead
  <2>10. QED
    BY <1>2, <2>1, <2>6, <2>7, <2>8, <2>9 DEF Chained, U
<1>3. CASE ~Vacant(T, mp) /\ Free(T) # {}
  <2>1. TopFree(T, n)
    BY <1>a, <1>3, FreePosition
  <2>2. mp \in Keyed(T)
    <3>1. ~isdummy(T)
      BY <2>1 DEF isdummy, TopFree
    <3>2. mp \in Positions(T) /\ T.node[mp].val # Nil
      BY <1>a, <1>3, <3>1, MainInRange DEF Vacant
    <3>3. QED
      BY <3>2 DEF Keyed, Chained, SinglyLinked, EmptyNode
  <2>7. T.node[mp].key # k
    <3>1. mp \in Positions(T) /\ T.node[mp].val # Nil
      BY <1>3, <2>1, <2>2 DEF Vacant, isdummy, TopFree, Keyed
    <3>2. ~T.node[mp].dead
      BY <1>a, <3>1 DEF Typed
    <3>3. QED
      BY <3>1, <3>2 DEF With
  <2>3. U = [T EXCEPT !.node = Moved(T, k, mp, n), !.lastfree = n]
    BY <1>3 DEF newkey
  <2> HIDE DEF n
  <2>4. CASE Main(T, mp) = mp
    <3>1. U = Behind(T, k, mp, n)
      BY <2>3, <2>4 DEF Moved, Main, Behind
    <3> HIDE DEF U, mp
    <3>2. mp = mainposition(T, k)
      BY DEF mp
    <3>3. Takes(T, U, k)
      BY <2>1, <2>2, <2>4, <2>7, <3>1, <3>2, NewBehind
    <3>4. QED
      BY <1>3, <3>3 DEF U, mp
  <2>5. CASE Main(T, mp) # mp
    <3> DEFINE prev == Along(T, Main(T, mp), {p \in Positions(T) : T.node[p].next = mp})
    <3>1. prev \in Positions(T) /\ T.node[prev].next = mp
      BY <2>2, <2>5, PreviousFound
    <3>2. U = InFront(T, k, mp, n, prev)
      BY <2>3, <2>5 DEF Moved, Main, InFront
    <3> HIDE DEF U, mp, prev
    <3>3. mp = mainposition(T, k)
      BY DEF mp
    <3>4. Takes(T, U, k)
      BY <2>1, <2>2, <2>5, <3>1, <3>2, <3>3, NewInFront
    <3>5. QED
      BY <1>3, <3>4 DEF U, mp
  <2>6. QED
    BY <2>4, <2>5
<1>4. QED
  BY <1>1, <1>2, <1>3

-----------------------------------------------------------------------------
(* Fields.                                                                 *)

\* What luaH_get gives: what is held.
LEMMA GetHeld ==
  ASSUME NEW T, Chained(T), HashOK, NEW k, ~InArray(T, k)
  PROVE  /\ luaH_get(T, k) \in Val \cup {Nil}
         /\ luaH_get(T, k) # Nil => k \in Key /\ <<k, luaH_get(T, k)>> \in Holds(T)
         /\ \A x : <<k, x>> \in Holds(T) => luaH_get(T, k) = x
         /\ luaH_get(T, k) # Nil => node(T, k) \in With(T, k, FALSE) /\ luaH_get(T, k) = T.node[node(T, k)].val
<1>a. Typed(T) /\ NONE \notin Positions(T)
  BY NodeTypes DEF Chained
<1>1. CASE k \notin Key
  <2>1. luaH_get(T, k) = Nil
    BY <1>a, <1>1 DEF luaH_get, gval
  <2>2. ASSUME NEW p \in Positions(T), T.node[p].val # Nil PROVE T.node[p].key # k
    <3>1. T.node[p].key \in Key \cup {Nil} /\ T.node[p].key # Nil
      BY <1>a, <2>2, NodeTypes DEF Chained, SinglyLinked, Keyed, EmptyNode
    <3>2. QED
      BY <1>1, <3>1
  <2>3. \A x : <<k, x>> \notin Holds(T)
    BY <2>2 DEF Holds
  <2>4. QED
    BY <2>1, <2>3
<1>2. CASE k \in Key
  <2>1. /\ node(T, k) \in With(T, k, FALSE) \cup {NONE}
        /\ \A p \in With(T, k, FALSE) : node(T, k) = p
    BY <1>2, NodeFinds
  <2>2. luaH_get(T, k) = gval(T)[node(T, k)]
    BY <1>2 DEF luaH_get
  <2>3. CASE node(T, k) = NONE
    <3>1. luaH_get(T, k) = Nil
      BY <2>2, <2>3 DEF gval
    <3>2. ASSUME NEW p \in Positions(T), T.node[p].val # Nil PROVE T.node[p].key # k
      BY <1>a, <2>1, <2>3, <3>2 DEF With, Typed
    <3>3. \A x : <<k, x>> \notin Holds(T)
      BY <3>2 DEF Holds
    <3>4. QED
      BY <3>1, <3>3
  <2>4. CASE node(T, k) # NONE
    <3> DEFINE p == node(T, k)
    <3>1. p \in With(T, k, FALSE) /\ p \in Positions(T)
      BY <2>1, <2>4 DEF With
    <3>2. luaH_get(T, k) = T.node[p].val /\ T.node[p].key = k /\ T.node[p].val \in Val \cup {Nil}
      BY <1>a, <2>2, <2>4, <3>1, NodeTypes DEF gval, With
    <3>3. ASSUME NEW q \in Positions(T), T.node[q].val # Nil, T.node[q].key = k PROVE q = p
      BY <1>a, <2>1, <3>3 DEF With, Typed
    <3>4. \A x : <<k, x>> \in Holds(T) => x = T.node[p].val
      BY <3>3 DEF Holds
    <3>5. T.node[p].val # Nil => <<k, T.node[p].val>> \in Holds(T)
      BY <3>1, <3>2 DEF Holds
    <3>6. QED
      BY <1>2, <3>1, <3>2, <3>4, <3>5
  <2>5. QED
    BY <2>3, <2>4
<1>3. QED
  BY <1>1, <1>2

\* A key of the array part.
LEMMA GetFromArray ==
  ASSUME NEW T, Typed(T), NEW k, InArray(T, k)
  PROVE  luaH_get(T, k) = T.array[k] /\ luaH_get(T, k) \in Val \cup {Nil}
BY DEF luaH_get, InArray, Typed

\* Tables with the same array part and the same fields in the hash part.
LEMMA SameFields ==
  ASSUME NEW T, NEW U, Chained(T), Chained(U), HashOK, U.array = T.array, Holds(U) = Holds(T), NEW k
  PROVE  luaH_get(U, k) = luaH_get(T, k)
<1>1. CASE InArray(T, k)
  BY <1>1 DEF luaH_get, InArray
<1>2. CASE ~InArray(T, k)
  <2>1. ~InArray(U, k)
    BY <1>2 DEF InArray
  <2>2. QED
    BY <1>2, <2>1, GetHeld
<1>3. QED
  BY <1>1, <1>2

-----------------------------------------------------------------------------
(* Assignments.                                                            *)

\* What a change of values leaves alone.
SameKeys(T, U) ==
  /\ Positions(U) = Positions(T) /\ Len(U.array) = Len(T.array) /\ U.lastfree = T.lastfree
  /\ \A p \in Positions(T) : /\ U.node[p].key = T.node[p].key /\ U.node[p].next = T.node[p].next
                             /\ T.node[p].dead => U.node[p].dead
  /\ \A p \in Positions(T) \ Keyed(T) : U.node[p] = T.node[p]

\* Chains and keys do not depend on the values.
LEMMA ValuesOnly ==
  ASSUME NEW T, NEW U, Chained(T), Typed(U), SameKeys(T, U)
  PROVE  Chained(U) /\ KeysOf(U) = KeysOf(T)
<1>a. Typed(T) /\ NoCircle(T) /\ SinglyLinked(T) /\ Reached(T) /\ LiveFirst(T)
      /\ OwnFirst(T) /\ OncePerKey(T) /\ UsedFromTop(T) /\ Keyed(T) \subseteq Positions(T)
  BY DEF Chained, Keyed
<1>1. /\ Positions(U) = Positions(T) /\ U.lastfree = T.lastfree
      /\ \A p \in Positions(T) : U.node[p].key = T.node[p].key /\ U.node[p].next = T.node[p].next
  BY DEF SameKeys
<1>2. \A j : mainposition(U, j) = mainposition(T, j) /\ (InArray(U, j) <=> InArray(T, j))
  BY <1>1, SameMain DEF SameKeys, InArray
<1>3. Keyed(U) = Keyed(T)
  BY <1>1 DEF Keyed
<1>4. \A p \in Keyed(T) : Main(U, p) = Main(T, p)
  BY <1>a, <1>1, <1>2 DEF Main
<1>5. NoCircle(U)
  BY <1>a, <1>1 DEF NoCircle
<1>6. SinglyLinked(U)
  <2>1. \A p \in Positions(T) \ Keyed(T) : U.node[p] = T.node[p]
    BY DEF SameKeys
  <2>2. \A p, q \in Positions(T) : U.node[p].next = U.node[q].next => p = q \/ U.node[p].next = NONE
    BY <1>a, <1>1 DEF SinglyLinked
  <2>3. \A p \in Positions(T) \ Keyed(T) :
          U.node[p] = EmptyNode /\ \A q \in Positions(T) : U.node[q].next # p
    BY <1>a, <1>1, <2>1 DEF SinglyLinked
  <2>4. QED
    BY <1>1, <1>3, <2>2, <2>3 DEF SinglyLinked
<1>7. Reached(U)
  BY <1>a, <1>1, <1>3, <1>4 DEF Reached
<1>13. LiveFirst(U)
  <2>1. \A p \in Keyed(T) : ~U.node[p].dead => ~T.node[p].dead
    BY <1>a DEF SameKeys
  <2>2. QED
    BY <1>a, <1>1, <1>3, <1>4, <2>1 DEF LiveFirst
<1>8. OwnFirst(U)
  BY <1>a, <1>3, <1>4 DEF OwnFirst
<1>9. OncePerKey(U)
  <2>1. \A p \in Positions(T) : T.node[p].dead => U.node[p].dead
    BY DEF SameKeys
  <2>2. \A p, q \in Keyed(T) :
          U.node[p].key = U.node[q].key => p = q \/ U.node[p].dead \/ U.node[q].dead
    BY <1>a, <1>1, <2>1 DEF OncePerKey
  <2>3. \A p \in Keyed(T) : ~InArray(U, U.node[p].key)
    BY <1>a, <1>1, <1>2 DEF OncePerKey
  <2>4. QED
    BY <1>3, <2>2, <2>3 DEF OncePerKey
<1>10. UsedFromTop(U)
  BY <1>a, <1>1, <1>3 DEF UsedFromTop
<1>11. KeysOf(U) = KeysOf(T)
  BY <1>a, <1>1, <1>3 DEF KeysOf
<1>12. QED
  BY <1>5, <1>6, <1>7, <1>8, <1>9, <1>10, <1>11, <1>13 DEF Chained

\* What an assignment does to a table that has a place for the key.
Assigns(T, U, k, v) ==
  /\ Chained(U) /\ U.full = T.full
  /\ Positions(U) = Positions(T) /\ Len(U.array) = Len(T.array)
  /\ KeysOf(U) \subseteq KeysOf(T) \cup {j \in {k} : ~InArray(T, j)}
  /\ NoneDead(T) => NoneDead(U)
  /\ \A j : luaH_get(U, j) = IF j = k THEN v ELSE luaH_get(T, j)

\* An assignment to the array part.
LEMMA StoreInArray ==
  ASSUME NEW T, Chained(T), HashOK, NEW k, InArray(T, k), NEW v \in Val \cup {Nil}
  PROVE  Assigns(T, [T EXCEPT !.array[k] = v], k, v) /\ SameKeys(T, [T EXCEPT !.array[k] = v])
<1> DEFINE U == [T EXCEPT !.array[k] = v]
<1>a. Typed(T)
  BY DEF Chained
<1>1. k \in 1..Len(T.array) /\ T.array \in Seq(Val \cup {Nil})
  BY <1>a DEF InArray, Typed
<1>2. U.array = [T.array EXCEPT ![k] = v] /\ U.node = T.node /\ U.lastfree = T.lastfree
      /\ U.full = T.full
  BY <1>a DEF Typed
<1>3. U.array \in Seq(Val \cup {Nil}) /\ Len(U.array) = Len(T.array)
  BY <1>1, <1>2
<1>4. Positions(U) = Positions(T)
  BY <1>2 DEF Positions
<1>5. Typed(U)
  <2>1. U \in [array : Seq(Val \cup {Nil}), node : [Positions(T) -> NodesAt(Positions(T))],
               lastfree : 0..Cardinality(Positions(T)), full : BOOLEAN]
    BY <1>a, <1>2, <1>3 DEF Typed
  <2>2. QED
    BY <1>a, <1>2, <1>4, <2>1 DEF Typed
<1>6. U.array[k] = v /\ \A j \in 1..Len(T.array) : j # k => U.array[j] = T.array[j]
  BY <1>1, <1>2
<1> HIDE DEF U
<1>7. SameKeys(T, U)
  BY <1>2, <1>3, <1>4 DEF SameKeys
<1>8. Chained(U) /\ KeysOf(U) = KeysOf(T)
  BY <1>5, <1>7, ValuesOnly
<1>9. Holds(U) = Holds(T)
  BY <1>2, <1>4 DEF Holds
<1>10. ASSUME NEW j PROVE luaH_get(U, j) = IF j = k THEN v ELSE luaH_get(T, j)
  <2>1. CASE InArray(T, j)
    <3>1. InArray(U, j)
      BY <1>3, <2>1 DEF InArray
    <3>2. luaH_get(U, j) = U.array[j] /\ luaH_get(T, j) = T.array[j]
      BY <1>5, <1>a, <2>1, <3>1, GetFromArray
    <3>3. QED
      BY <1>6, <2>1, <3>2 DEF InArray
  <2>2. CASE ~InArray(T, j)
    <3>1. ~InArray(U, j) /\ j # k
      BY <1>3, <2>2 DEF InArray
    <3>2. QED
      BY <1>8, <1>9, <2>2, <3>1, GetHeld
  <2>3. QED
    BY <2>1, <2>2
<1>11. NoneDead(T) => NoneDead(U)
  BY <1>2, <1>4 DEF NoneDead
<1>12. QED
  BY <1>2, <1>3, <1>4, <1>7, <1>8, <1>10, <1>11 DEF Assigns, U

\* A value for the node p of a key, perhaps with the key's death.
Put(T, p, v, dead) == [T EXCEPT !.node[p] = [@ EXCEPT !.val = v, !.dead = dead]]

\* What an assignment to a node changes of the table's parts.
LEMMA PutFacts ==
  ASSUME NEW T, Typed(T), NEW p \in Positions(T), NEW v \in Val \cup {Nil}, NEW dead \in BOOLEAN,
         dead => T.node[p].key \in ObjectKeys /\ v = Nil
  PROVE  LET U == Put(T, p, v, dead) IN
         /\ Typed(U) /\ Positions(U) = Positions(T) /\ U.array = T.array
         /\ U.lastfree = T.lastfree /\ U.full = T.full
         /\ \A q \in Positions(T) : q # p => U.node[q] = T.node[q]
         /\ U.node[p].key = T.node[p].key /\ U.node[p].next = T.node[p].next
         /\ U.node[p].val = v /\ U.node[p].dead = dead
<1> DEFINE U == Put(T, p, v, dead)
           N == [T.node[p] EXCEPT !.val = v, !.dead = dead]
           P == Positions(T)
<1>1. T.node[p] \in NodesAt(P)
  BY NodeTypes
<1>2. /\ N \in NodesAt(P) /\ N.key = T.node[p].key /\ N.next = T.node[p].next
      /\ N.val = v /\ N.dead = dead
  BY <1>1 DEF NodesAt
<1> HIDE DEF N
<1>3. U = [T EXCEPT !.node[p] = N]
  BY DEF Put, N
<1>4. /\ U \in [array : Seq(Val \cup {Nil}), node : [P -> NodesAt(P)],
                lastfree : 0..Cardinality(P), full : BOOLEAN]
      /\ Positions(U) = P /\ U.array = T.array /\ U.lastfree = T.lastfree /\ U.full = T.full
      /\ \A q \in P : q # p => U.node[q] = T.node[q]
      /\ U.node[p] = N
  <2> DEFINE R == [array : Seq(Val \cup {Nil}), node : [P -> NodesAt(P)],
                   lastfree : 0..Cardinality(P), full : BOOLEAN]
             f == [T.node EXCEPT ![p] = N]
  <2>1. T \in R /\ T.node \in [P -> NodesAt(P)]
    BY DEF Typed
  <2>2. f \in [P -> NodesAt(P)] /\ f[p] = N /\ \A q \in P : q # p => f[q] = T.node[q]
    BY <1>2, <2>1
  <2>3. U = [T EXCEPT !.node = f]
    BY <1>3, <2>1
  <2> HIDE DEF f
  <2> HIDE DEF U, P
  <2>4. /\ U \in R /\ U.node = f /\ U.array = T.array /\ U.lastfree = T.lastfree
        /\ U.full = T.full
    BY <2>1, <2>2, <2>3
  <2>5. Positions(U) = P
    BY <2>2, <2>4 DEF Positions
  <2>6. QED
    BY <2>2, <2>4, <2>5
<1> HIDE DEF U
<1>5. \A q \in P : U.node[q].dead => U.node[q].key \in ObjectKeys /\ U.node[q].val = Nil
  BY <1>2, <1>4, NodeTypes
<1>6. Typed(U)
  BY <1>4, <1>5 DEF Typed
<1>7. QED
  BY <1>2, <1>4, <1>6 DEF U

\* What an assignment to a node does.
Stores(T, U, k, v) ==
  /\ Chained(U) /\ U.full = T.full
  /\ \A j : luaH_get(U, j) = IF j = k THEN v ELSE luaH_get(T, j)

\* An assignment to the node of a key.
LEMMA StoreInNode ==
  ASSUME NEW T, Chained(T), HashOK, NEW k \in Key, NEW p \in With(T, k, FALSE),
         NEW v \in Val \cup {Nil}, NEW dead \in BOOLEAN, dead => k \in ObjectKeys /\ v = Nil
  PROVE  /\ Stores(T, Put(T, p, v, dead), k, v)
         /\ dead \/ Assigns(T, Put(T, p, v, dead), k, v)
         /\ SameKeys(T, Put(T, p, v, dead))
<1> DEFINE U == Put(T, p, v, dead)
<1>a. Typed(T) /\ Keyed(T) \subseteq Positions(T)
  BY DEF Chained, Keyed
<1>b. p \in Positions(T) /\ T.node[p].key = k /\ ~T.node[p].dead /\ k # Nil
  BY KeyAssumption DEF With
<1>1. /\ Typed(U) /\ Positions(U) = Positions(T) /\ U.array = T.array
      /\ U.lastfree = T.lastfree /\ U.full = T.full
      /\ \A q \in Positions(T) : q # p => U.node[q] = T.node[q]
      /\ U.node[p].key = k /\ U.node[p].next = T.node[p].next
      /\ U.node[p].val = v /\ U.node[p].dead = dead
  BY <1>a, <1>b, PutFacts
<1> HIDE DEF U
<1>2. SameKeys(T, U)
  BY <1>b, <1>1 DEF SameKeys, Keyed
<1>3. Chained(U) /\ KeysOf(U) = KeysOf(T)
  BY <1>1, <1>2, ValuesOnly
<1>4. k \in KeysOf(T) /\ ~InArray(T, k)
  <2>1. p \in Keyed(T)
    BY <1>b DEF Keyed
  <2>2. QED
    BY <1>b, <2>1 DEF KeysOf, Chained, OncePerKey
<1>5. ASSUME NEW q \in Positions(T), T.node[q].key = k, T.node[q].val # Nil PROVE q = p
  <2>1. ~T.node[q].dead
    BY <1>a, <1>5, NodeTypes
  <2>2. q \in Keyed(T) /\ p \in Keyed(T)
    BY <1>b, <1>5 DEF Keyed
  <2>3. QED
    BY <1>b, <1>5, <2>1, <2>2 DEF Chained, OncePerKey
<1>6. ASSUME NEW j, NEW x, j # k PROVE <<j, x>> \in Holds(U) <=> <<j, x>> \in Holds(T)
  <2>1. \A q \in Positions(T) : U.node[q].key = j => q # p /\ U.node[q] = T.node[q]
    BY <1>1, <1>6
  <2>2. \A q \in Positions(T) : T.node[q].key = j => q # p /\ U.node[q] = T.node[q]
    BY <1>b, <1>1, <1>6
  <2>3. QED
    BY <1>1, <2>1, <2>2 DEF Holds
<1>7. v # Nil => <<k, v>> \in Holds(U)
  BY <1>b, <1>1 DEF Holds
<1>8. ASSUME NEW x, <<k, x>> \in Holds(U) PROVE x = v
  <2>1. PICK q \in Positions(T) : U.node[q].val # Nil /\ U.node[q].key = k /\ U.node[q].val = x
    BY <1>1, <1>8 DEF Holds
  <2>2. q = p
    BY <1>1, <1>5, <2>1
  <2>3. QED
    BY <1>1, <2>1, <2>2
<1>9. ASSUME NEW j PROVE luaH_get(U, j) = IF j = k THEN v ELSE luaH_get(T, j)
  <2>1. InArray(U, j) <=> InArray(T, j)
    BY <1>1 DEF InArray
  <2>2. CASE InArray(T, j)
    BY <1>1, <1>4, <2>1, <2>2 DEF luaH_get
  <2>3. CASE ~InArray(T, j) /\ j # k
    <3>1. \A x : <<j, x>> \in Holds(U) <=> <<j, x>> \in Holds(T)
      BY <1>6, <2>3
    <3>2. QED
      BY <1>3, <2>1, <2>3, <3>1, GetHeld
  <2>4. CASE j = k
    <3>1. ~InArray(U, k)
      BY <1>4, <2>1, <2>4
    <3>2. luaH_get(U, k) # Nil => <<k, luaH_get(U, k)>> \in Holds(U)
      BY <1>3, <3>1, GetHeld
    <3>3. v # Nil => luaH_get(U, k) = v
      BY <1>3, <1>7, <3>1, GetHeld
    <3>4. QED
      BY <1>8, <2>4, <3>2, <3>3
  <2>5. QED
    BY <2>2, <2>3, <2>4
<1>10. ~dead /\ NoneDead(T) => NoneDead(U)
  BY <1>1 DEF NoneDead
<1>11. QED
  BY <1>1, <1>2, <1>3, <1>4, <1>9, <1>10 DEF Assigns, Stores, U

\* An assignment to a key that has a place moves no key.
LEMMA StoreFinds ==
  ASSUME NEW T, Chained(T), HashOK, NEW k \in Key, NEW v \in Val \cup {Nil},
         InArray(T, k) \/ With(T, k, FALSE) # {}, ~T.full
  PROVE  Assigns(T, Store(T, k, v), k, v) /\ SameKeys(T, Store(T, k, v))
<1>1. CASE InArray(T, k)
  BY <1>1, StoreInArray DEF Store
<1>2. CASE ~InArray(T, k)
  <2> DEFINE p == node(T, k)
  <2>1. p \in With(T, k, FALSE)
    BY <1>2, NodeFinds
  <2>2. Typed(T) /\ p \in Positions(T) /\ ~T.node[p].dead
    BY <2>1 DEF With, Chained
  <2> HIDE DEF p
  <2>3. T.node[p] \in NodesAt(Positions(T)) /\ T.node[p].dead = FALSE
    BY <2>2, NodeTypes
  <2>4. [T.node[p] EXCEPT !.val = v] = [T.node[p] EXCEPT !.val = v, !.dead = FALSE]
    BY <2>3 DEF NodesAt
  <2>5. Store(T, k, v) = Put(T, p, v, FALSE)
    <3>1. Store(T, k, v) = [T EXCEPT !.node[p] = [@ EXCEPT !.val = v]]
      BY <1>2 DEF Store, p
    <3>2. QED
      BY <2>4, <3>1 DEF Put
  <2> DEFINE no == FALSE
  <2>6. no \in BOOLEAN /\ ~no
    OBVIOUS
  <2>7. Store(T, k, v) = Put(T, p, v, no)
    BY <2>5
  <2> HIDE DEF no
  <2>8. Assigns(T, Put(T, p, v, no), k, v) /\ SameKeys(T, Put(T, p, v, no))
    BY <2>1, <2>6, StoreInNode
  <2>9. QED
    BY <2>7, <2>8
<1>3. QED
  BY <1>1, <1>2

\* luaH_set and the assignment, where there is room.
LEMMA AssignKeeps ==
  ASSUME NEW T, Chained(T), HashOK, NEW k \in Key, NEW v \in Val \cup {Nil}, ~T.full, HasRoom(T, k)
  PROVE  Assigns(T, Assign(T, k, v), k, v)
<1>0. NONE \notin Positions(T)
  BY NodeTypes DEF Chained
<1>1. CASE InArray(T, k) \/ node(T, k) # NONE
  <2>1. Assign(T, k, v) = Store(T, k, v)
    BY <1>1 DEF Assign
  <2>2. InArray(T, k) \/ With(T, k, FALSE) # {}
    BY <1>1, NodeFinds
  <2>3. QED
    BY <2>1, <2>2, StoreFinds
<1>2. CASE ~InArray(T, k) /\ node(T, k) = NONE
  <2> DEFINE N == newkey(T, k)
             U == Store(N, k, v)
  <2>1. Assign(T, k, v) = U
    BY <1>2 DEF Assign
  <2>2. With(T, k, FALSE) = {}
    BY <1>0, <1>2, NodeFinds DEF With
  <2>3. Takes(T, N, k)
    BY <1>2, <2>2, NewKey DEF HasRoom
  <2> HIDE DEF N
  <2>4. /\ Chained(N) /\ N.full = T.full /\ Positions(N) = Positions(T) /\ N.array = T.array
        /\ Holds(N) = Holds(T) /\ KeysOf(N) \subseteq KeysOf(T) \cup {k}
        /\ NoneDead(T) => NoneDead(N)
        /\ With(N, k, FALSE) # {}
    BY <2>3 DEF Takes, Extends
  <2>5. Assigns(N, U, k, v)
    BY <2>4, StoreFinds
  <2>6. \A j : luaH_get(N, j) = luaH_get(T, j)
    BY <2>4, SameFields
  <2> HIDE DEF U
  <2>7. KeysOf(U) \subseteq KeysOf(T) \cup {j \in {k} : ~InArray(T, j)}
    BY <1>2, <2>4, <2>5 DEF Assigns, InArray
  <2>8. Assigns(T, U, k, v)
    BY <2>4, <2>5, <2>6, <2>7 DEF Assigns
  <2>9. QED
    BY <2>1, <2>8
<1>3. QED
  BY <1>1, <1>2

-----------------------------------------------------------------------------
(* Rehash: there is room for what is put back.                             *)

\* If no key is dead and there are as many nodes as keys to come, one is free.
LEMMA RoomForAll ==
  ASSUME NEW T, Chained(T), HashOK, NoneDead(T), NEW K, IsFiniteSet(K), KeysOf(T) \subseteq K,
         Cardinality(K) <= Cardinality(Positions(T)),
         NEW k \in Key, ~InArray(T, k) => k \in K
  PROVE  HasRoom(T, k)
<1>1. CASE InArray(T, k) \/ With(T, k, FALSE) # {}
  <2>1. NONE \notin Positions(T)
    BY NodeTypes DEF Chained
  <2>2. With(T, k, FALSE) # {} => node(T, k) # NONE
    BY <2>1, NodeFinds DEF With
  <2>3. QED
    BY <1>1, <2>2 DEF HasRoom
<1>2. CASE ~InArray(T, k) /\ With(T, k, FALSE) = {}
  <2> DEFINE P == Positions(T)
             f == [p \in P |-> T.node[p].key]
  <2>a. Typed(T) /\ OncePerKey(T) /\ UsedFromTop(T)
    BY DEF Chained
  <2> SUFFICES ASSUME Free(T) = {} PROVE FALSE
    BY DEF HasRoom
  <2>1. /\ Cardinality(P) \in Nat /\ P = 0..Cardinality(P) - 1
        /\ T.lastfree \in 0..Cardinality(P)
    BY <2>a, NodeTypes DEF Typed
  <2>2. ASSUME NEW p \in P PROVE p \in Keyed(T)
    <3>1. CASE p >= T.lastfree
      BY <2>a, <3>1 DEF UsedFromTop
    <3>2. CASE ~(p >= T.lastfree)
      <4>1. p \in 0..T.lastfree - 1
        BY <2>1, <3>2
      <4>2. QED
        BY <4>1 DEF Free, Keyed
    <3>3. QED
      BY <3>1, <3>2
  <2>3. f \in [P -> K \ {k}]
    <3>1. ASSUME NEW p \in P PROVE T.node[p].key \in K /\ T.node[p].key # k
      <4>1. T.node[p].key \in KeysOf(T)
        BY <2>2 DEF KeysOf
      <4>2. p \notin With(T, k, FALSE)
        BY <1>2
      <4>3. QED
        BY <4>1, <4>2 DEF With, NoneDead
    <3>2. QED
      BY <3>1
  <2>4. ASSUME NEW p \in P, NEW q \in P, f[p] = f[q] PROVE p = q
    <3>1. T.node[p].key = T.node[q].key
      BY <2>4
    <3>2. QED
      BY <2>2, <2>a, <3>1 DEF OncePerKey, NoneDead
  <2> HIDE DEF f, P
  <2>5. f \in Injection(P, K \ {k})
    BY <2>3, <2>4 DEF Injection, IsInjective
  <2>6. IsFiniteSet(K \ {k}) /\ Cardinality(K \ {k}) = Cardinality(K) - 1
    BY <1>2, FS_RemoveElement
  <2>7. Cardinality(P) <= Cardinality(K \ {k})
    BY <2>5, <2>6, FS_Injection
  <2>8. Cardinality(K) \in Nat
    BY FS_CardinalityType
  <2>9. QED
    BY <2>1, <2>6, <2>7, <2>8 DEF P
<1>3. QED
  BY <1>1, <1>2

-----------------------------------------------------------------------------
(* Rehash: what is put back.                                               *)

\* A table on the way from T to one with the fields of T and more, all keys in K.
Between(T, U, K) ==
  /\ Chained(U) /\ NoneDead(U) /\ ~U.full /\ KeysOf(U) \subseteq K
  /\ Positions(U) = Positions(T) /\ Len(U.array) = Len(T.array)

\* There is room for these fields, and each has the value that c gives its key.
Returns(T, K, fields, c) ==
  /\ Len(fields) \in Nat
  /\ \A i \in 1..Len(fields) : fields[i][2] # Nil =>
       /\ fields[i][1] \in Key /\ fields[i][2] \in Val /\ c[fields[i][1]] = fields[i][2]
       /\ InArray(T, fields[i][1]) \/ fields[i][1] \in K

\* Key j is among the first n.
Has(fields, n, j) == \E i \in 1..n : fields[i][2] # Nil /\ fields[i][1] = j

\* With the first n of them.
Restored(T, U, fields, n, c) ==
  \A j : luaH_get(U, j) = IF Has(fields, n, j) THEN c[j] ELSE luaH_get(T, j)

\* One step of PutBack.
PutOne(U, field) == IF field[2] = Nil THEN U ELSE Assign(U, field[1], field[2])

\* Putting one field back.
LEMMA PutsOne ==
  ASSUME NEW T, HashOK, NEW K, IsFiniteSet(K), Cardinality(K) <= Cardinality(Positions(T)),
         NEW fields, NEW c, Returns(T, K, fields, c),
         NEW U, Between(T, U, K), NEW n \in 1..Len(fields)
  PROVE  /\ Between(T, PutOne(U, fields[n]), K)
         /\ Restored(T, U, fields, n - 1, c) => Restored(T, PutOne(U, fields[n]), fields, n, c)
<1> DEFINE k == fields[n][1]
           v == fields[n][2]
           W == PutOne(U, fields[n])
           N == Len(fields)
<1>0. N \in Nat /\ n \in 1..N /\ n - 1 \in 0..N /\ 1..n = 1..(n - 1) \cup {n}
  BY DEF Returns
<1>1. CASE v = Nil
  <2>1. W = U
    BY <1>1 DEF PutOne
  <2>2. \A j : Has(fields, n, j) <=> Has(fields, n - 1, j)
    BY <1>0, <1>1 DEF Has
  <2>3. QED
    BY <2>1, <2>2 DEF Restored
<1>2. CASE v # Nil
  <2>1. /\ k \in Key /\ v \in Val /\ c[k] = v
        /\ InArray(T, k) \/ k \in K
    BY <1>0, <1>2 DEF Returns
  <2>2. W = Assign(U, k, v)
    BY <1>2 DEF PutOne
  <2>3. \A j : Has(fields, n, j) <=> Has(fields, n - 1, j) \/ j = k
    BY <1>0, <1>2 DEF Has
  <2> HIDE DEF k, v, W
  <2>4. /\ Chained(U) /\ NoneDead(U) /\ ~U.full /\ KeysOf(U) \subseteq K
        /\ Positions(U) = Positions(T) /\ Len(U.array) = Len(T.array)
        /\ InArray(U, k) \/ k \in K
    BY <2>1 DEF Between, InArray
  <2>5. HasRoom(U, k)
    BY <2>1, <2>4, RoomForAll
  <2>6. Assigns(U, W, k, v)
    BY <2>1, <2>2, <2>4, <2>5, AssignKeeps
  <2>7. Between(T, W, K)
    BY <2>4, <2>6 DEF Assigns, Between
  <2>8. ASSUME Restored(T, U, fields, n - 1, c) PROVE Restored(T, W, fields, n, c)
    <3>1. \A j : luaH_get(W, j) = IF j = k THEN v ELSE luaH_get(U, j)
      BY <2>6 DEF Assigns
    <3>2. QED
      BY <2>1, <2>3, <2>8, <3>1 DEF Restored
  <2>9. QED
    BY <2>7, <2>8 DEF W
<1>3. QED
  BY <1>1, <1>2

\* PutBack gives every field its value again, and never runs out of nodes.
LEMMA PutsBack ==
  ASSUME NEW T, HashOK, NEW K, IsFiniteSet(K), Cardinality(K) <= Cardinality(Positions(T)),
         Between(T, T, K), NEW fields, NEW c, Returns(T, K, fields, c)
  PROVE  /\ Between(T, PutBack(T, fields), K)
         /\ Restored(T, PutBack(T, fields), fields, Len(fields), c)
<1> DEFINE N == Len(fields)
           P == Positions(T)
           S == {U \in [array : Seq(Val \cup {Nil}), node : [P -> NodesAt(P)],
                        lastfree : 0..Cardinality(P), full : BOOLEAN] : Between(T, U, K)}
           step == [n \in 1..N |-> [U \in S |-> PutOne(U, fields[n])]]
<1>0. N \in Nat
  BY DEF Returns
<1>1. \A U : U \in S <=> Between(T, U, K)
  BY DEF Between, Chained, Typed
<1>2. \A n \in 1..N, U \in S : PutOne(U, fields[n]) \in S
  BY <1>1, PutsOne
<1> HIDE DEF S
<1>3. step \in [1..N -> [S -> S]]
  BY <1>2
<1>4. \A n \in 1..N, U \in S : step[n][U] = PutOne(U, fields[n])
  OBVIOUS
<1>5. T \in S
  BY <1>1
<1> HIDE DEF step
<1>6. PICK g \in [0..N -> S] : g[0] = T /\ \A n \in 1..N : g[n] = step[n][g[n - 1]]
  <2> HIDE DEF N, P
  <2>1. Loops(N, S, T, step)
    BY <1>0, <1>3, <1>5, RangeRecursion
  <2>2. QED
    BY <2>1 DEF Loops
<1>7. \A n \in 1..N : g[n] = PutOne(g[n - 1], fields[n])
  <2>1. \A n \in 1..N : n - 1 \in 0..N
    BY <1>0
  <2>2. QED
    BY <1>4, <1>6, <2>1
<1> DEFINE Body(f) == [n \in 0..N |-> LET U == f[n - 1] IN
                         IF n = 0 THEN T
                         ELSE IF fields[n][2] = Nil THEN U ELSE Assign(U, fields[n][1], fields[n][2])]
           put == CHOOSE f : f = Body(f)
<1>8. g = Body(g)
  <2>1. g = [n \in 0..N |-> g[n]]
    BY <1>6
  <2>2. ASSUME NEW n \in 0..N, n # 0
        PROVE  g[n] = IF fields[n][2] = Nil THEN g[n - 1] ELSE Assign(g[n - 1], fields[n][1], fields[n][2])
    <3>1. n \in 1..N
      BY <2>2
    <3>2. QED
      BY <1>7, <3>1 DEF PutOne
  <2>3. g[0] = T
    BY <1>6
  <2>4. QED
    BY <2>1, <2>2, <2>3
<1>9. put = Body(put)
  BY <1>8
<1>10. PutBack(T, fields) = put[N]
  BY DEF PutBack
<1> HIDE DEF put
<1>11. put[0] = T /\ \A n \in 1..N : put[n] = PutOne(put[n - 1], fields[n])
  <2>1. put[0] = T
    BY <1>0, <1>9
  <2>2. ASSUME NEW n \in 1..N PROVE put[n] = PutOne(put[n - 1], fields[n])
    <3>1. n \in 0..N /\ n # 0
      BY <1>0
    <3>2. put[n] = IF fields[n][2] = Nil THEN put[n - 1] ELSE Assign(put[n - 1], fields[n][1], fields[n][2])
      BY <1>9, <3>1
    <3>3. QED
      BY <3>2 DEF PutOne
  <2>3. QED
    BY <2>1, <2>2
<1> DEFINE C == {n \in 0..N : Between(T, put[n], K) /\ Restored(T, put[n], fields, n, c)}
<1>12. 0 \in C
  <2>1. Restored(T, T, fields, 0, c)
    BY DEF Restored, Has
  <2>2. QED
    BY <1>0, <1>11, <2>1
<1>13. ASSUME NEW n \in 0..N - 1, n \in C PROVE n + 1 \in C
  <2>1. n + 1 \in 1..N /\ n + 1 \in 0..N /\ (n + 1) - 1 = n
    BY <1>0
  <2>2. put[n + 1] = PutOne(put[n], fields[n + 1])
    BY <1>11, <2>1
  <2> DEFINE m == n + 1
             U == put[n]
  <2>3. Between(T, U, K) /\ Restored(T, U, fields, m - 1, c) /\ m \in 1..Len(fields)
    BY <1>13, <2>1
  <2> HIDE DEF m, U
  <2>4. Between(T, PutOne(U, fields[m]), K) /\ Restored(T, PutOne(U, fields[m]), fields, m, c)
    BY <2>3, PutsOne
  <2>5. QED
    BY <2>1, <2>2, <2>4 DEF m, U
<1>14. N \in C
  <2> HIDE DEF C
  <2>1. 0..N \subseteq C
    BY <1>0, <1>12, <1>13, RangeInduction
  <2>2. QED
    BY <1>0, <2>1
<1>15. QED
  BY <1>10, <1>14

-----------------------------------------------------------------------------
(* Rehash: the sizes.                                                      *)

\* Powers of two are above their exponents.
LEMMA PowerGrows ==
  ASSUME NEW i \in Nat
  PROVE  Pow2(i) \in Nat /\ Pow2(i) > i
<1> DEFINE Body(f) == [n \in 0..i |-> IF n = 0 THEN 1 ELSE 2 * f[n - 1]]
           pow == CHOOSE f : f = Body(f)
           step == [n \in 1..i |-> [x \in Nat |-> 2 * x]]
           S == Nat
           one == 1
<1>1. step \in [1..i -> [S -> S]] /\ one \in S
  OBVIOUS
<1>2. Loops(i, S, one, step)
  <2> HIDE DEF S, one, step
  <2>1. QED BY <1>1, RangeRecursion
<1>3. PICK g \in [0..i -> Nat] : g[0] = 1 /\ \A n \in 1..i : g[n] = step[n][g[n - 1]]
  BY <1>2 DEF Loops
<1>4. g = Body(g)
  <2>1. ASSUME NEW n \in 0..i, n # 0 PROVE g[n] = 2 * g[n - 1]
    <3>1. n \in 1..i /\ n - 1 \in 0..i
      BY <2>1
    <3>2. QED
      BY <1>3, <3>1
  <2>2. QED
    BY <1>3, <2>1
<1>5. pow = Body(pow)
  BY <1>4
<1>6. Pow2(i) = pow[i]
  BY DEF Pow2
<1> HIDE DEF pow
<1>7. pow[0] = 1 /\ \A n \in 0..i - 1 : pow[n + 1] = 2 * pow[n]
  <2>1. pow[0] = 1
    BY <1>5
  <2>2. ASSUME NEW n \in 0..i - 1 PROVE pow[n + 1] = 2 * pow[n]
    <3>1. n + 1 \in 0..i /\ n + 1 # 0 /\ (n + 1) - 1 = n
      OBVIOUS
    <3>2. QED
      BY <1>5, <3>1
  <2>3. QED
    BY <2>1, <2>2
<1> DEFINE C == {n \in 0..i : pow[n] \in Nat /\ pow[n] > n}
<1>8. 0 \in C /\ \A n \in 0..i - 1 : n \in C => n + 1 \in C
  BY <1>7
<1>9. i \in C
  <2> HIDE DEF C
  <2>1. 0..i \subseteq C
    BY <1>8, RangeInduction
  <2>2. QED
    BY <2>1
<1>10. QED
  BY <1>6, <1>9

\* There is a power of two that is large enough.
LEMMA LogExists ==
  ASSUME NEW n \in Nat
  PROVE  ceillog2(n) \in Nat /\ Pow2(ceillog2(n)) >= n
<1> DEFINE Enough == {i \in 0..n : Pow2(i) >= n}
<1>1. Enough \in SUBSET Nat /\ n \in Enough
  BY PowerGrows
<1>2. PICK i \in Enough : \A j \in Enough : i <= j
  <2> HIDE DEF Enough
  <2>1. QED BY <1>1, LeastExists
<1>3. i = 0 \/ Pow2(i - 1) < n
  <2> SUFFICES ASSUME i # 0 PROVE Pow2(i - 1) < n
    OBVIOUS
  <2>1. i - 1 \in 0..n /\ ~(i <= i - 1) /\ i - 1 \in Nat
    OBVIOUS
  <2>2. i - 1 \notin Enough
    BY <1>2, <2>1
  <2>3. Pow2(i - 1) \in Nat
    BY <2>1, PowerGrows
  <2>4. QED
    BY <2>1, <2>2, <2>3
<1>4. \E j \in 0..n : Pow2(j) >= n /\ (j = 0 \/ Pow2(j - 1) < n)
  BY <1>3
<1>5. ceillog2(n) \in 0..n /\ Pow2(ceillog2(n)) >= n
  BY <1>4 DEF ceillog2
<1>6. QED
  BY <1>5

\* There are as many nodes as were asked for, or more.
LEMMA NodesEnough ==
  ASSUME NEW size \in Nat
  PROVE  \E c \in Nat : c >= size /\ NodeVector(size) = [p \in 0..c - 1 |-> EmptyNode]
<1>1. CASE size = 0
  BY <1>1 DEF NodeVector
<1>2. CASE size # 0
  <2>1. Pow2(ceillog2(size)) \in Nat /\ Pow2(ceillog2(size)) >= size
    BY LogExists, PowerGrows
  <2>2. NodeVector(size) = [p \in 0..Pow2(ceillog2(size)) - 1 |-> EmptyNode]
    BY <1>2 DEF NodeVector
  <2>3. QED
    BY <2>1, <2>2
<1>3. QED
  BY <1>1, <1>2

\* computesizes returns a size.
LEMMA SizeIsNat ==
  ASSUME NEW ints, IsFiniteSet(ints)
  PROVE  computesizes(ints) \in Nat
<1> DEFINE c == Cardinality(ints)
           sizes == {i \in 0..c : SizeOK(ints, i)}
<1>1. c \in Nat
  BY FS_CardinalityType
<1>2. CASE sizes = {}
  BY <1>2 DEF computesizes
<1>3. CASE sizes # {}
  <2>1. sizes \in SUBSET (0..c)
    OBVIOUS
  <2>2. computesizes(ints) = Pow2(Max(sizes))
    BY <1>3 DEF computesizes
  <2>3. Max(sizes) \in sizes
    <3> HIDE DEF sizes, c
    <3>1. QED BY <1>1, <1>3, <2>1, MaxIs
  <2>4. Max(sizes) \in Nat
    BY <1>1, <2>1, <2>3
  <2> HIDE DEF sizes, c
  <2>5. QED
    BY <2>2, <2>4, PowerGrows
<1>4. QED
  BY <1>2, <1>3

\* A table with nodes that were never used, and some of an array part.
BareTable(T, a, c) ==
  /\ Chained(T) /\ NoneDead(T) /\ ~T.full /\ KeysOf(T) = {} /\ T.array = a
  /\ Cardinality(Positions(T)) = c
  /\ \A j : luaH_get(T, j) = IF InArray(T, j) THEN a[j] ELSE Nil

\* What resize starts from.
BareOf(a, c) == [array |-> a, node |-> [p \in 0..c - 1 |-> EmptyNode], lastfree |-> c, full |-> FALSE]

\* What resize starts from is a table.
LEMMA Bare ==
  ASSUME NEW a \in Seq(Val \cup {Nil}), NEW c \in Nat, HashOK, NEW T,
         T = BareOf(a, c)
  PROVE  BareTable(T, a, c)
<1> DEFINE P == 0..c - 1
<1>1. IsFiniteSet(P) /\ Cardinality(P) = c
  <2> DEFINE b == c - 1
             o == 0
  <2>1. o \in Int /\ b \in Int /\ (IF o > b THEN 0 ELSE b - o + 1) = c
    OBVIOUS
  <2>2. P = o..b
    OBVIOUS
  <2> HIDE DEF b, o
  <2>3. IsFiniteSet(o..b) /\ Cardinality(o..b) = IF o > b THEN 0 ELSE b - o + 1
    BY <2>1, FS_Interval
  <2>4. QED
    BY <2>1, <2>2, <2>3
<1> HIDE DEF P
<1>a. T = [array |-> a, node |-> [p \in P |-> EmptyNode], lastfree |-> c, full |-> FALSE]
  BY DEF P, BareOf
<1>2. /\ T.array = a /\ T.node = [p \in P |-> EmptyNode] /\ T.lastfree = c /\ T.full = FALSE
      /\ Positions(T) = P /\ P = 0..Cardinality(P) - 1
  BY <1>1, <1>a DEF Positions, P
<1>3. EmptyNode \in NodesAt(P) /\ EmptyNode.dead = FALSE /\ EmptyNode.key = Nil
      /\ EmptyNode.val = Nil /\ EmptyNode.next = NONE /\ NONE \notin P
  BY DEF EmptyNode, NodesAt, NONE, P
<1>4. \A p \in P : T.node[p] = EmptyNode
  BY <1>2
<1>5. Typed(T)
  <2>1. [p \in P |-> EmptyNode] \in [P -> NodesAt(P)]
    BY <1>3
  <2>2. T \in [array : Seq(Val \cup {Nil}), node : [P -> NodesAt(P)],
               lastfree : 0..Cardinality(P), full : BOOLEAN]
    BY <1>1, <1>a, <2>1
  <2>3. QED
    BY <1>1, <1>2, <1>3, <1>4, <2>2 DEF Typed
<1>6. Keyed(T) = {}
  BY <1>2, <1>3, <1>4 DEF Keyed
<1>7. Chained(T)
  <2>1. NoCircle(T) /\ SinglyLinked(T)
    BY <1>2, <1>3, <1>4 DEF NoCircle, SinglyLinked
  <2>2. Reached(T) /\ LiveFirst(T) /\ OwnFirst(T) /\ OncePerKey(T)
    BY <1>6 DEF Reached, LiveFirst, OwnFirst, OncePerKey
  <2>3. UsedFromTop(T)
    BY <1>1, <1>2 DEF UsedFromTop, P
  <2>4. QED
    BY <1>5, <2>1, <2>2, <2>3 DEF Chained
<1>8. Holds(T) = {}
  BY <1>2, <1>3, <1>4 DEF Holds
<1>9. ASSUME NEW j PROVE luaH_get(T, j) = IF InArray(T, j) THEN a[j] ELSE Nil
  <2>1. CASE InArray(T, j)
    BY <1>2, <2>1 DEF luaH_get
  <2>2. CASE ~InArray(T, j)
    BY <1>7, <1>8, <2>2, GetHeld
  <2>3. QED
    BY <2>1, <2>2
<1>10. QED
  BY <1>1, <1>2, <1>3, <1>4, <1>6, <1>7, <1>9 DEF KeysOf, NoneDead, BareTable

-----------------------------------------------------------------------------
(* Rehash: all of it.                                                      *)

\* A table of the same content, which has room for the key.
Renews(T, U, k) ==
  /\ Chained(U) /\ NoneDead(U) /\ ~U.full /\ HasRoom(U, k)
  /\ \A j : luaH_get(U, j) = luaH_get(T, j)

\* A table has finitely many fields.
LEMMA UsedFinite ==
  ASSUME NEW T, Typed(T), NEW ek
  PROVE  IsFiniteSet(Used(T, ek))
<1> DEFINE A == {k \in 1..Len(T.array) : T.array[k] # Nil}
           Q == {q \in Positions(T) : T.node[q].val # Nil}
           B == {T.node[p].key : p \in Q}
           f == [p \in Q |-> T.node[p].key]
<1>1. IsFiniteSet(A)
  <2>1. IsFiniteSet(1..Len(T.array))
    <3>1. 1 \in Int /\ Len(T.array) \in Int
      BY DEF Typed
    <3>2. QED
      BY <3>1, FS_Interval
  <2>2. A \in SUBSET (1..Len(T.array))
    OBVIOUS
  <2> HIDE DEF A
  <2>3. QED
    BY <2>1, <2>2, FS_Subset
<1>2. IsFiniteSet(Q)
  <2>1. IsFiniteSet(Positions(T)) /\ Q \in SUBSET Positions(T)
    BY DEF Typed
  <2> HIDE DEF Q
  <2>2. QED
    BY <2>1, FS_Subset
<1>3. f \in Surjection(Q, B)
  BY DEF Surjection
<1>4. IsFiniteSet(B)
  <2> HIDE DEF Q, B, f
  <2>1. QED BY <1>2, <1>3, FS_Surjection
<1>5. Used(T, ek) = (A \cup B) \cup {ek}
  BY DEF Used
<1> HIDE DEF A, B
<1>6. IsFiniteSet(A \cup B)
  BY <1>1, <1>4, FS_Union
<1>7. QED
  BY <1>5, <1>6, FS_AddElement

\* resize keeps all fields, if the nodes are enough for those that the array part does not hold.
LEMMA ResizeKeeps ==
  ASSUME NEW T, Chained(T), OnlyKeys(T), HashOK, NEW ek \in Key,
         NEW nasize \in Nat, NEW nhsize \in Nat,
         NEW K, IsFiniteSet(K), Cardinality(K) <= nhsize,
         \A k \in Used(T, ek) : k \in 1..nasize \/ k \in K
  PROVE  Renews(T, resize(T, nasize, nhsize), ek)
<1> DEFINE a == [i \in 1..nasize |-> IF InArray(T, i) THEN T.array[i] ELSE Nil]
           bare == [array |-> a, node |-> NodeVector(nhsize),
                    lastfree |-> Cardinality(DOMAIN NodeVector(nhsize)), full |-> FALSE]
           van == Vanishing(T, nasize)
           old == OldNodes(T)
           U == PutBack(bare, van)
           V == PutBack(U, old)
           get == [j \in Key |-> luaH_get(T, j)]
           P == Positions(T)
           n == Len(T.array)
           m == Cardinality(P)
<1>a. Typed(T) /\ SinglyLinked(T) /\ OncePerKey(T) /\ n \in Nat /\ T.array \in Seq(Val \cup {Nil})
  BY DEF Chained, Typed
<1>b. m \in Nat /\ P = 0..m - 1
  BY <1>a, NodeTypes
<1>c. resize(T, nasize, nhsize) = V
  BY DEF resize
<1>1. a \in Seq(Val \cup {Nil}) /\ Len(a) = nasize
  <2>1. \A i : InArray(T, i) => T.array[i] \in Val \cup {Nil}
    BY <1>a DEF InArray
  <2>2. QED
    BY <2>1
<1> HIDE DEF a
<1>2. /\ Chained(bare) /\ NoneDead(bare) /\ ~bare.full /\ KeysOf(bare) = {} /\ bare.array = a
      /\ Cardinality(K) <= Cardinality(Positions(bare))
      /\ \A j : luaH_get(bare, j) = IF InArray(bare, j) THEN a[j] ELSE Nil
  <2>1. PICK c \in Nat : c >= nhsize /\ NodeVector(nhsize) = [p \in 0..c - 1 |-> EmptyNode]
    BY NodesEnough
  <2>2. Cardinality(DOMAIN NodeVector(nhsize)) = c
    <3>1. DOMAIN NodeVector(nhsize) = 0..c - 1
      BY <2>1
    <3>2. 0 \in Int /\ c - 1 \in Int /\ (IF 0 > c - 1 THEN 0 ELSE c - 1 - 0 + 1) = c
      OBVIOUS
    <3>3. QED
      BY <3>1, <3>2, FS_Interval
  <2>3. bare = [array |-> a, node |-> [p \in 0..c - 1 |-> EmptyNode], lastfree |-> c, full |-> FALSE]
    BY <2>1, <2>2
  <2> HIDE DEF bare
  <2>4. BareTable(bare, a, c)
    BY <1>1, <2>3, Bare DEF BareOf
  <2>6. /\ Chained(bare) /\ NoneDead(bare) /\ ~bare.full /\ KeysOf(bare) = {} /\ bare.array = a
        /\ Cardinality(Positions(bare)) = c
        /\ \A j : luaH_get(bare, j) = IF InArray(bare, j) THEN a[j] ELSE Nil
    BY <2>4 DEF BareTable
  <2>5. Cardinality(K) \in Nat
    BY FS_CardinalityType
  <2>7. QED
    BY <2>1, <2>5, <2>6
<1>3. \A j : InArray(bare, j) <=> j \in 1..nasize
  <2>1. Len(bare.array) = nasize
    BY <1>1, <1>2
  <2> HIDE DEF bare
  <2>2. QED
    BY <2>1 DEF InArray
<1>4. \A j : luaH_get(bare, j) = IF j \in 1..nasize /\ InArray(T, j) THEN T.array[j] ELSE Nil
  BY <1>2, <1>3 DEF a
<1> HIDE DEF bare
<1>5. Between(bare, bare, K)
  BY <1>2 DEF Between
<1>6. \A j \in 1..n : T.array[j] # Nil => /\ j \in Key /\ get[j] = T.array[j] /\ T.array[j] \in Val
                                          /\ j \in 1..nasize \/ j \in K
  <2>1. ASSUME NEW j \in 1..n, T.array[j] # Nil PROVE j \in Key /\ j \in Used(T, ek)
    BY <2>1 DEF OnlyKeys, Used
  <2>2. ASSUME NEW j \in 1..n PROVE luaH_get(T, j) = T.array[j] /\ T.array[j] \in Val \cup {Nil}
    BY <1>a DEF luaH_get, InArray
  <2>3. QED
    BY <2>1, <2>2
<1>7. \A p \in P : T.node[p].val # Nil =>
        /\ T.node[p].key \in Key /\ get[T.node[p].key] = T.node[p].val /\ T.node[p].val \in Val
        /\ T.node[p].key \in 1..nasize \/ T.node[p].key \in K
  <2> SUFFICES ASSUME NEW p \in P, T.node[p].val # Nil
               PROVE /\ T.node[p].key \in Key /\ get[T.node[p].key] = T.node[p].val
                     /\ T.node[p].val \in Val
                     /\ T.node[p].key \in 1..nasize \/ T.node[p].key \in K
    OBVIOUS
  <2>1. p \in Keyed(T)
    BY <1>a DEF SinglyLinked, EmptyNode
  <2>2. T.node[p].key \in Key /\ T.node[p].val \in Val
    BY <1>a, <2>1, NodeTypes DEF Keyed
  <2>3. ~InArray(T, T.node[p].key)
    BY <1>a, <2>1 DEF OncePerKey
  <2>4. <<T.node[p].key, T.node[p].val>> \in Holds(T)
    BY DEF Holds
  <2>5. luaH_get(T, T.node[p].key) = T.node[p].val
    BY <2>3, <2>4, GetHeld
  <2>6. T.node[p].key \in Used(T, ek)
    BY DEF Used
  <2>7. QED
    BY <2>2, <2>5, <2>6
<1> HIDE DEF get
\* The slots that the array part loses.
<1>8. /\ Len(van) \in Nat /\ Len(van) = (IF n > nasize THEN n - nasize ELSE 0)
      /\ \A i \in 1..Len(van) : /\ nasize + i \in 1..n
                                /\ van[i][1] = nasize + i /\ van[i][2] = T.array[nasize + i]
  <2> DEFINE k == IF n > nasize THEN n - nasize ELSE 0
  <2>1. k \in Nat /\ \A i \in 1..k : nasize + i \in 1..n
    BY <1>a
  <2>2. van = [i \in 1..k |-> <<nasize + i, T.array[nasize + i]>>]
    BY DEF Vanishing
  <2>3. Len(van) = k
    <3> HIDE DEF k
    <3>0. van = [i \in 1..k |-> van[i]] /\ DOMAIN van = 1..k
      BY <2>2
    <3> HIDE DEF van
    <3>1. van \in [1..k -> {van[i] : i \in 1..k}]
      BY <3>0
    <3>2. van \in Seq({van[i] : i \in 1..k})
      BY <2>1, <3>1
    <3>3. QED
      BY <2>1, <3>0, <3>2
  <2> HIDE DEF van, k
  <2>4. \A i \in 1..k : van[i] = <<nasize + i, T.array[nasize + i]>>
    BY <2>2
  <2>5. QED
    BY <2>1, <2>3, <2>4 DEF k
<1> HIDE DEF van
<1>9. Returns(bare, K, van, get)
  BY <1>3, <1>6, <1>8 DEF Returns
<1>10. Between(bare, U, K) /\ Restored(bare, U, van, Len(van), get)
  BY <1>2, <1>5, <1>9, PutsBack
<1> HIDE DEF U
\* The nodes of the old hash part.
<1>11. /\ Len(old) = m
       /\ \A i \in 1..m : /\ m - i \in P
                          /\ old[i][1] = T.node[m - i].key /\ old[i][2] = T.node[m - i].val
  <2>1. old = [i \in 1..m |-> <<T.node[m - i].key, T.node[m - i].val>>]
    BY DEF OldNodes
  <2>2. \A i \in 1..m : m - i \in P
    BY <1>b
  <2> HIDE DEF m, old
  <2>3. Len(old) = m
    <3>1. old \in Seq({<<T.node[m - i].key, T.node[m - i].val>> : i \in 1..m})
      BY <1>b, <2>1
    <3>2. DOMAIN old = 1..m
      BY <2>1
    <3>3. QED
      BY <1>b, <3>1, <3>2
  <2>4. \A i \in 1..m : old[i] = <<T.node[m - i].key, T.node[m - i].val>>
    BY <2>1
  <2>5. QED
    BY <2>2, <2>3, <2>4
<1> HIDE DEF old
<1>12. Between(U, U, K) /\ Cardinality(K) <= Cardinality(Positions(U))
       /\ \A j : InArray(U, j) <=> j \in 1..nasize
  <2>1. Positions(U) = Positions(bare) /\ Len(U.array) = Len(bare.array)
    BY <1>10 DEF Between
  <2>2. Cardinality(Positions(U)) = Cardinality(Positions(bare))
    BY <2>1
  <2>3. \A j : InArray(U, j) <=> InArray(bare, j)
    BY <2>1 DEF InArray
  <2>4. QED
    BY <1>2, <1>3, <1>10, <2>2, <2>3 DEF Between
<1>13. Returns(U, K, old, get)
  BY <1>b, <1>7, <1>11, <1>12 DEF Returns
<1>14. Between(U, V, K) /\ Restored(U, V, old, Len(old), get)
  BY <1>12, <1>13, PutsBack
<1> HIDE DEF V
<1>15. HasRoom(V, ek)
  <2>1. /\ Chained(V) /\ NoneDead(V) /\ KeysOf(V) \subseteq K
        /\ Cardinality(K) <= Cardinality(Positions(V))
        /\ \A j : InArray(V, j) <=> InArray(U, j)
    BY <1>12, <1>14 DEF Between, InArray
  <2>2. ek \in Used(T, ek)
    BY DEF Used
  <2>3. ~InArray(V, ek) => ek \in K
    BY <1>12, <2>1, <2>2
  <2>4. QED
    BY <2>1, <2>3, RoomForAll
<1>16. ASSUME NEW j PROVE luaH_get(V, j) = luaH_get(T, j)
  <2>1. luaH_get(V, j) = IF Has(old, m, j) THEN get[j] ELSE luaH_get(U, j)
    BY <1>11, <1>14 DEF Restored
  <2>2. luaH_get(U, j) = IF Has(van, Len(van), j) THEN get[j] ELSE luaH_get(bare, j)
    BY <1>10 DEF Restored
  <2>3. Has(old, m, j) => j \in Key
    BY <1>7, <1>11 DEF Has
  <2>4. Has(van, Len(van), j) => j \in Key
    BY <1>6, <1>8 DEF Has
  <2>5. j \in Key => get[j] = luaH_get(T, j)
    BY DEF get
  <2>6. CASE Has(old, m, j) \/ Has(van, Len(van), j)
    BY <2>1, <2>2, <2>3, <2>4, <2>5, <2>6
  <2>7. CASE ~Has(old, m, j) /\ ~Has(van, Len(van), j)
    <3>1. luaH_get(V, j) = IF j \in 1..nasize /\ InArray(T, j) THEN T.array[j] ELSE Nil
      BY <1>4, <2>1, <2>2, <2>7
    <3>2. CASE InArray(T, j) /\ j \in 1..nasize
      BY <3>1, <3>2 DEF luaH_get
    <3>3. CASE InArray(T, j) /\ j \notin 1..nasize
      <4>1. j \in 1..n /\ n > nasize /\ j - nasize \in 1..n - nasize /\ nasize + (j - nasize) = j
        BY <1>a, <3>3 DEF InArray
      <4>2. j - nasize \in 1..Len(van)
        BY <1>8, <4>1
      <4>3. T.array[j] = Nil
        BY <1>8, <2>7, <4>1, <4>2 DEF Has
      <4>4. QED
        BY <3>1, <3>3, <4>3 DEF luaH_get
    <3>4. CASE ~InArray(T, j)
      <4>1. SUFFICES ASSUME luaH_get(T, j) # Nil PROVE FALSE
        BY <3>1, <3>4
      <4>2. <<j, luaH_get(T, j)>> \in Holds(T)
        BY <3>4, <4>1, GetHeld
      <4>3. PICK p \in P : T.node[p].val # Nil /\ T.node[p].key = j
        BY <4>2 DEF Holds
      <4>4. m - p \in 1..m /\ m - (m - p) = p
        BY <1>b
      <4>5. Has(old, m, j)
        BY <1>11, <4>3, <4>4 DEF Has
      <4>6. QED
        BY <2>7, <4>5
    <3>5. QED
      BY <3>2, <3>3, <3>4
  <2>8. QED
    BY <2>6, <2>7
<1>17. QED
  BY <1>14, <1>15, <1>16, <1>c DEF Renews, Between

\* rehash makes enough nodes for its fields and for the new key.
LEMMA RehashKeeps ==
  ASSUME NEW T, Chained(T), OnlyKeys(T), HashOK, NEW ek \in Key
  PROVE  Renews(T, rehash(T, ek), ek)
<1> DEFINE used == Used(T, ek)
           ints == {k \in used : k \in Nat \ {0}}
           nasize == computesizes(ints)
           inside == {k \in ints : k <= nasize}
           na == Cardinality(inside)
           K == used \ inside
<1>1. IsFiniteSet(used)
  BY UsedFinite DEF Chained
<1>2. IsFiniteSet(ints) /\ IsFiniteSet(inside)
  <2>1. ints \in SUBSET used /\ inside \in SUBSET used
    OBVIOUS
  <2> HIDE DEF ints, inside, used
  <2>2. QED
    BY <1>1, <2>1, FS_Subset
<1>3. nasize \in Nat
  <2> HIDE DEF ints
  <2>1. QED BY <1>2, SizeIsNat
<1>4. IsFiniteSet(K) /\ Cardinality(K) = Cardinality(used) - na /\ Cardinality(K) \in Nat
  <2>1. used \cap inside = inside
    OBVIOUS
  <2> HIDE DEF used, inside
  <2>2. QED
    BY <1>1, <2>1, FS_Difference, FS_CardinalityType
<1>5. \A k \in used : k \in 1..nasize \/ k \in K
  <2> HIDE DEF nasize
  <2>1. \A k \in inside : k \in 1..nasize
    BY <1>3
  <2>2. QED
    BY <2>1
<1>6. rehash(T, ek) = resize(T, nasize, Cardinality(used) - na)
  BY DEF rehash
<1> DEFINE nhsize == Cardinality(used) - na
<1>7. nhsize \in Nat /\ Cardinality(K) <= nhsize
  BY <1>4
<1> HIDE DEF nhsize, K, na, nasize, ints, inside
<1>8. Renews(T, resize(T, nasize, nhsize), ek)
  BY <1>3, <1>4, <1>5, <1>7, ResizeKeeps
<1>9. QED
  BY <1>6, <1>8 DEF nhsize

-----------------------------------------------------------------------------
(* The steps.                                                              *)

\* What a change of one field leaves true.
Sets(T, U, k, v) ==
  /\ Chained(U) /\ OnlyKeys(U) /\ ~U.full
  /\ \A j : luaH_get(U, j) = IF j = k THEN v ELSE luaH_get(T, j)

\* OnlyKeys, in terms of luaH_get: whatever has a value is a key.
LEMMA KeysGet ==
  ASSUME NEW T, Chained(T), HashOK
  PROVE  OnlyKeys(T) <=> \A j : luaH_get(T, j) # Nil => j \in Key
<1>1. ASSUME NEW j, ~InArray(T, j) PROVE luaH_get(T, j) # Nil => j \in Key
  BY <1>1, GetHeld
<1>2. \A j : InArray(T, j) => luaH_get(T, j) = T.array[j]
  BY DEF luaH_get
<1>3. QED
  BY <1>1, <1>2 DEF OnlyKeys, InArray

\* An assignment to a key keeps it so.
LEMMA KeysStay ==
  ASSUME NEW T, NEW U, Chained(T), Chained(U), HashOK, OnlyKeys(T), NEW k \in Key, NEW v,
         \A j : luaH_get(U, j) = IF j = k THEN v ELSE luaH_get(T, j)
  PROVE  OnlyKeys(U)
<1>1. \A j : luaH_get(T, j) # Nil => j \in Key
  BY KeysGet
<1>2. \A j : luaH_get(U, j) # Nil => j \in Key
  BY <1>1
<1>3. QED
  BY <1>2, KeysGet

\* luaH_set, with or without a rehash, changes the field of the key and no other.
LEMMA SetKeeps ==
  ASSUME NEW T, Chained(T), OnlyKeys(T), HashOK, ~T.full, NEW k \in Key, NEW v \in Val \cup {Nil}
  PROVE  Sets(T, Assign(IF HasRoom(T, k) THEN T ELSE rehash(T, k), k, v), k, v)
<1> DEFINE R == IF HasRoom(T, k) THEN T ELSE rehash(T, k)
           U == Assign(R, k, v)
<1>1. Chained(R) /\ ~R.full /\ HasRoom(R, k) /\ \A j : luaH_get(R, j) = luaH_get(T, j)
  <2>1. CASE HasRoom(T, k)
    BY <2>1
  <2>2. CASE ~HasRoom(T, k)
    <3>1. Renews(T, rehash(T, k), k)
      BY RehashKeeps
    <3>2. R = rehash(T, k)
      BY <2>2
    <3> HIDE DEF R
    <3>3. QED
      BY <3>1, <3>2 DEF Renews
  <2>3. QED
    BY <2>1, <2>2
<1> HIDE DEF R
<1>2. Assigns(R, U, k, v)
  BY <1>1, AssignKeeps
<1> HIDE DEF U
<1>3. Chained(U) /\ ~U.full /\ \A j : luaH_get(U, j) = IF j = k THEN v ELSE luaH_get(T, j)
  BY <1>1, <1>2 DEF Assigns
<1>4. OnlyKeys(U)
  BY <1>3, KeysStay
<1>5. QED
  BY <1>3, <1>4 DEF Sets, U, R

\* Keys without values marked dead.
Marked(T) ==
  [T EXCEPT !.node = [p \in Positions(T) |->
     IF T.node[p].val = Nil /\ T.node[p].key \in ObjectKeys
     THEN [T.node[p] EXCEPT !.dead = TRUE] ELSE T.node[p]]]

\* Marking keys dead changes no field.
LEMMA MarkKeeps ==
  ASSUME NEW T, Chained(T), OnlyKeys(T), HashOK, ~T.full
  PROVE  /\ Chained(Marked(T)) /\ OnlyKeys(Marked(T)) /\ ~Marked(T).full
         /\ \A j : luaH_get(Marked(T), j) = luaH_get(T, j)
         /\ SameKeys(T, Marked(T))
<1> DEFINE U == Marked(T)
           P == Positions(T)
           f == [p \in P |-> IF T.node[p].val = Nil /\ T.node[p].key \in ObjectKeys
                             THEN [T.node[p] EXCEPT !.dead = TRUE] ELSE T.node[p]]
           R == [array : Seq(Val \cup {Nil}), node : [P -> NodesAt(P)],
                 lastfree : 0..Cardinality(P), full : BOOLEAN]
<1>a. Typed(T) /\ T \in R
  BY DEF Chained, Typed
<1>1. ASSUME NEW p \in P
      PROVE  /\ f[p] \in NodesAt(P)
             /\ f[p].key = T.node[p].key /\ f[p].next = T.node[p].next /\ f[p].val = T.node[p].val
             /\ T.node[p].dead => f[p].dead
             /\ f[p].dead => f[p].key \in ObjectKeys /\ f[p].val = Nil
             /\ T.node[p].key = Nil => f[p] = T.node[p]
  <2>1. T.node[p] \in NodesAt(P) /\ (T.node[p].dead => T.node[p].key \in ObjectKeys /\ T.node[p].val = Nil)
    BY <1>a, NodeTypes
  <2>2. CASE T.node[p].val = Nil /\ T.node[p].key \in ObjectKeys
    <3>1. f[p] = [T.node[p] EXCEPT !.dead = TRUE] /\ T.node[p].key # Nil
      BY <2>2, KeyAssumption
    <3> HIDE DEF f
    <3>2. QED
      BY <2>1, <2>2, <3>1 DEF NodesAt
  <2>3. CASE ~(T.node[p].val = Nil /\ T.node[p].key \in ObjectKeys)
    BY <2>1, <2>3
  <2>4. QED
    BY <2>2, <2>3
<1>2. f \in [P -> NodesAt(P)]
  BY <1>1
<1>3. U = [T EXCEPT !.node = f]
  BY DEF Marked
<1> HIDE DEF f, U, P
<1>4. U \in R /\ U.node = f /\ U.array = T.array /\ U.lastfree = T.lastfree /\ U.full = T.full
  BY <1>a, <1>2, <1>3
<1>5. Positions(U) = P
  BY <1>2, <1>4 DEF Positions
<1>6. Typed(U)
  BY <1>a, <1>1, <1>4, <1>5 DEF Typed, P
<1>7. SameKeys(T, U)
  BY <1>1, <1>4, <1>5 DEF SameKeys, P, Keyed
<1>8. Chained(U)
  BY <1>6, <1>7, ValuesOnly
<1>9. Holds(U) = Holds(T)
  BY <1>1, <1>4, <1>5 DEF Holds, P
<1>10. \A j : luaH_get(U, j) = luaH_get(T, j)
  BY <1>4, <1>8, <1>9, SameFields
<1>11. OnlyKeys(U)
  BY <1>4 DEF OnlyKeys
<1>12. QED
  BY <1>4, <1>7, <1>8, <1>10, <1>11 DEF U

\* A field of a weak table cleared.
Cleared(T, k) ==
  IF InArray(T, k) THEN [T EXCEPT !.array[k] = Nil]
  ELSE [T EXCEPT !.node[node(T, k)] = [@ EXCEPT !.val = Nil, !.dead = k \in ObjectKeys]]

\* Clearing a field of a weak table changes that field and no other.
LEMMA ClearKeeps ==
  ASSUME NEW T, Chained(T), OnlyKeys(T), HashOK, ~T.full, NEW k \in Key, luaH_get(T, k) # Nil
  PROVE  Sets(T, Cleared(T, k), k, Nil) /\ SameKeys(T, Cleared(T, k))
<1> DEFINE U == Cleared(T, k)
           p == node(T, k)
           dead == k \in ObjectKeys
<1>1. CASE InArray(T, k)
  <2>1. U = [T EXCEPT !.array[k] = Nil]
    BY <1>1 DEF Cleared
  <2>2. Assigns(T, U, k, Nil) /\ SameKeys(T, U)
    BY <1>1, <2>1, StoreInArray
  <2> HIDE DEF U
  <2>3. Chained(U) /\ ~U.full /\ \A j : luaH_get(U, j) = IF j = k THEN Nil ELSE luaH_get(T, j)
    BY <2>2 DEF Assigns
  <2>4. OnlyKeys(U)
    BY <2>3, KeysStay
  <2>5. QED
    BY <2>2, <2>3, <2>4 DEF Sets, U
<1>2. CASE ~InArray(T, k)
  <2>1. p \in With(T, k, FALSE)
    BY <1>2, GetHeld
  <2>2. U = Put(T, p, Nil, dead)
    BY <1>2 DEF Cleared, Put
  <2>3. dead \in BOOLEAN /\ (dead => k \in ObjectKeys)
    OBVIOUS
  <2> DEFINE nil == Nil
  <2>4. nil \in Val \cup {Nil} /\ nil = Nil
    OBVIOUS
  <2> HIDE DEF p, dead, nil
  <2>5. Stores(T, Put(T, p, nil, dead), k, nil) /\ SameKeys(T, Put(T, p, nil, dead))
    BY <2>1, <2>3, <2>4, StoreInNode
  <2> HIDE DEF U
  <2>6. Chained(U) /\ ~U.full /\ \A j : luaH_get(U, j) = IF j = k THEN Nil ELSE luaH_get(T, j)
    BY <2>2, <2>4, <2>5 DEF Stores
  <2>7. OnlyKeys(U)
    BY <2>6, KeysStay
  <2>8. QED
    BY <2>2, <2>4, <2>5, <2>6, <2>7 DEF Sets, U
<1>3. QED
  BY <1>1, <1>2

\* An assignment to a field that is there moves no key.
LEMMA SetInPlace ==
  ASSUME NEW T, Chained(T), HashOK, ~T.full, NEW k \in Key, NEW v \in Val \cup {Nil},
         luaH_get(T, k) # Nil
  PROVE  SameKeys(T, Assign(IF HasRoom(T, k) THEN T ELSE rehash(T, k), k, v))
<1>1. InArray(T, k) \/ (node(T, k) \in With(T, k, FALSE) /\ node(T, k) # NONE)
  <2>1. SUFFICES ASSUME ~InArray(T, k) PROVE node(T, k) \in With(T, k, FALSE) /\ node(T, k) # NONE
    OBVIOUS
  <2>2. node(T, k) \in With(T, k, FALSE)
    BY <2>1, GetHeld
  <2>3. NONE \notin Positions(T)
    BY NodeTypes DEF Chained
  <2>4. QED
    BY <2>2, <2>3 DEF With
<1>2. Assign(IF HasRoom(T, k) THEN T ELSE rehash(T, k), k, v) = Store(T, k, v)
  BY <1>1 DEF HasRoom, Assign
<1>3. SameKeys(T, Store(T, k, v))
  BY <1>1, StoreFinds
<1>4. QED
  BY <1>2, <1>3

\* The hashes are numbers.
LEMMA HashTyped == TableTypeOK => HashOK
BY HashAssumption DEF TableTypeOK, HashOK

\* The hash of a key never changes.
LEMMA SameHash ==
  ASSUME hash' = hash, Chained(t'), HashOK
  PROVE  Chained(t)'
<1>1. \A k : mainposition(t, k)' = mainposition(t', k)
  BY DEF mainposition
<1>2. \A p : Main(t, p)' = Main(t', p)
  BY <1>1 DEF Main
<1>3. Positions(t)' = Positions(t') /\ Keyed(t)' = Keyed(t')
  BY DEF Positions, Keyed
<1>4. Reached(t)'
  BY <1>2, <1>3 DEF Chained, Reached
<1>8. LiveFirst(t)'
  BY <1>2, <1>3 DEF Chained, LiveFirst
<1>5. OwnFirst(t)'
  BY <1>1, <1>2, <1>3 DEF Chained, OwnFirst, Main
<1>6. Typed(t)' /\ NoCircle(t)' /\ SinglyLinked(t)' /\ OncePerKey(t)' /\ UsedFromTop(t)'
  BY DEF Chained
<1>7. QED
  BY <1>4, <1>5, <1>6, <1>8 DEF Chained

\* The traversal's types.
IterOK ==
  /\ iter \in [state : {"none", "on", "done", "undefined", "error"}, key : Key \cup {Nil}, seen : SUBSET Key]

\* The invariant, in the parts that the steps keep.
LEMMA InvParts ==
  TableInv <=> /\ hash \in Hashes /\ IterOK
               /\ Chained(t) /\ OnlyKeys(t) /\ ~t.full
BY DEF TableInv, TableTypeOK, IterOK, Chained

\* A new table ...
LEMMA InitInv == TableInit => TableInv
<1> SUFFICES ASSUME TableInit PROVE TableInv
  OBVIOUS
<1>1. hash \in Hashes /\ IterOK
  BY DEF TableInit, IterOK
<1>2. HashOK
  BY <1>1, HashAssumption DEF HashOK
<1>3. t = BareOf(<<>>, 0)
  BY DEF TableInit, BareOf, NodeVector
<1> DEFINE a == <<>>
           T == t
<1>4. a \in Seq(Val \cup {Nil}) /\ 0 \in Nat /\ Len(a) = 0
  OBVIOUS
<1> HIDE DEF a, T
<1>5. T = BareOf(a, 0)
  BY <1>3 DEF a, T
<1>6. BareTable(T, a, 0)
  BY <1>2, <1>4, <1>5, Bare
<1>7. Chained(T) /\ OnlyKeys(T) /\ ~T.full
  BY <1>4, <1>6 DEF BareTable, OnlyKeys
<1>8. QED
  BY <1>1, <1>7, InvParts DEF T

\* What luaH_next returns is a key.
LEMMA NextIsKey ==
  ASSUME NEW T, Chained(T), OnlyKeys(T), NEW k, Following(T, k) # {}
  PROVE  Entries(T)[Min(Following(T, k))] \in Key
<1> DEFINE n == Len(T.array)
           A == {j \in 0..n - 1 : T.array[j + 1] # Nil}
           Q == {q \in Positions(T) : T.node[q].val # Nil}
           B == {n + p : p \in Q}
           F == Following(T, k)
           i == Min(F)
<1>1. Typed(T) /\ n \in Nat /\ SinglyLinked(T)
  BY DEF Chained, Typed
<1>2. Cardinality(Positions(T)) \in Nat /\ Positions(T) = 0..Cardinality(Positions(T)) - 1
  BY <1>1, NodeTypes
<1>3. Entries(T) = [j \in A \cup B |-> IF j < n THEN j + 1 ELSE T.node[j - n].key]
  BY DEF Entries
<1>4. DOMAIN Entries(T) = A \cup B
  BY <1>3
<1>5. \A j \in A \cup B : Entries(T)[j] = IF j < n THEN j + 1 ELSE T.node[j - n].key
  BY <1>3
<1>6. F \in SUBSET Nat /\ F \subseteq A \cup B
  <2>1. Q \in SUBSET Nat
    BY <1>2
  <2>2. B \in SUBSET Nat
    BY <1>1, <2>1
  <2>3. A \in SUBSET Nat
    BY <1>1
  <2>4. F \subseteq DOMAIN Entries(T)
    BY DEF Following
  <2>5. QED
    BY <1>4, <2>2, <2>3, <2>4
<1> HIDE DEF F
<1>7. i \in F
  <2>1. F # {}
    BY DEF F
  <2>2. \E x \in F : \A y \in F : x <= y
    BY <1>6, <2>1, LeastExists
  <2>3. QED
    BY <2>2 DEF Min
<1> HIDE DEF i
<1>8. CASE i \in A
  <2>1. i + 1 \in 1..Len(T.array) /\ T.array[i + 1] # Nil
    BY <1>1, <1>8
  <2>2. i + 1 \in Key /\ i < n
    BY <1>1, <1>8, <2>1 DEF OnlyKeys
  <2>3. QED
    BY <1>5, <1>8, <2>2 DEF i, F
<1>9. CASE i \notin A
  <2>1. i \in B
    BY <1>6, <1>7, <1>9
  <2>2. PICK p \in Q : i = n + p
    BY <2>1
  <2>3. i - n = p /\ p \in Positions(T) /\ T.node[p].val # Nil /\ ~(i < n)
    BY <1>1, <1>2, <2>2
  <2>4. p \in Keyed(T)
    BY <1>1, <2>3 DEF SinglyLinked, EmptyNode
  <2>5. T.node[p].key \in Key
    BY <1>1, <2>3, <2>4, NodeTypes DEF Keyed
  <2>6. Entries(T)[i] = T.node[p].key
    BY <1>5, <1>9, <2>1, <2>3
  <2>7. QED
    BY <2>5, <2>6 DEF i, F
<1>10. QED
  BY <1>8, <1>9

\* ... and every step of program and collector keep the invariant.
LEMMA NextInv == TableInv /\ [TableNext]_tablevars => TableInv'
<1> SUFFICES ASSUME TableInv, [TableNext]_tablevars PROVE TableInv'
  OBVIOUS
<1>1. hash \in Hashes /\ IterOK /\ Chained(t) /\ OnlyKeys(t) /\ ~t.full /\ HashOK
  BY InvParts, HashTyped DEF TableInv
\* A step of the program or the collector changes the table ...
<1>2. ASSUME hash' = hash, Chained(t'), OnlyKeys(t'), ~t'.full, IterOK' PROVE TableInv'
  <2>1. Chained(t)'
    BY <1>1, <1>2, SameHash
  <2>2. OnlyKeys(t)' /\ ~(t.full)' /\ (hash \in Hashes)'
    BY <1>1, <1>2
  <2>3. QED
    BY <1>2, <2>1, <2>2 DEF TableInv, TableTypeOK, IterOK, Chained
\* ... or not.
<1>3. ASSUME hash' = hash, t' = t, IterOK' PROVE TableInv'
  <2>1. Chained(t') /\ OnlyKeys(t') /\ ~t'.full
    BY <1>1, <1>3
  <2>2. QED
    BY <1>2, <1>3, <2>1
<1>4. ASSUME NEW k \in Key, NEW v \in Val \cup {Nil}, Set(k, v) PROVE TableInv'
  <2>1. hash' = hash /\ t' = Assign(IF HasRoom(t, k) THEN t ELSE rehash(t, k), k, v)
    BY <1>4 DEF Set
  <2>2. Sets(t, t', k, v)
    BY <1>1, <2>1, SetKeeps
  <2>3. IterOK'
    BY <1>1, <1>4 DEF Set, IterOK
  <2>4. QED
    BY <1>2, <2>1, <2>2, <2>3 DEF Sets
<1>5. ASSUME MarkDead PROVE TableInv'
  <2>1. hash' = hash /\ t' = Marked(t) /\ iter' = iter
    BY <1>5 DEF MarkDead, Marked
  <2>2. Chained(t') /\ OnlyKeys(t') /\ ~t'.full
    BY <1>1, <2>1, MarkKeeps
  <2>3. IterOK'
    BY <1>1, <2>1 DEF IterOK
  <2>4. QED
    BY <1>2, <2>1, <2>2, <2>3
<1>6. ASSUME NEW k \in Key, ClearWeak(k) PROVE TableInv'
  <2>1. hash' = hash /\ t' = Cleared(t, k) /\ iter' = iter /\ luaH_get(t, k) # Nil
    BY <1>6 DEF ClearWeak, Cleared
  <2>2. Sets(t, t', k, Nil)
    BY <1>1, <2>1, ClearKeeps
  <2>3. IterOK'
    BY <1>1, <2>1 DEF IterOK
  <2>4. QED
    BY <1>2, <2>1, <2>2, <2>3 DEF Sets
<1>7. ASSUME NextField PROVE TableInv'
  <2> DEFINE k == Entries(t)[Min(Following(t, iter.key))]
  <2>1. k \in Key
    BY <1>1, <1>7, NextIsKey DEF NextField
  <2>2. /\ hash' = hash /\ t' = t
        /\ iter' = IF iter.state = "undefined" THEN [iter EXCEPT !.key = k]
                   ELSE [state |-> "on", key |-> k, seen |-> iter.seen \cup {k}]
    BY <1>7 DEF NextField
  <2> HIDE DEF k
  <2>3. IterOK'
    BY <1>1, <2>1, <2>2 DEF IterOK
  <2>4. QED
    BY <1>3, <2>2, <2>3
<1>8. ASSUME NextNil \/ NextInvalid \/ Break PROVE TableInv'
  <2>1. hash' = hash /\ t' = t /\ IterOK'
    BY <1>8 DEF NextNil, NextInvalid, Break, IterOK
  <2>2. QED
    BY <1>3, <2>1
<1>9. CASE UNCHANGED tablevars
  <2>1. hash' = hash /\ t' = t /\ IterOK'
    BY <1>1, <1>9 DEF tablevars, IterOK
  <2>2. QED
    BY <1>3, <2>1
<1>10. QED
  BY <1>4, <1>5, <1>6, <1>7, <1>8, <1>9 DEF TableNext

-----------------------------------------------------------------------------
(* The properties.                                                         *)

\* The invariant implies ChainsOK, ...
LEMMA InvChains == TableInv => ChainsOK
<1> SUFFICES ASSUME TableInv PROVE ChainsOK
  OBVIOUS
<1>1. TableTypeOK /\ Chained(t) /\ HashOK
  BY HashTyped DEF TableInv
<1>2. ASSUME NEW p \in Positions(t), t.node[p].val # Nil
      PROVE  ~InArray(t, t.node[p].key) /\ node(t, t.node[p].key) = p
  <2>1. p \in Keyed(t) /\ ~t.node[p].dead
    BY <1>1, <1>2 DEF Chained, SinglyLinked, EmptyNode, Typed
  <2>2. t.node[p].key \in Key
    BY <1>1, <1>2, <2>1, NodeTypes DEF Keyed, Chained
  <2>3. p \in With(t, t.node[p].key, FALSE)
    BY <1>2, <2>1 DEF With
  <2>4. node(t, t.node[p].key) = p
    BY <1>1, <2>2, <2>3, NodeFinds
  <2>5. ~InArray(t, t.node[p].key)
    BY <1>1, <2>1 DEF Chained, OncePerKey
  <2>6. QED
    BY <2>4, <2>5
<1>3. QED
  BY <1>1, <1>2 DEF ChainsOK, Chained

\* ... MainInvariant, ...
LEMMA InvMain == TableInv => MainInvariant
<1> SUFFICES ASSUME TableInv, NEW p \in Positions(t), t.node[p].val # Nil
             PROVE  mainposition(t, t.node[mainposition(t, t.node[p].key)].key)
                      = mainposition(t, t.node[p].key)
  BY DEF MainInvariant
<1>1. p \in Keyed(t)
  BY DEF TableInv, Chained, SinglyLinked, EmptyNode
<1>2. QED
  BY <1>1 DEF TableInv, Chained, OwnFirst, Main

\* ... NoneSkipped and RoomAfterRehash.
LEMMA InvSkips == TableInv => NoneSkipped /\ RoomAfterRehash
BY DEF TableInv, Chained, UsedFromTop, Keyed, NoneSkipped, RoomAfterRehash

\* TableInv is inductive: what luaH_set, rehash, the collector and luaH_next leave
\* true of every table, of any size, with any hash function.
THEOREM TableInvariant == TableSpec => []TableInv
<1>1. TableInit => TableInv
  BY InitInv
<1>2. TableInv /\ [TableNext]_tablevars => TableInv'
  BY NextInv
<1>3. QED
  BY <1>1, <1>2, PTL DEF TableSpec

\* ChainsOK: whatever keys are set, cleared and marked dead, in whatever order
\* and by whatever hashes, no chain runs in a circle, and luaH_get finds every
\* field of the hash part (newkey, resize).
THEOREM TableChains == TableSpec => []ChainsOK
<1>1. TableInv => ChainsOK
  BY InvChains
<1>2. QED
  BY <1>1, TableInvariant, PTL

\* MainInvariant: a node that is not in its main position collides with one
\* that is in its own (newkey's choice of the node that moves).
THEOREM TableMain == TableSpec => []MainInvariant
<1>1. TableInv => MainInvariant
  BY InvMain
<1>2. QED
  BY <1>1, TableInvariant, PTL

\* RoomAfterRehash: what rehash puts back and the new key never need another
\* rehash (rehash, computesizes, resize).
THEOREM TableRoom == TableSpec => []RoomAfterRehash
<1>1. TableInv => RoomAfterRehash
  BY InvSkips
<1>2. QED
  BY <1>1, TableInvariant, PTL

\* NoneSkipped: getfreepos leaves no unused node behind (lastfree).
THEOREM TableFree == TableSpec => []NoneSkipped
<1>1. TableInv => NoneSkipped
  BY InvSkips
<1>2. QED
  BY <1>1, TableInvariant, PTL

-----------------------------------------------------------------------------
(* The length.                                                             *)

\* Where luaH_getn may start, and what it returns.
Present(T, i) == i = 0 \/ luaH_get(T, i) # Nil
Border(T, n)  == n \in Nat /\ Present(T, n) /\ luaH_get(T, n + 1) = Nil

\* One step of the binary search.
Halved(T, q) ==
  LET m == (q[1] + q[2]) \div 2 IN
  IF q[2] - q[1] <= 1 THEN q
  ELSE IF luaH_get(T, m) = Nil THEN <<q[1], m>> ELSE <<m, q[2]>>

\* Between q[1] and q[2] there is a border.
Surrounds(T, q) ==
  q \in Nat \X Nat /\ q[1] < q[2] /\ Present(T, q[1]) /\ luaH_get(T, q[2]) = Nil

\* Halving the interval keeps a border in it.
LEMMA HalvedSurrounds ==
  ASSUME NEW T, NEW q, Surrounds(T, q)
  PROVE  /\ Surrounds(T, Halved(T, q))
         /\ q[2] - q[1] <= 1 \/ Halved(T, q)[2] - Halved(T, q)[1] < q[2] - q[1]
<1> DEFINE m == (q[1] + q[2]) \div 2
<1>1. q[1] \in Nat /\ q[2] \in Nat /\ q[1] < q[2] /\ Present(T, q[1]) /\ luaH_get(T, q[2]) = Nil
  BY DEF Surrounds
<1>2. CASE q[2] - q[1] <= 1
  BY <1>2 DEF Halved
<1>3. CASE ~(q[2] - q[1] <= 1)
  <2>1. m \in Nat /\ q[1] < m /\ m < q[2]
    BY <1>1, <1>3
  <2>2. Halved(T, q) = IF luaH_get(T, m) = Nil THEN <<q[1], m>> ELSE <<m, q[2]>>
    BY <1>3 DEF Halved
  <2> HIDE DEF m
  <2>3. CASE luaH_get(T, m) = Nil
    BY <1>1, <2>1, <2>2, <2>3 DEF Surrounds
  <2>4. CASE luaH_get(T, m) # Nil
    <3>1. Present(T, m)
      BY <2>4 DEF Present
    <3>2. QED
      BY <1>1, <2>1, <2>2, <2>4, <3>1 DEF Surrounds
  <2>5. QED
    BY <2>3, <2>4
<1>4. QED
  BY <1>2, <1>3

\* The binary search finds a border.
LEMMA SearchFinds ==
  ASSUME NEW T, NEW i \in Nat, NEW j \in Nat, i < j, Present(T, i), luaH_get(T, j) = Nil
  PROVE  Border(T, binsearch(T, i, j))
<1> DEFINE S == {q \in Nat \X Nat : Surrounds(T, q)}
           step == [n \in 1..j |-> [q \in S |-> Halved(T, q)]]
           first == <<i, j>>
           Body(f) == [n \in 0..j |->
                         LET q == f[n - 1]
                             m == (q[1] + q[2]) \div 2
                         IN  IF n = 0 THEN <<i, j>>
                             ELSE IF q[2] - q[1] <= 1 THEN q
                             ELSE IF luaH_get(T, m) = Nil THEN <<q[1], m>> ELSE <<m, q[2]>>]
           between == CHOOSE f : f = Body(f)
<1>1. \A q : q \in S <=> Surrounds(T, q)
  BY DEF Surrounds
<1>2. first \in S
  BY DEF Surrounds
<1> HIDE DEF S
<1>3. \A q \in S : Halved(T, q) \in S
  BY <1>1, HalvedSurrounds
<1>4. step \in [1..j -> [S -> S]] /\ \A n \in 1..j, q \in S : step[n][q] = Halved(T, q)
  BY <1>3
<1> HIDE DEF step
<1>5. PICK g \in [0..j -> S] : g[0] = first /\ \A n \in 1..j : g[n] = step[n][g[n - 1]]
  <2> HIDE DEF first
  <2>1. Loops(j, S, first, step)
    BY <1>2, <1>4, RangeRecursion
  <2>2. QED
    BY <2>1 DEF Loops
<1>6. \A n \in 1..j : g[n] = Halved(T, g[n - 1])
  <2>1. \A n \in 1..j : n - 1 \in 0..j
    OBVIOUS
  <2>2. QED
    BY <1>4, <1>5, <2>1
<1>7. g = Body(g)
  <2>1. g = [n \in 0..j |-> g[n]]
    BY <1>5
  <2>2. ASSUME NEW n \in 0..j, n # 0
        PROVE  g[n] = LET q == g[n - 1]
                          m == (q[1] + q[2]) \div 2
                      IN  IF q[2] - q[1] <= 1 THEN q
                          ELSE IF luaH_get(T, m) = Nil THEN <<q[1], m>> ELSE <<m, q[2]>>
    <3>1. n \in 1..j
      BY <2>2
    <3>2. QED
      BY <1>6, <3>1 DEF Halved
  <2>3. g[0] = <<i, j>>
    BY <1>5
  <2>4. QED
    BY <2>1, <2>2, <2>3
<1>8. between = Body(between)
  BY <1>7
<1>9. binsearch(T, i, j) = between[j][1]
  BY DEF binsearch
<1> HIDE DEF between
<1>10. between[0] = <<i, j>> /\ \A n \in 1..j : between[n] = Halved(T, between[n - 1])
  <2>1. between[0] = <<i, j>>
    BY <1>8
  <2>2. ASSUME NEW n \in 1..j PROVE between[n] = Halved(T, between[n - 1])
    <3>1. n \in 0..j /\ n # 0
      OBVIOUS
    <3>2. QED
      BY <1>8, <3>1 DEF Halved
  <2>3. QED
    BY <2>1, <2>2
<1> DEFINE Close(n) == between[n][2] - between[n][1] <= 1 \/ between[n][2] - between[n][1] <= j - n
           C == {n \in 0..j : Surrounds(T, between[n]) /\ Close(n)}
<1>11. 0 \in C
  <2>1. Surrounds(T, between[0])
    BY <1>1, <1>2, <1>10
  <2>2. between[0][1] = i /\ between[0][2] = j
    BY <1>10
  <2>3. j - i <= j - 0 /\ 0 \in 0..j
    OBVIOUS
  <2>4. Close(0)
    BY <2>2, <2>3
  <2> HIDE DEF Close
  <2>5. QED
    BY <2>1, <2>3, <2>4
<1>12. ASSUME NEW n \in 0..j - 1, n \in C PROVE n + 1 \in C
  <2>1. n + 1 \in 1..j /\ n + 1 \in 0..j /\ (n + 1) - 1 = n
    OBVIOUS
  <2> DEFINE q == between[n]
  <2>2. between[n + 1] = Halved(T, q)
    BY <1>10, <2>1
  <2>3. Surrounds(T, q) /\ (q[2] - q[1] <= 1 \/ q[2] - q[1] <= j - n)
    BY <1>12
  <2> HIDE DEF q
  <2>4. /\ Surrounds(T, Halved(T, q))
        /\ q[2] - q[1] <= 1 \/ Halved(T, q)[2] - Halved(T, q)[1] < q[2] - q[1]
    BY <2>3, HalvedSurrounds
  <2>5. q[2] - q[1] <= 1 => Halved(T, q) = q
    BY DEF Halved
  <2> DEFINE r == Halved(T, q)
  <2>6. q[1] \in Nat /\ q[2] \in Nat /\ r[1] \in Nat /\ r[2] \in Nat
    BY <2>3, <2>4 DEF Surrounds
  <2> HIDE DEF r
  <2>7. r[2] - r[1] <= 1 \/ r[2] - r[1] <= j - (n + 1)
    BY <2>3, <2>4, <2>5, <2>6 DEF r
  <2>8. QED
    BY <2>1, <2>2, <2>4, <2>7 DEF r
<1>13. j \in C
  <2> HIDE DEF C
  <2>1. 0..j \subseteq C
    BY <1>11, <1>12, RangeInduction
  <2>2. QED
    BY <2>1
<1> DEFINE q == between[j]
<1>14. Surrounds(T, q) /\ (q[2] - q[1] <= 1 \/ q[2] - q[1] <= j - j)
  BY <1>13
<1> HIDE DEF q
<1>15. q[1] \in Nat /\ q[2] = q[1] + 1 /\ Present(T, q[1]) /\ luaH_get(T, q[2]) = Nil
  BY <1>14 DEF Surrounds
<1>16. QED
  BY <1>9, <1>15 DEF q, Border

\* What the loop of unbound_search does with its bound.
Doubles(bound, N, j) ==
  /\ bound[0] = j + 1
  /\ \A n \in 1..N : bound[n] = 2 * bound[n - 1]

\* The bounds of unbound_search are what its loop makes them, ...
LEMMA BoundsDouble ==
  ASSUME NEW N \in Nat, NEW j \in Nat
  PROVE  LET bound[n \in 0..N] == IF n = 0 THEN j + 1 ELSE 2 * bound[n - 1] IN Doubles(bound, N, j)
<1> DEFINE Body(f) == [n \in 0..N |-> IF n = 0 THEN j + 1 ELSE 2 * f[n - 1]]
           bound == CHOOSE f : f = Body(f)
           step == [n \in 1..N |-> [x \in Nat |-> 2 * x]]
           S == Nat
           first == j + 1
<1>1. step \in [1..N -> [S -> S]] /\ first \in S
  OBVIOUS
<1>2. Loops(N, S, first, step)
  <2> HIDE DEF S, first, step
  <2>1. QED BY <1>1, RangeRecursion
<1>3. PICK g \in [0..N -> Nat] : g[0] = j + 1 /\ \A n \in 1..N : g[n] = step[n][g[n - 1]]
  BY <1>2 DEF Loops
<1>4. g = Body(g)
  <2>1. ASSUME NEW n \in 0..N, n # 0 PROVE g[n] = 2 * g[n - 1]
    <3>1. n \in 1..N /\ n - 1 \in 0..N
      BY <2>1
    <3>2. QED
      BY <1>3, <3>1
  <2>2. QED
    BY <1>3, <2>1
<1>5. bound = Body(bound)
  BY <1>4
<1> HIDE DEF bound
<1>6. bound[0] = j + 1
  BY <1>5
<1>7. ASSUME NEW n \in 1..N PROVE bound[n] = 2 * bound[n - 1]
  <2>1. n \in 0..N /\ n # 0
    OBVIOUS
  <2>2. QED
    BY <1>5, <2>1
<1>8. Doubles(bound, N, j)
  BY <1>6, <1>7 DEF Doubles
<1>9. QED
  BY <1>8 DEF bound

\* ... and grow, ...
LEMMA BoundsGrow ==
  ASSUME NEW N \in Nat, NEW j \in Nat, NEW bound, Doubles(bound, N, j)
  PROVE  \A n \in 0..N : bound[n] \in Nat /\ bound[n] > j /\ \A m \in 0..n - 1 : bound[m] < bound[n]
<1> DEFINE C == {n \in 0..N : /\ bound[n] \in Nat /\ bound[n] > j
                              /\ \A m \in 0..n - 1 : bound[m] \in Nat /\ bound[m] < bound[n]}
<1>1. 0 \in C
  BY DEF Doubles
<1>2. ASSUME NEW n \in 0..N - 1, n \in C PROVE n + 1 \in C
  <2>1. n + 1 \in 1..N /\ n + 1 \in 0..N /\ (n + 1) - 1 = n
    OBVIOUS
  <2>2. bound[n + 1] = 2 * bound[n] /\ bound[n] \in Nat /\ bound[n] > j
    BY <1>2, <2>1 DEF Doubles
  <2>3. bound[n + 1] \in Nat /\ bound[n + 1] > j /\ bound[n + 1] > bound[n]
    BY <2>2
  <2>4. ASSUME NEW m \in 0..(n + 1) - 1 PROVE bound[m] \in Nat /\ bound[m] < bound[n + 1]
    <3>1. m = n \/ m \in 0..n - 1
      OBVIOUS
    <3>2. CASE m = n
      BY <2>2, <2>3, <3>2
    <3>3. CASE m \in 0..n - 1
      <4>1. bound[m] \in Nat /\ bound[m] < bound[n]
        BY <1>2, <3>3
      <4>2. QED
        BY <2>2, <2>3, <4>1
    <3>4. QED
      BY <3>1, <3>2, <3>3
  <2>5. QED
    BY <2>1, <2>3, <2>4
<1>3. 0..N \subseteq C
  <2> HIDE DEF C
  <2>1. QED BY <1>1, <1>2, RangeInduction
<1>4. QED
  BY <1>3

\* Not every one of them can be in a node.
LEMMA BoundFound ==
  ASSUME NEW T, Chained(T), HashOK, ~isdummy(T), NEW bound, Doubles(bound, sizenode(T), Len(T.array))
  PROVE  \E n \in 0..sizenode(T) : /\ luaH_get(T, bound[n]) = Nil
                                   /\ \A m \in 0..n - 1 : luaH_get(T, bound[m]) # Nil
<1> DEFINE P == Positions(T)
           N == sizenode(T)
           j == Len(T.array)
           D == 0..N
           f == [n \in D |-> node(T, bound[n])]
           Empty == {n \in D : luaH_get(T, bound[n]) = Nil}
<1>1. Typed(T) /\ j \in Nat /\ N \in Nat /\ N = Cardinality(P) /\ IsFiniteSet(P)
  BY NodeTypes DEF Chained, Typed, sizenode
<1>2. \A n \in D : bound[n] \in Nat /\ bound[n] > j /\ \A m \in 0..n - 1 : bound[m] < bound[n]
  <2> HIDE DEF N, j
  <2>1. Doubles(bound, N, j)
    BY DEF N, j
  <2>2. QED
    BY <1>1, <2>1, BoundsGrow
<1>3. ASSUME Empty = {} PROVE FALSE
  <2>1. ASSUME NEW n \in D PROVE f[n] \in P /\ T.node[f[n]].key = bound[n]
    <3>1. ~InArray(T, bound[n]) /\ luaH_get(T, bound[n]) # Nil
      BY <1>1, <1>2, <1>3 DEF InArray
    <3>2. node(T, bound[n]) \in With(T, bound[n], FALSE)
      BY <3>1, GetHeld
    <3>3. QED
      BY <3>2 DEF With
  <2>2. ASSUME NEW n \in D, NEW m \in D, f[n] = f[m] PROVE n = m
    <3>1. bound[n] = bound[m]
      BY <2>1, <2>2
    <3>2. n \in Int /\ m \in Int /\ (n < m => n \in 0..m - 1) /\ (m < n => m \in 0..n - 1)
      BY <1>1
    <3>3. (n < m => bound[n] < bound[m]) /\ (m < n => bound[m] < bound[n])
      BY <1>2, <3>2
    <3>4. bound[n] \in Nat /\ bound[m] \in Nat
      BY <1>2
    <3>5. QED
      BY <3>1, <3>2, <3>3, <3>4
  <2>3. f \in [D -> P]
    <3>1. \A n \in D : node(T, bound[n]) \in P
      BY <2>1
    <3>2. QED
      BY <3>1
  <2> HIDE DEF f, P, D
  <2>4. f \in Injection(D, P)
    BY <2>2, <2>3 DEF Injection, IsInjective
  <2>5. Cardinality(D) <= Cardinality(P)
    BY <1>1, <2>4, FS_Injection
  <2>6. Cardinality(D) = N + 1
    <3> DEFINE o == 0
    <3>1. o \in Int /\ N \in Int /\ D = o..N /\ (IF o > N THEN 0 ELSE N - o + 1) = N + 1
      BY <1>1 DEF D
    <3> HIDE DEF o, N
    <3>2. Cardinality(o..N) = IF o > N THEN 0 ELSE N - o + 1
      BY <3>1, FS_Interval
    <3>3. QED
      BY <3>1, <3>2
  <2>7. QED
    BY <1>1, <2>5, <2>6
<1>4. PICK n \in Empty : \A m \in Empty : n <= m
  <2>1. Empty \in SUBSET Nat
    BY <1>1
  <2> HIDE DEF Empty
  <2>2. QED
    BY <1>3, <2>1, LeastExists
<1>5. n \in D /\ luaH_get(T, bound[n]) = Nil
  OBVIOUS
<1>6. ASSUME NEW m \in 0..n - 1 PROVE luaH_get(T, bound[m]) # Nil
  <2>1. m \in D /\ ~(n <= m)
    BY <1>1, <1>5
  <2>2. m \notin Empty
    BY <1>4, <2>1
  <2>3. QED
    BY <2>1, <2>2
<1>7. QED
  BY <1>5, <1>6

\* ... so that unbound_search finds a border.
LEMMA UnboundFinds ==
  ASSUME NEW T, Chained(T), HashOK, ~isdummy(T), Present(T, Len(T.array))
  PROVE  Border(T, unbound_search(T, Len(T.array)))
<1> DEFINE N == sizenode(T)
           j == Len(T.array)
           bound == CHOOSE f : f = [n \in 0..N |-> IF n = 0 THEN j + 1 ELSE 2 * f[n - 1]]
           First(n) == /\ luaH_get(T, bound[n]) = Nil
                       /\ \A m \in 0..n - 1 : luaH_get(T, bound[m]) # Nil
           last == CHOOSE n \in 0..N : First(n)
           low == IF last = 0 THEN j ELSE bound[last - 1]
<1>1. j \in Nat /\ N \in Nat
  BY NodeTypes DEF Chained, Typed, sizenode
<1>2. Doubles(bound, N, j)
  <2> HIDE DEF N, j
  <2>1. QED BY <1>1, BoundsDouble
<1>3. unbound_search(T, j) = binsearch(T, low, bound[last])
  BY DEF unbound_search
<1> HIDE DEF bound
<1>4. \E n \in 0..N : First(n)
  BY <1>2, BoundFound
<1> HIDE DEF N
<1>5. last \in 0..N /\ First(last)
  <2> HIDE DEF First
  <2>1. QED BY <1>4
<1> HIDE DEF last
<1>6. \A n \in 0..N : bound[n] \in Nat /\ bound[n] > j /\ \A m \in 0..n - 1 : bound[m] < bound[n]
  <2> HIDE DEF j
  <2>1. QED BY <1>1, <1>2, BoundsGrow
<1>7. bound[last] \in Nat /\ luaH_get(T, bound[last]) = Nil
  BY <1>5, <1>6
<1>8. low \in Nat /\ low < bound[last] /\ Present(T, low)
  <2>1. CASE last = 0
    BY <1>1, <1>2, <2>1 DEF Doubles
  <2>2. CASE last # 0
    <3>1. last - 1 \in 0..last - 1 /\ last - 1 \in 0..N
      BY <1>1, <1>5, <2>2
    <3>2. bound[last - 1] \in Nat /\ bound[last - 1] < bound[last]
      BY <1>5, <1>6, <3>1
    <3>3. luaH_get(T, bound[last - 1]) # Nil
      BY <1>5, <3>1
    <3>4. QED
      BY <2>2, <3>2, <3>3 DEF Present
  <2>3. QED
    BY <2>1, <2>2
<1> HIDE DEF low
<1> DEFINE high == bound[last]
<1>9. high \in Nat /\ low < high /\ luaH_get(T, high) = Nil
  BY <1>7, <1>8
<1> HIDE DEF high
<1>10. Border(T, binsearch(T, low, high))
  BY <1>8, <1>9, SearchFinds
<1>11. QED
  BY <1>3, <1>10 DEF high

\* The invariant implies that the length is a border.
LEMMA InvLength == TableInv => GetnIsBorder
<1> SUFFICES ASSUME TableInv PROVE Border(t, luaH_getn(t))
  BY DEF GetnIsBorder, Border, Present
<1> DEFINE j == Len(t.array)
<1>1. Chained(t) /\ HashOK /\ j \in Nat
  BY HashTyped DEF TableInv, Chained, Typed
<1>2. ASSUME j > 0 PROVE luaH_get(t, j) = t.array[j]
  BY <1>1, <1>2 DEF luaH_get, InArray
<1>3. CASE j > 0 /\ t.array[j] = Nil
  <2>1. luaH_getn(t) = binsearch(t, 0, j)
    BY <1>3 DEF luaH_getn
  <2> DEFINE o == 0
             T == t
  <2>2. o \in Nat /\ o < j /\ Present(T, o) /\ luaH_get(T, j) = Nil
    BY <1>1, <1>2, <1>3 DEF Present
  <2> HIDE DEF o, j, T
  <2>3. Border(T, binsearch(T, o, j))
    BY <1>1, <2>2, SearchFinds
  <2>4. QED
    BY <2>1, <2>3 DEF o, T
<1>4. CASE ~(j > 0 /\ t.array[j] = Nil)
  <2>1. Present(t, j)
    BY <1>1, <1>2, <1>4 DEF Present
  <2>2. CASE isdummy(t)
    <3>1. luaH_getn(t) = j
      BY <1>4, <2>2 DEF luaH_getn
    <3>2. ~InArray(t, j + 1)
      BY <1>1 DEF InArray
    <3>3. Holds(t) = {}
      BY <2>2 DEF isdummy, Holds
    <3>4. luaH_get(t, j + 1) = Nil
      <4> DEFINE T == t
                 k == j + 1
      <4>1. Chained(T) /\ HashOK /\ ~InArray(T, k) /\ Holds(T) = {}
        BY <1>1, <3>2, <3>3
      <4> HIDE DEF T, k
      <4>2. luaH_get(T, k) = Nil
        BY <4>1, GetHeld
      <4>3. QED
        BY <4>2 DEF T, k
    <3>5. QED
      BY <1>1, <2>1, <3>1, <3>4 DEF Border
  <2>3. CASE ~isdummy(t)
    <3>1. luaH_getn(t) = unbound_search(t, j)
      BY <1>4, <2>3 DEF luaH_getn
    <3>2. QED
      BY <1>1, <2>1, <2>3, <3>1, UnboundFinds
  <2>4. QED
    BY <2>2, <2>3
<1>5. QED
  BY <1>3, <1>4

\* GetnIsBorder: the searches of luaH_getn end at a border, whatever the array
\* and the hash part hold.
THEOREM TableLength == TableSpec => []GetnIsBorder
<1>1. TableInv => GetnIsBorder
  BY InvLength
<1>2. QED
  BY <1>1, TableInvariant, PTL

-----------------------------------------------------------------------------
(* Traversals.                                                             *)

\* Tables with the same chains have the same loops along them, ...
LEMMA SameAlong ==
  ASSUME NEW T, NEW U, Chained(T), Chained(U), Positions(U) = Positions(T), NEW stop,
         \A p \in Positions(T) : U.node[p].next = T.node[p].next
  PROVE  \A p \in Positions(T) : Along(U, p, stop) = Along(T, p, stop)
<1> DEFINE P == Positions(T)
           D == P \cup {NONE}
<1>1. /\ NoCircle(T) /\ NoCircle(U) /\ NONE \notin P
      /\ \A q \in P : T.node[q].next \in D
  BY NodeTypes DEF Chained
<1>2. PICK f \in [D -> D] : AlongIs(T, stop, f)
  BY <1>1, AlongSolution
<1>3. PICK g \in [D -> D] : AlongIs(U, stop, g)
  <2>1. NONE \notin Positions(U) /\ \A q \in Positions(U) : U.node[q].next \in Positions(U) \cup {NONE}
    BY <1>1
  <2>2. \E g \in [Positions(U) \cup {NONE} -> Positions(U) \cup {NONE}] : AlongIs(U, stop, g)
    BY <1>1, <2>1, AlongSolution
  <2>3. QED
    BY <2>2
<1>4. /\ \A q \in D : f[q] = IF q \in stop \cup {NONE} THEN q ELSE f[T.node[q].next]
      /\ \A q \in D : Along(T, q, stop) = f[q]
  BY <1>2 DEF AlongIs, Solves
<1>5. /\ \A q \in D : g[q] = IF q \in stop \cup {NONE} THEN q ELSE g[U.node[q].next]
      /\ \A q \in D : Along(U, q, stop) = g[q]
  BY <1>3 DEF AlongIs, Solves
<1> DEFINE S == {q \in P : f[q] # g[q]}
<1>6. S = {}
  <2> SUFFICES ASSUME S # {} PROVE FALSE
    OBVIOUS
  <2>1. PICK y \in S : T.node[y].next \notin S
    BY <1>1 DEF NoCircle
  <2>2. f[NONE] = NONE /\ g[NONE] = NONE
    BY <1>4, <1>5
  <2>3. f[T.node[y].next] = g[T.node[y].next]
    BY <1>1, <2>1, <2>2
  <2>4. QED
    BY <1>4, <1>5, <2>1, <2>3
<1>7. QED
  BY <1>4, <1>5, <1>6

\* ... and the same nodes for the same keys, dead ones included.
LEMMA SameAny ==
  ASSUME NEW T, NEW U, Chained(T), Chained(U), HashOK, SameKeys(T, U), NEW k \in Key
  PROVE  anynode(U, k) = anynode(T, k)
<1>1. /\ Positions(U) = Positions(T)
      /\ \A p \in Positions(T) : U.node[p].key = T.node[p].key /\ U.node[p].next = T.node[p].next
  BY DEF SameKeys
<1>2. With(U, k, TRUE) = With(T, k, TRUE)
  BY <1>1 DEF With
<1>3. mainposition(U, k) = mainposition(T, k) /\ (isdummy(U) <=> isdummy(T))
  BY <1>1, SameMain DEF isdummy
<1>4. CASE isdummy(T)
  BY <1>3, <1>4 DEF anynode, Find
<1>5. CASE ~isdummy(T)
  <2> DEFINE mp == mainposition(T, k)
             stop == With(T, k, TRUE)
  <2>1. mp \in Positions(T)
    BY <1>5, MainInRange DEF Chained
  <2>2. anynode(T, k) = Along(T, mp, stop) /\ anynode(U, k) = Along(U, mp, stop)
    BY <1>2, <1>3, <1>5 DEF anynode, Find
  <2> HIDE DEF mp, stop
  <2>3. QED
    BY <1>1, <2>1, <2>2, SameAlong
<1>6. QED
  BY <1>4, <1>5

\* The first node that has a key is the one that is not dead.
LEMMA AnyIsLive ==
  ASSUME NEW T, Chained(T), HashOK, NEW p \in Keyed(T), ~T.node[p].dead
  PROVE  anynode(T, T.node[p].key) = p
<1> DEFINE k == T.node[p].key
           mp == mainposition(T, k)
           P == Positions(T)
           D == P \cup {NONE}
           stop == With(T, k, TRUE)
<1>1. /\ Typed(T) /\ NoCircle(T) /\ LiveFirst(T) /\ NONE \notin P /\ p \in P /\ k \in Key
      /\ \A q \in P : T.node[q].next \in D
  BY NodeTypes DEF Chained, Keyed
<1>2. ~isdummy(T)
  BY <1>1 DEF isdummy
<1>3. mp \in P /\ Main(T, p) = mp
  BY <1>1, <1>2, MainInRange DEF Main
<1>4. PICK f \in [D -> D] : AlongIs(T, stop, f)
  BY <1>1, AlongSolution
<1>5. /\ \A q \in D : f[q] = IF q \in stop \cup {NONE} THEN q ELSE f[T.node[q].next]
      /\ \A q \in D : Along(T, q, stop) = f[q]
  BY <1>4 DEF AlongIs, Solves
<1> DEFINE S == {q \in P : f[q] = f[mp]}
<1>6. S \in SUBSET P /\ mp \in S
  BY <1>3
<1>7. ASSUME NEW q \in S, T.node[q].key # k PROVE T.node[q].next \in S \cup {NONE}
  <2>1. q \in P /\ q \notin stop /\ q # NONE
    BY <1>1, <1>7 DEF With
  <2>2. f[T.node[q].next] = f[mp]
    BY <1>5, <2>1
  <2>3. QED
    BY <1>1, <2>1, <2>2
<1>8. p \in S
  <2> HIDE DEF S
  <2>1. QED BY <1>1, <1>3, <1>6, <1>7 DEF LiveFirst
<1>9. p \in stop
  BY <1>1 DEF With
<1>10. f[mp] = p
  BY <1>1, <1>5, <1>8, <1>9
<1>11. QED
  BY <1>2, <1>3, <1>5, <1>10 DEF anynode, Find

\* findindex returns a number.
LEMMA IndexIsInt ==
  ASSUME NEW T, Chained(T), HashOK, NEW k \in Key \cup {Nil}
  PROVE  findindex(T, k) \in Int /\ findindex(T, Nil) = -1
<1>1. Typed(T) /\ Len(T.array) \in Nat
  BY DEF Chained, Typed
<1>2. k # Nil => anynode(T, k) \in Positions(T) \cup {NONE}
  <2>1. SUFFICES ASSUME k \in Key PROVE anynode(T, k) \in Positions(T) \cup {NONE}
    OBVIOUS
  <2> DEFINE yes == TRUE
  <2>2. yes \in BOOLEAN /\ anynode(T, k) = Find(T, k, yes)
    BY DEF anynode
  <2> HIDE DEF yes
  <2>3. Find(T, k, yes) \in With(T, k, yes) \cup {NONE}
    BY <2>1, <2>2, FindFinds DEF Chained
  <2>4. QED
    BY <2>2, <2>3 DEF With
<1>3. Positions(T) \in SUBSET Int /\ NONE \in Int
  BY <1>1, NodeTypes DEF NONE
<1>4. k # Nil => findindex(T, k) \in Int
  BY <1>1, <1>2, <1>3 DEF findindex, InArray
<1>5. findindex(T, Nil) = -1
  BY DEF findindex
<1>6. QED
  BY <1>4, <1>5

\* A field, by its index.
EntryAt(T, i) ==
  /\ i \in Nat /\ Entries(T)[i] \in Key /\ luaH_get(T, Entries(T)[i]) # Nil
  /\ findindex(T, Entries(T)[i]) = i /\ Known(T, Entries(T)[i])

\* The definition of Entries, as two facts.
LEMMA EntriesAre ==
  ASSUME NEW T
  PROVE  LET n == Len(T.array)
             indices == {j \in 0..n - 1 : T.array[j + 1] # Nil}
                          \cup {n + p : p \in {q \in Positions(T) : T.node[q].val # Nil}}
         IN  /\ DOMAIN Entries(T) = indices
             /\ \A i \in indices : Entries(T)[i] = IF i < n THEN i + 1 ELSE T.node[i - n].key
BY DEF Entries

\* findindex finds every entry at its index.
LEMMA EntryFacts ==
  ASSUME NEW T, Chained(T), OnlyKeys(T), HashOK, NEW i \in DOMAIN Entries(T)
  PROVE  EntryAt(T, i)
<1> DEFINE n == Len(T.array)
<1>1. Typed(T) /\ n \in Nat /\ SinglyLinked(T) /\ OncePerKey(T)
  BY DEF Chained, Typed
<1>2. Cardinality(Positions(T)) \in Nat /\ Positions(T) = 0..Cardinality(Positions(T)) - 1
  BY <1>1, NodeTypes
<1>3. CASE i \in {j \in 0..n - 1 : T.array[j + 1] # Nil}
  <2>1. i \in Nat /\ i < n /\ i + 1 \in 1..n /\ T.array[i + 1] # Nil /\ (i + 1) - 1 = i
    BY <1>1, <1>3
  <2>2. Entries(T)[i] = i + 1
    BY <2>1, EntriesAre
  <2>3. i + 1 \in Key /\ InArray(T, i + 1) /\ luaH_get(T, i + 1) # Nil /\ i + 1 # Nil
    BY <2>1, KeyAssumption DEF OnlyKeys, InArray, luaH_get
  <2>4. findindex(T, i + 1) = i
    BY <2>1, <2>3 DEF findindex
  <2>5. QED
    BY <2>1, <2>2, <2>3, <2>4 DEF EntryAt, Known
<1>4. CASE i \notin {j \in 0..n - 1 : T.array[j + 1] # Nil}
  <2>1. PICK p \in Positions(T) : T.node[p].val # Nil /\ i = n + p
    <3> DEFINE A == {j \in 0..n - 1 : T.array[j + 1] # Nil}
               B == {n + p : p \in {q \in Positions(T) : T.node[q].val # Nil}}
    <3>1. DOMAIN Entries(T) = A \cup B
      BY EntriesAre
    <3> HIDE DEF A, n
    <3>2. i \in B
      BY <1>4, <3>1 DEF A
    <3>3. QED
      BY <3>2
  <2>2. i \in Nat /\ ~(i < n) /\ i - n = p
    BY <1>1, <1>2, <2>1
  <2> DEFINE k == T.node[p].key
  <2>3. Entries(T)[i] = k
    BY <2>2, EntriesAre
  <2>4. p \in Keyed(T) /\ ~T.node[p].dead /\ k # Nil
    BY <1>1, <2>1 DEF SinglyLinked, EmptyNode, Typed, Keyed
  <2>5. k \in Key
    BY <1>1, <2>4, NodeTypes DEF Keyed
  <2>6. ~InArray(T, k)
    BY <1>1, <2>4 DEF OncePerKey
  <2>7. anynode(T, k) = p
    BY <2>4, AnyIsLive
  <2>8. <<k, T.node[p].val>> \in Holds(T)
    BY <2>1 DEF Holds
  <2>9. luaH_get(T, k) # Nil
    BY <2>1, <2>6, <2>8, GetHeld
  <2>10. findindex(T, k) = i
    BY <2>1, <2>4, <2>6, <2>7 DEF findindex
  <2>11. anynode(T, k) # NONE
    BY <1>1, <2>7, NodeTypes
  <2>12. QED
    BY <2>2, <2>3, <2>5, <2>9, <2>10, <2>11 DEF EntryAt, Known
<1>5. QED
  BY <1>3, <1>4

\* Every field is an entry.
LEMMA EntryOf ==
  ASSUME NEW T, Chained(T), HashOK, NEW k, luaH_get(T, k) # Nil
  PROVE  \E i \in DOMAIN Entries(T) : Entries(T)[i] = k
<1> DEFINE n == Len(T.array)
<1>1. Typed(T) /\ n \in Nat
  BY DEF Chained, Typed
<1>2. Cardinality(Positions(T)) \in Nat /\ Positions(T) = 0..Cardinality(Positions(T)) - 1
  BY <1>1, NodeTypes
<1>3. CASE InArray(T, k)
  <2>1. T.array[k] # Nil /\ k \in 1..n
    BY <1>3 DEF luaH_get, InArray
  <2>2. k - 1 \in 0..n - 1 /\ (k - 1) + 1 = k /\ k - 1 < n
    BY <1>1, <2>1
  <2>3. k - 1 \in DOMAIN Entries(T)
    BY <2>1, <2>2, EntriesAre
  <2>4. Entries(T)[k - 1] = k
    BY <2>1, <2>2, EntriesAre
  <2>5. QED
    BY <2>3, <2>4
<1>4. CASE ~InArray(T, k)
  <2>1. <<k, luaH_get(T, k)>> \in Holds(T)
    BY <1>4, GetHeld
  <2>2. PICK p \in Positions(T) : T.node[p].val # Nil /\ T.node[p].key = k
    BY <2>1 DEF Holds
  <2>3. n + p \in DOMAIN Entries(T)
    BY <2>2, EntriesAre
  <2>4. ~(n + p < n) /\ (n + p) - n = p
    BY <1>1, <1>2
  <2>5. Entries(T)[n + p] = k
    BY <2>2, <2>3, <2>4, EntriesAre
  <2>6. QED
    BY <2>3, <2>5
<1>5. QED
  BY <1>3, <1>4

\* What luaH_next needs of the last key and of what it returned.
Returned(T, key, seen) ==
  \A k \in Key : luaH_get(T, k) # Nil => (k \in seen <=> findindex(T, k) <= findindex(T, key))

\* Progress of a traversal of T.
ProgressIs(T, state, key, seen) ==
  /\ state \in {"none", "done", "error"} => key = Nil
  /\ state # "on" => seen = {}
  /\ state = "on" => key \in Key /\ Known(T, key)
  /\ state # "undefined" => Returned(T, key, seen)

\* Every field has an index, at which Entries has it.
LEMMA FieldIndex ==
  ASSUME NEW T, Chained(T), OnlyKeys(T), HashOK, NEW k, luaH_get(T, k) # Nil
  PROVE  /\ findindex(T, k) \in DOMAIN Entries(T) /\ findindex(T, k) \in Nat
         /\ Entries(T)[findindex(T, k)] = k
<1>1. PICK i \in DOMAIN Entries(T) : Entries(T)[i] = k
  BY EntryOf
<1>2. EntryAt(T, i)
  BY EntryFacts
<1>3. QED
  BY <1>1, <1>2 DEF EntryAt

\* Before the first field, nothing has been returned.
LEMMA NoneReturned ==
  ASSUME NEW T, Chained(T), OnlyKeys(T), HashOK
  PROVE  Returned(T, Nil, {})
<1>1. findindex(T, Nil) = -1
  BY DEF findindex
<1>2. ASSUME NEW k \in Key, luaH_get(T, k) # Nil PROVE ~(findindex(T, k) <= findindex(T, Nil))
  <2>1. findindex(T, k) \in Nat
    BY <1>2, FieldIndex
  <2>2. QED
    BY <1>1, <2>1
<1>3. QED
  BY <1>2 DEF Returned

\* The next field has not been returned; when it is, those up to it have been.
LEMMA Advance ==
  ASSUME NEW T, Chained(T), OnlyKeys(T), HashOK, NEW key \in Key \cup {Nil}, NEW seen,
         Returned(T, key, seen), Following(T, key) # {},
         NEW k, k = Entries(T)[Min(Following(T, key))]
  PROVE  /\ k \in Key /\ luaH_get(T, k) # Nil /\ Known(T, k) /\ k \notin seen
         /\ Returned(T, k, seen \cup {k})
<1> DEFINE F == Following(T, key)
           i == Min(F)
           at == findindex(T, key)
<1>1. at \in Int
  BY IndexIsInt
<1>2. F \in SUBSET Nat /\ F \subseteq DOMAIN Entries(T) /\ \A j \in F : j > at
  <2>1. F \subseteq DOMAIN Entries(T) /\ \A j \in F : j > at
    BY DEF Following
  <2>2. \A j \in DOMAIN Entries(T) : j \in Nat
    BY EntryFacts DEF EntryAt
  <2>3. QED
    BY <2>1, <2>2
<1>3. i \in F /\ \A j \in F : i <= j
  <2> HIDE DEF F
  <2>1. F # {}
    BY DEF F
  <2>2. \E x \in F : \A y \in F : x <= y
    BY <1>2, <2>1, LeastExists
  <2>3. QED
    BY <2>2 DEF Min
<1>4. \A j \in DOMAIN Entries(T) : j > at => j \in F
  BY DEF Following
<1>5. i \in DOMAIN Entries(T) /\ i \in Nat /\ i > at
  BY <1>2, <1>3
<1> HIDE DEF F
<1>6. k = Entries(T)[i]
  BY DEF i, F
<1> HIDE DEF i, at
<1>7. EntryAt(T, i)
  BY <1>5, EntryFacts
<1>8. k \in Key /\ luaH_get(T, k) # Nil /\ Known(T, k) /\ findindex(T, k) = i
  BY <1>6, <1>7 DEF EntryAt
<1>9. \A j \in Key : luaH_get(T, j) # Nil => (j \in seen <=> findindex(T, j) <= at)
  BY DEF Returned, at
<1>10. k \notin seen
  BY <1>1, <1>5, <1>8, <1>9
<1>11. ASSUME NEW j \in Key, luaH_get(T, j) # Nil
       PROVE  j \in seen \cup {k} <=> findindex(T, j) <= i
  <2> DEFINE a == findindex(T, j)
  <2>1. a \in DOMAIN Entries(T) /\ a \in Nat /\ Entries(T)[a] = j
    BY <1>11, FieldIndex
  <2>2. j \in seen <=> a <= at
    BY <1>9, <1>11
  <2>3. j = k => a = i
    BY <1>8
  <2>4. a = i => j = k
    BY <1>6, <2>1
  <2> HIDE DEF a
  <2>5. a > at => i <= a
    BY <1>3, <1>4, <2>1
  <2>6. j \in seen \cup {k} <=> a <= i
    BY <1>1, <1>5, <2>1, <2>2, <2>3, <2>4, <2>5
  <2>7. QED
    BY <2>6 DEF a
<1>12. Returned(T, k, seen \cup {k})
  BY <1>8, <1>11 DEF Returned
<1>13. QED
  BY <1>8, <1>10, <1>12

\* When no field follows, all have been returned.
LEMMA AllReturned ==
  ASSUME NEW T, Chained(T), OnlyKeys(T), HashOK, NEW key \in Key \cup {Nil}, NEW seen,
         Returned(T, key, seen), Following(T, key) = {},
         NEW k \in Key, luaH_get(T, k) # Nil
  PROVE  k \in seen
<1>1. findindex(T, k) \in DOMAIN Entries(T) /\ findindex(T, k) \in Nat
  BY FieldIndex
<1>2. ~(findindex(T, k) > findindex(T, key))
  BY <1>1 DEF Following
<1>3. findindex(T, key) \in Int
  BY IndexIsInt
<1>4. findindex(T, k) <= findindex(T, key)
  BY <1>1, <1>2, <1>3
<1>5. QED
  BY <1>4 DEF Returned

\* Fields that change or go, while their keys stay, disturb no traversal.
LEMMA Thins ==
  ASSUME NEW T, NEW U, Chained(T), Chained(U), HashOK, SameKeys(T, U),
         \A j : luaH_get(U, j) # Nil => luaH_get(T, j) # Nil,
         NEW state, NEW key \in Key \cup {Nil}, NEW seen, ProgressIs(T, state, key, seen)
  PROVE  ProgressIs(U, state, key, seen)
<1>1. \A k \in Key : anynode(U, k) = anynode(T, k)
  BY SameAny
<1>2. Len(U.array) = Len(T.array)
  BY DEF SameKeys
<1>3. \A k \in Key \cup {Nil} : findindex(U, k) = findindex(T, k) /\ (Known(U, k) <=> Known(T, k))
  BY <1>1, <1>2 DEF findindex, Known, InArray
<1>4. Returned(T, key, seen) => Returned(U, key, seen)
  BY <1>3 DEF Returned
<1>5. QED
  BY <1>3, <1>4 DEF ProgressIs

\* The hashes stay, so that what is said of t in the next state is said of t'.
LEMMA PrimedTable ==
  ASSUME hash' = hash
  PROVE  \A k : /\ luaH_get(t, k)' = luaH_get(t', k)
                /\ findindex(t, k)' = findindex(t', k)
                /\ Known(t, k)' = Known(t', k)
<1>1. \A k : mainposition(t, k)' = mainposition(t', k)
  BY DEF mainposition
<1>2. \A k : node(t, k)' = node(t', k)
  BY <1>1 DEF node, Find
<1>3. \A k : anynode(t, k)' = anynode(t', k)
  BY <1>1 DEF anynode, Find
<1>4. \A k : luaH_get(t, k)' = luaH_get(t', k)
  BY <1>2 DEF luaH_get, gval, InArray
<1>5. \A k : findindex(t, k)' = findindex(t', k)
  BY <1>3 DEF findindex, InArray
<1>6. \A k : Known(t, k)' = Known(t', k)
  BY <1>3 DEF Known, InArray
<1>7. QED
  BY <1>4, <1>5, <1>6

\* Progress, in terms of the parts of iter, ...
LEMMA ProgressParts == Progress <=> ProgressIs(t, iter.state, iter.key, iter.seen)
BY DEF Progress, ProgressIs, Returned

\* ... and in the next state.
LEMMA ProgressPrimed ==
  ASSUME hash' = hash, ProgressIs(t', iter'.state, iter'.key, iter'.seen)
  PROVE  Progress'
<1>1. \A k : /\ luaH_get(t, k)' = luaH_get(t', k)
             /\ findindex(t, k)' = findindex(t', k)
             /\ Known(t, k)' = Known(t', k)
  BY PrimedTable
<1>2. QED
  BY <1>1 DEF Progress, ProgressIs, Returned

\* Before the first step nothing has been returned, ...
LEMMA InitProgress == TableInit => Progress
<1> SUFFICES ASSUME TableInit PROVE Progress
  OBVIOUS
<1>1. Chained(t) /\ OnlyKeys(t) /\ HashOK
  BY InitInv, HashTyped DEF TableInv
<1>2. iter.state = "none" /\ iter.key = Nil /\ iter.seen = {}
  BY DEF TableInit
<1>3. Returned(t, Nil, {})
  BY <1>1, NoneReturned
<1>4. QED
  BY <1>2, <1>3, ProgressParts DEF ProgressIs

\* ... and every step of luaH_next returns the next field, whatever the others do.
LEMMA NextProgress == TableInv /\ Progress /\ [TableNext]_tablevars => Progress'
<1> SUFFICES ASSUME TableInv, Progress, [TableNext]_tablevars PROVE Progress'
  OBVIOUS
<1>1. IterOK /\ Chained(t) /\ OnlyKeys(t) /\ ~t.full /\ HashOK
  BY InvParts, HashTyped DEF TableInv
<1>2. /\ iter.key \in Key \cup {Nil}
      /\ iter.state \in {"none", "on", "done", "undefined", "error"}
  BY <1>1 DEF IterOK
<1>3. ProgressIs(t, iter.state, iter.key, iter.seen)
  BY ProgressParts
\* A field changes or goes, ...
<1>4. ASSUME NEW k \in Key, NEW v, NEW U, Sets(t, U, k, v), SameKeys(t, U), v = Nil \/ luaH_get(t, k) # Nil,
             hash' = hash, t' = U, iter' = iter
      PROVE  Progress'
  <2>1. Chained(U) /\ \A j : luaH_get(U, j) # Nil => luaH_get(t, j) # Nil
    BY <1>4 DEF Sets
  <2>2. ProgressIs(U, iter.state, iter.key, iter.seen)
    BY <1>1, <1>2, <1>3, <1>4, <2>1, Thins
  <2>3. QED
    BY <1>4, <2>2, ProgressPrimed
\* ... or the traversal does not go on.
<1>5. ASSUME hash' = hash, t' = t, iter'.state # "on", iter'.key = Nil, iter'.seen = {} PROVE Progress'
  <2>1. Returned(t', Nil, {})
    BY <1>1, <1>5, NoneReturned
  <2>2. ProgressIs(t', iter'.state, iter'.key, iter'.seen)
    BY <1>5, <2>1 DEF ProgressIs
  <2>3. QED
    BY <1>5, <2>2, ProgressPrimed
<1>6. ASSUME NEW k \in Key, NEW v \in Val \cup {Nil}, Set(k, v) PROVE Progress'
  <2> DEFINE U == Assign(IF HasRoom(t, k) THEN t ELSE rehash(t, k), k, v)
  <2>1. /\ hash' = hash /\ t' = U
        /\ iter' = IF iter.state = "on" /\ luaH_get(t, k) = Nil
                   THEN [iter EXCEPT !.state = "undefined", !.seen = {}] ELSE iter
        /\ iter.state \in {"none", "on"}
    BY <1>6 DEF Set
  <2>2. Sets(t, U, k, v)
    BY <1>1, SetKeeps
  <2>3. luaH_get(t, k) # Nil => SameKeys(t, U)
    BY <1>1, SetInPlace
  <2> HIDE DEF U
  <2>4. CASE luaH_get(t, k) # Nil
    BY <1>4, <2>1, <2>2, <2>3, <2>4
  <2>5. CASE luaH_get(t, k) = Nil /\ iter.state = "on"
    <3>1. iter'.state = "undefined" /\ iter'.key = iter.key /\ iter'.seen = {}
      BY <2>1, <2>5, <1>1 DEF IterOK
    <3>2. ProgressIs(t', iter'.state, iter'.key, iter'.seen)
      BY <3>1 DEF ProgressIs
    <3>3. QED
      BY <2>1, <3>2, ProgressPrimed
  <2>6. CASE luaH_get(t, k) = Nil /\ iter.state # "on"
    <3>1. iter.state = "none" /\ iter' = iter
      BY <2>1, <2>6
    <3>2. iter.key = Nil /\ iter.seen = {}
      BY <1>3, <3>1 DEF ProgressIs
    <3>3. Chained(U) /\ OnlyKeys(U)
      BY <2>2 DEF Sets
    <3>4. Returned(U, Nil, {})
      BY <1>1, <3>3, NoneReturned
    <3>5. ProgressIs(t', iter'.state, iter'.key, iter'.seen)
      BY <2>1, <3>1, <3>2, <3>4 DEF ProgressIs
    <3>6. QED
      BY <2>1, <3>5, ProgressPrimed
  <2>7. QED
    BY <2>4, <2>5, <2>6
<1>7. ASSUME MarkDead PROVE Progress'
  <2> DEFINE U == Marked(t)
  <2>1. hash' = hash /\ t' = U /\ iter' = iter
    BY <1>7 DEF MarkDead, Marked
  <2>2. Chained(U) /\ SameKeys(t, U) /\ \A j : luaH_get(U, j) = luaH_get(t, j)
    BY <1>1, MarkKeeps
  <2> HIDE DEF U
  <2>3. ProgressIs(U, iter.state, iter.key, iter.seen)
    BY <1>1, <1>2, <1>3, <2>2, Thins
  <2>4. QED
    BY <2>1, <2>3, ProgressPrimed
<1>8. ASSUME NEW k \in Key, ClearWeak(k) PROVE Progress'
  <2> DEFINE U == Cleared(t, k)
  <2>1. hash' = hash /\ t' = U /\ iter' = iter /\ luaH_get(t, k) # Nil
    BY <1>8 DEF ClearWeak, Cleared
  <2>2. Sets(t, U, k, Nil) /\ SameKeys(t, U)
    BY <1>1, <2>1, ClearKeeps
  <2> HIDE DEF U
  <2>3. QED
    BY <1>4, <2>1, <2>2
<1>9. ASSUME NextField PROVE Progress'
  <2> DEFINE k == Entries(t)[Min(Following(t, iter.key))]
  <2>1. Following(t, iter.key) # {} /\ hash' = hash /\ t' = t
    BY <1>9 DEF NextField
  <2>2. iter' = IF iter.state = "undefined" THEN [iter EXCEPT !.key = k]
                ELSE [state |-> "on", key |-> k, seen |-> iter.seen \cup {k}]
    BY <1>9 DEF NextField
  <2> HIDE DEF k
  <2>3. CASE iter.state = "undefined"
    <3>1. iter'.state = "undefined" /\ iter'.seen = iter.seen
      BY <2>2, <2>3, <1>1 DEF IterOK
    <3>2. iter.seen = {}
      BY <1>3, <2>3 DEF ProgressIs
    <3>3. ProgressIs(t', iter'.state, iter'.key, iter'.seen)
      BY <3>1, <3>2 DEF ProgressIs
    <3>4. QED
      BY <2>1, <3>3, ProgressPrimed
  <2>4. CASE iter.state # "undefined"
    <3>1. iter'.state = "on" /\ iter'.key = k /\ iter'.seen = iter.seen \cup {k}
      BY <2>2, <2>4
    <3>2. Returned(t, iter.key, iter.seen)
      BY <1>3, <2>4 DEF ProgressIs
    <3>3. k \in Key /\ Known(t, k) /\ Returned(t, k, iter.seen \cup {k})
      BY <1>1, <1>2, <2>1, <3>2, Advance DEF k
    <3>4. ProgressIs(t', iter'.state, iter'.key, iter'.seen)
      BY <2>1, <3>1, <3>3 DEF ProgressIs
    <3>5. QED
      BY <2>1, <3>4, ProgressPrimed
  <2>5. QED
    BY <2>3, <2>4
<1>10. ASSUME NextNil \/ NextInvalid \/ Break PROVE Progress'
  <2>1. hash' = hash /\ t' = t /\ iter'.state # "on" /\ iter'.key = Nil /\ iter'.seen = {}
    BY <1>10 DEF NextNil, NextInvalid, Break
  <2>2. QED
    BY <1>5, <2>1
<1>11. CASE UNCHANGED tablevars
  <2>1. hash' = hash /\ t' = t /\ iter' = iter
    BY <1>11 DEF tablevars
  <2>2. QED
    BY <1>3, <2>1, ProgressPrimed
<1>12. QED
  BY <1>6, <1>7, <1>8, <1>9, <1>10, <1>11 DEF TableNext

\* Progress: a traversal has returned the fields up to that of its last key,
\* and no others (findindex, luaH_next), whatever changes or goes meanwhile.
THEOREM TableProgress == TableSpec => []Progress
<1>1. TableInit => Progress
  BY InitProgress
<1>2. TableInv /\ Progress /\ [TableNext]_tablevars => Progress'
  BY NextProgress
<1>3. QED
  BY <1>1, <1>2, TableInvariant, PTL DEF TableSpec

-----------------------------------------------------------------------------
(* Tables implement TableMap.                                              *)

\* What TableMap calls content.
Content == [k \in Key |-> luaH_get(t, k)]

\* A new table is an empty map.
LEMMA MapInit == TableInit => Map!Init
<1> SUFFICES ASSUME TableInit PROVE Map!Init
  OBVIOUS
<1>1. iter.state = "none" /\ iter.seen = {}
  BY DEF TableInit
<1>2. ASSUME NEW k \in Key PROVE luaH_get(t, k) = Nil
  <2>1. t.array = <<>> /\ t.node = NodeVector(0)
    BY DEF TableInit
  <2>2. Positions(t) = {}
    BY <2>1 DEF Positions, NodeVector
  <2>3. node(t, k) = NONE /\ gval(t)[NONE] = Nil
    BY <2>2 DEF node, Find, isdummy, gval
  <2>4. ~InArray(t, k)
    BY <2>1 DEF InArray
  <2>5. QED
    BY <2>3, <2>4 DEF luaH_get
<1>3. QED
  BY <1>1, <1>2 DEF Map!Init

\* The content in the next state.
LEMMA ContentPrimed == hash' = hash => Content' = [k \in Key |-> luaH_get(t', k)]
<1> SUFFICES ASSUME hash' = hash PROVE Content' = [k \in Key |-> luaH_get(t', k)]
  OBVIOUS
<1>1. \A k : luaH_get(t, k)' = luaH_get(t', k)
  BY PrimedTable
<1>2. QED
  BY <1>1 DEF Content

\* A step that sets a field, or takes one away.
LEMMA MapSet ==
  ASSUME hash' = hash, NEW k \in Key, NEW v \in Val \cup {Nil}, Sets(t, t', k, v),
         IF iter.state = "on" /\ luaH_get(t, k) = Nil
         THEN iter'.state = "undefined" /\ iter'.seen = {}
         ELSE iter'.state = iter.state /\ iter'.seen = iter.seen
  PROVE  Map!Set
<1> DEFINE old == Content
           new == Content'
<1>1. new = [j \in Key |-> luaH_get(t', j)]
  BY ContentPrimed
<1>2. \A j \in Key : new[j] = (IF j = k THEN v ELSE old[j]) /\ old[j] = luaH_get(t, j)
  BY <1>1 DEF Sets, Content
<1>3. DOMAIN old = Key /\ old = [j \in Key |-> old[j]] /\ new = [j \in Key |-> new[j]]
  BY <1>1 DEF Content
<1> HIDE DEF old, new
<1>4. new = [old EXCEPT ![k] = new[k]] /\ new[k] \in Val \cup {Nil}
  BY <1>2, <1>3
<1>5. IF iter.state = "on" /\ old[k] = Nil
      THEN iter'.state = "undefined" /\ iter'.seen = {}
      ELSE iter'.state = iter.state /\ iter'.seen = iter.seen
  BY <1>2
<1>6. old \in {Content} /\ new \in {Content'}
  BY DEF old, new
<1>7. \E old1 \in {Content}, new1 \in {Content'}, j \in Key :
        /\ new1 = [old1 EXCEPT ![j] = new1[j]] /\ new1[j] \in Val \cup {Nil}
        /\ IF iter.state = "on" /\ old1[j] = Nil
           THEN iter'.state = "undefined" /\ iter'.seen = {}
           ELSE iter'.state = iter.state /\ iter'.seen = iter.seen
  BY <1>4, <1>5, <1>6
<1>8. QED
  BY <1>7 DEF Map!Set, Content

\* Every step is a step of TableMap, or changes nothing of the map.
LEMMA MapStep == TableInv /\ Progress /\ [TableNext]_tablevars => [Map!Next]_Map!vars
<1> SUFFICES ASSUME TableInv, Progress, [TableNext]_tablevars PROVE Map!Next \/ UNCHANGED Map!vars
  OBVIOUS
<1>1. IterOK /\ Chained(t) /\ OnlyKeys(t) /\ ~t.full /\ HashOK
  BY InvParts, HashTyped DEF TableInv
<1>2. /\ iter.key \in Key \cup {Nil}
      /\ iter.state \in {"none", "on", "done", "undefined", "error"}
  BY <1>1 DEF IterOK
<1>3. ProgressIs(t, iter.state, iter.key, iter.seen)
  BY ProgressParts
<1>4. ASSUME hash' = hash, t' = t PROVE Content' = Content
  BY <1>4, ContentPrimed DEF Content
<1>5. ASSUME NEW k \in Key, NEW v \in Val \cup {Nil}, Set(k, v) PROVE Map!Next
  <2>1. hash' = hash /\ t' = Assign(IF HasRoom(t, k) THEN t ELSE rehash(t, k), k, v)
    BY <1>5 DEF Set
  <2>2. Sets(t, t', k, v)
    BY <1>1, <2>1, SetKeeps
  <2>3. iter' = IF iter.state = "on" /\ luaH_get(t, k) = Nil
                THEN [iter EXCEPT !.state = "undefined", !.seen = {}] ELSE iter
    BY <1>5 DEF Set
  <2>4. IF iter.state = "on" /\ luaH_get(t, k) = Nil
        THEN iter'.state = "undefined" /\ iter'.seen = {}
        ELSE iter'.state = iter.state /\ iter'.seen = iter.seen
    BY <1>1, <2>3 DEF IterOK
  <2>5. Map!Set
    BY <2>1, <2>2, <2>4, MapSet
  <2>6. QED
    BY <2>5 DEF Map!Next
<1>6. ASSUME MarkDead PROVE UNCHANGED Map!vars
  <2>1. hash' = hash /\ t' = Marked(t) /\ iter' = iter
    BY <1>6 DEF MarkDead, Marked
  <2>2. \A j : luaH_get(t', j) = luaH_get(t, j)
    BY <1>1, <2>1, MarkKeeps
  <2>3. Content' = Content
    BY <2>1, <2>2, ContentPrimed DEF Content
  <2>4. QED
    BY <2>1, <2>3 DEF Map!vars, Content
<1>7. ASSUME NEW k \in Key, ClearWeak(k) PROVE Map!Next
  <2>1. hash' = hash /\ t' = Cleared(t, k) /\ iter' = iter /\ luaH_get(t, k) # Nil
    BY <1>7 DEF ClearWeak, Cleared
  <2> DEFINE v == Nil
  <2>2. v \in Val \cup {Nil} /\ Sets(t, t', k, v)
    BY <1>1, <2>1, ClearKeeps
  <2> HIDE DEF v
  <2>3. Map!Set
    BY <2>1, <2>2, MapSet
  <2>4. QED
    BY <2>3 DEF Map!Next
<1>8. ASSUME NextField PROVE Map!Next \/ UNCHANGED Map!vars
  <2> DEFINE k == Entries(t)[Min(Following(t, iter.key))]
  <2>1. Following(t, iter.key) # {} /\ hash' = hash /\ t' = t
    BY <1>8 DEF NextField
  <2>2. iter' = IF iter.state = "undefined" THEN [iter EXCEPT !.key = k]
                ELSE [state |-> "on", key |-> k, seen |-> iter.seen \cup {k}]
    BY <1>8 DEF NextField
  <2> HIDE DEF k
  <2>3. Content' = Content
    BY <1>4, <2>1
  <2>4. CASE iter.state = "undefined"
    <3>1. iter'.state = iter.state /\ iter'.seen = iter.seen
      BY <1>1, <2>2, <2>4 DEF IterOK
    <3>2. QED
      BY <2>3, <3>1 DEF Map!vars, Content
  <2>5. CASE iter.state # "undefined"
    <3>1. iter'.state = "on" /\ iter'.seen = iter.seen \cup {k}
      BY <2>2, <2>5
    <3>2. Returned(t, iter.key, iter.seen)
      BY <1>3, <2>5 DEF ProgressIs
    <3>3. k \in Key /\ luaH_get(t, k) # Nil /\ k \notin iter.seen
      BY <1>1, <1>2, <2>1, <3>2, Advance DEF k
    <3>4. iter.state # "on" => iter.seen = {}
      BY <1>3 DEF ProgressIs
    <3>5. Map!Visit(k)
      BY <2>3, <2>5, <3>1, <3>3, <3>4 DEF Map!Visit, Content
    <3>6. QED
      BY <3>3, <3>5 DEF Map!Next
  <2>6. QED
    BY <2>4, <2>5
<1>9. ASSUME NextNil PROVE Map!Next
  <2>1. /\ Following(t, iter.key) = {} /\ hash' = hash /\ t' = t
        /\ iter'.state = "done" /\ iter'.seen = {}
    BY <1>9 DEF NextNil
  <2>2. Content' = Content
    BY <1>4, <2>1
  <2>3. CASE iter.state = "undefined"
    <3>1. Map!Undefined
      BY <2>1, <2>2, <2>3 DEF Map!Undefined, Content
    <3>2. QED
      BY <3>1 DEF Map!Next
  <2>4. CASE iter.state # "undefined"
    <3>1. Returned(t, iter.key, iter.seen) /\ (iter.state # "on" => iter.seen = {})
      BY <1>3, <2>4 DEF ProgressIs
    <3>2. \A k \in Key : luaH_get(t, k) # Nil => k \in iter.seen
      BY <1>1, <1>2, <2>1, <3>1, AllReturned
    <3>3. \A k \in Key : Content[k] # Nil => iter.state = "on" /\ k \in iter.seen
      BY <3>1, <3>2 DEF Content
    <3>4. Map!Done
      BY <2>1, <2>2, <3>3 DEF Map!Done, Content
    <3>5. QED
      BY <3>4 DEF Map!Next
  <2>5. QED
    BY <2>3, <2>4
<1>10. ASSUME NextInvalid PROVE Map!Next
  <2>1. /\ ~Known(t, iter.key) /\ hash' = hash /\ t' = t
        /\ iter'.state = "error" /\ iter'.seen = {}
    BY <1>10 DEF NextInvalid
  <2>2. Content' = Content
    BY <1>4, <2>1
  <2>3. iter.state = "undefined"
    BY <1>2, <1>3, <2>1 DEF ProgressIs, Known
  <2>4. Map!Undefined
    BY <2>1, <2>2, <2>3 DEF Map!Undefined, Content
  <2>5. QED
    BY <2>4 DEF Map!Next
<1>11. ASSUME Break PROVE Map!Next
  <2>1. hash' = hash /\ t' = t /\ iter'.state = "none" /\ iter'.seen = {}
    BY <1>11 DEF Break
  <2>2. Content' = Content
    BY <1>4, <2>1
  <2>3. Map!Break
    BY <2>1, <2>2 DEF Map!Break, Content
  <2>4. QED
    BY <2>3 DEF Map!Next
<1>12. CASE UNCHANGED tablevars
  <2>1. hash' = hash /\ t' = t /\ iter' = iter
    BY <1>12 DEF tablevars
  <2>2. Content' = Content
    BY <1>4, <2>1
  <2>3. QED
    BY <2>1, <2>2 DEF Map!vars, Content
<1>13. QED
  BY <1>5, <1>6, <1>7, <1>8, <1>9, <1>10, <1>11, <1>12 DEF TableNext

\* ImplementsMap: array, nodes, chains, rehashes, dead keys and next() amount to
\* a map, and to a traversal that returns every field once while the program
\* only changes or clears fields that are there (ltable.c).
THEOREM TableImplementsMap == TableSpec => ImplementsMap
<1>1. TableInit => Map!Init
  BY MapInit
<1>2. TableInv /\ Progress /\ [TableNext]_tablevars => [Map!Next]_Map!vars
  BY MapStep
<1>3. QED
  BY <1>1, <1>2, TableInvariant, TableProgress, PTL DEF TableSpec, ImplementsMap, Map!Spec
=============================================================================

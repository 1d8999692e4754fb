------------------------------ MODULE LuaTable ------------------------------
(***************************************************************************)
(* Tables, ltable.c: an array part for the keys 1..n, and a hash part of a *)
(* power of two of nodes, chained inside the node vector itself.  A node   *)
(* whose field was set to nil keeps its key, which the collector may mark  *)
(* dead; only rehash, when no free node is left, drops such keys.          *)
(*                                                                         *)
(* A table is a record: array, a sequence; node, a function on the         *)
(* positions 0..sizenode-1, empty for the dummynode; lastfree, the node    *)
(* above all that getfreepos has not looked at; full, whether rehash ran   *)
(* out of nodes while it put fields back.  The hash of a key is any number, *)
(* chosen once.  Left out: metamethods, the cache of their absence, and    *)
(* errors for lack of memory.                                              *)
(***************************************************************************)
EXTENDS Integers, Sequences, FiniteSets, SequencesExt, FiniteSetsExt, TLC

CONSTANTS
  Key,        \* keys; of the numbers only integers
  StringKeys, \* ... and booleans, whose position goes by hashpow2, not by hashmod
  ObjectKeys, \* ... that the collector marks dead: all collectable ones
  Val, Nil,
  Hashes      \* the hash functions that keys may have

NONE == -1

ASSUME KeyAssumption ==
  /\ StringKeys \cup ObjectKeys \subseteq Key
  /\ Nil \notin Key \cup Val
ASSUME HashAssumption == Hashes \subseteq [Key -> Nat]

VARIABLES
  hash,       \* of every key
  t,          \* the table
  iter        \* the traversal: its state, the last key and, for the properties, all keys

tablevars == <<hash, t, iter>>

-----------------------------------------------------------------------------
(* Positions and chains.                                                   *)

Positions(T) == DOMAIN T.node
isdummy(T)   == Positions(T) = {}
sizenode(T)  == IF isdummy(T) THEN 1 ELSE Cardinality(Positions(T))

mainposition(T, k) ==
  IF k \in StringKeys THEN hash[k] % sizenode(T)
  ELSE hash[k] % (IF sizenode(T) = 1 THEN 1 ELSE sizenode(T) - 1)

\* The loops over chains: from node p on to the first one of stop, or to NONE.
Along(T, p, stop) ==
  LET find[q \in Positions(T) \cup {NONE}] ==
        IF q \in stop \cup {NONE} THEN q ELSE find[T.node[q].next]
  IN  find[p]

\* The nodes with a key; only next() takes dead ones.
With(T, k, dead) == {p \in Positions(T) : T.node[p].key = k /\ (dead \/ ~T.node[p].dead)}

\* The first one of them, from k's main position on.
Find(T, k, dead) ==
  IF isdummy(T) THEN NONE ELSE Along(T, mainposition(T, k), With(T, k, dead))

\* The node of a key ...
node(T, k) == Find(T, k, FALSE)

\* Mutant: next() does not accept dead keys.
anynode_LiveOnly(T, k) == Find(T, k, FALSE)

\* ... and the first one that has it, be it dead.
anynode(T, k) == Find(T, k, TRUE)

InArray(T, k) == k \in 1..Len(T.array)

gval(T) == [p \in Positions(T) \cup {NONE} |-> IF p = NONE THEN Nil ELSE T.node[p].val]

luaH_get(T, k) ==
  IF InArray(T, k) THEN T.array[k]
  ELSE gval(T)[IF k \in Key THEN node(T, k) ELSE NONE]   \* luaH_getn asks for any integer

-----------------------------------------------------------------------------
(* New keys.                                                               *)

\* getfreepos: from lastfree down, the first node that never had a key.
Free(T) == {p \in 0..T.lastfree - 1 : T.node[p].key = Nil}
getfreepos(T) == Max(Free(T))

EmptyNode == [key |-> Nil, dead |-> FALSE, val |-> Nil, next |-> NONE]
NewNode(k, next) == [key |-> k, dead |-> FALSE, val |-> Nil, next |-> next]

Vacant(T, p) == ~isdummy(T) /\ T.node[p].val = Nil

\* Mutant: the rest of the chain is lost behind the new node.
Moved_LosesRest(T, k, mp, n) ==
  LET other == mainposition(T, T.node[mp].key)
      prev == Along(T, other, {p \in Positions(T) : T.node[p].next = mp})
  IN  IF other # mp
      THEN [T.node EXCEPT ![prev].next = n, ![n] = T.node[mp], ![mp] = NewNode(k, NONE)]
      ELSE [T.node EXCEPT ![n] = NewNode(k, NONE), ![mp].next = n]

\* Mutant: the colliding node stays where it is, in whatever chain.
Moved_NewOnly(T, k, mp, n) ==
  [T.node EXCEPT ![n] = NewNode(k, T.node[mp].next), ![mp].next = n]

\* newkey, mp being k's main position, where there is no room for it: the node
\* there goes to a free position if it is not in its own main position, and
\* the new key does if it is.
Moved(T, k, mp, n) ==
  LET other == mainposition(T, T.node[mp].key)
      prev == Along(T, other, {p \in Positions(T) : T.node[p].next = mp})
  IN  IF other # mp
      THEN [T.node EXCEPT ![prev].next = n, ![n] = T.node[mp], ![mp] = NewNode(k, NONE)]
      ELSE [T.node EXCEPT ![n] = NewNode(k, T.node[mp].next), ![mp].next = n]

\* Mutant: getfreepos goes one node too far down.
newkey_Skips(T, k) ==
  LET mp == mainposition(T, k) IN
  IF Vacant(T, mp)
  THEN [T EXCEPT !.node[mp] = NewNode(k, T.node[mp].next)]
  ELSE IF Free(T) = {} THEN [T EXCEPT !.full = TRUE]
  ELSE [T EXCEPT !.node = Moved(T, k, mp, getfreepos(T)),
                 !.lastfree = IF getfreepos(T) = 0 THEN 0 ELSE getfreepos(T) - 1]

\* newkey, as far as it needs no rehash.
newkey(T, k) ==
  LET mp == mainposition(T, k) IN
  IF Vacant(T, mp)
  THEN [T EXCEPT !.node[mp] = NewNode(k, T.node[mp].next)]
  ELSE IF Free(T) = {} THEN [T EXCEPT !.full = TRUE]
  ELSE [T EXCEPT !.node = Moved(T, k, mp, getfreepos(T)), !.lastfree = getfreepos(T)]

HasRoom(T, k) ==
  InArray(T, k) \/ node(T, k) # NONE \/ Vacant(T, mainposition(T, k)) \/ Free(T) # {}

Store(T, k, v) ==
  IF InArray(T, k) THEN [T EXCEPT !.array[k] = v]
  ELSE IF T.full THEN T
  ELSE [T EXCEPT !.node[node(T, k)].val = v]

\* luaH_set and the assignment to the field it returns.
Assign(T, k, v) ==
  Store(IF InArray(T, k) \/ node(T, k) # NONE THEN T ELSE newkey(T, k), k, v)

-----------------------------------------------------------------------------
(* Rehash.                                                                 *)

Pow2(i) == LET pow[n \in 0..i] == IF n = 0 THEN 1 ELSE 2 * pow[n - 1] IN pow[i]
ceillog2(n) == CHOOSE i \in 0..n : Pow2(i) >= n /\ (i = 0 \/ Pow2(i - 1) < n)

\* Mutant: the new key is not counted.
Used_WithoutNew(T, ek) ==
  {k \in 1..Len(T.array) : T.array[k] # Nil}
    \cup {T.node[p].key : p \in {q \in Positions(T) : T.node[q].val # Nil}}

\* The fields that rehash counts, with the key ek it makes room for.
Used(T, ek) ==
  {k \in 1..Len(T.array) : T.array[k] # Nil}
    \cup {T.node[p].key : p \in {q \in Positions(T) : T.node[q].val # Nil}}
    \cup {ek}

\* computesizes: the largest power of two such that more than half of the
\* slots up to it are in use, by the integer keys of ints; the loop looks at no
\* slice that it needs not look at.  (No key here is above MAXASIZE.)
SizeOK(ints, i) ==
  LET upto(j) == Cardinality({k \in ints : k <= Pow2(j)}) IN
  /\ Pow2(i) \div 2 < Cardinality(ints)
  /\ upto(i) > Pow2(i) \div 2
  /\ i > 0 => upto(i) > upto(i - 1)

computesizes(ints) ==
  LET sizes == {i \in 0..Cardinality(ints) : SizeOK(ints, i)}
  IN  IF sizes = {} THEN 0 ELSE Pow2(Max(sizes))

NodeVector(size) ==
  [p \in 0..(IF size = 0 THEN 0 ELSE Pow2(ceillog2(size))) - 1 |-> EmptyNode]

\* What resize puts back: the slots that the array loses, from the lowest up,
\* then the nodes of the old hash part, from the highest down.
Vanishing(T, nasize) ==
  [i \in 1..(IF Len(T.array) > nasize THEN Len(T.array) - nasize ELSE 0) |->
     <<nasize + i, T.array[nasize + i]>>]
OldNodes(T) ==
  [i \in 1..Cardinality(Positions(T)) |->
     LET p == Cardinality(Positions(T)) - i IN <<T.node[p].key, T.node[p].val>>]

\* Every field that is there goes back, one after the other.
PutBack(T, fields) ==
  LET put[n \in 0..Len(fields)] ==
        LET U == put[n - 1] IN
        IF n = 0 THEN T
        ELSE IF fields[n][2] = Nil THEN U ELSE Assign(U, fields[n][1], fields[n][2])
  IN  put[Len(fields)]

resize(T, nasize, nhsize) ==
  LET bare == [array |-> [i \in 1..nasize |-> IF InArray(T, i) THEN T.array[i] ELSE Nil],
               node |-> NodeVector(nhsize),
               lastfree |-> Cardinality(DOMAIN NodeVector(nhsize)),
               full |-> FALSE]
  IN  PutBack(PutBack(bare, Vanishing(T, nasize)), OldNodes(T))

rehash(T, ek) ==
  LET used == Used(T, ek)
      ints == {k \in used : k \in Nat \ {0}}
      nasize == computesizes(ints)
      na == Cardinality({k \in ints : k <= nasize})
  IN  resize(T, nasize, Cardinality(used) - na)

-----------------------------------------------------------------------------
(* Borders.                                                                *)

\* The binary search between i and j, of a border below j; it is over in less than j steps.
binsearch(T, i, j) ==
  LET between[n \in 0..j] ==
        LET q == between[n - 1]
            m == (q[1] + q[2]) \div 2
        IN  IF n = 0 THEN <<i, j>>
            ELSE IF q[2] - q[1] <= 1 THEN q
            ELSE IF luaH_get(T, m) = Nil THEN <<q[1], m>> ELSE <<m, q[2]>>
  IN  between[j][1]

\* unbound_search doubles j until it finds nil there; j is 0 or a present index,
\* and every index that it finds is in a node.  (No key here is so large that
\* the doubling overflows.)
unbound_search(T, j) ==
  LET bound[n \in 0..sizenode(T)] == IF n = 0 THEN j + 1 ELSE 2 * bound[n - 1]
      last == CHOOSE n \in 0..sizenode(T) :
                /\ luaH_get(T, bound[n]) = Nil
                /\ \A m \in 0..n - 1 : luaH_get(T, bound[m]) # Nil
  IN  binsearch(T, IF last = 0 THEN j ELSE bound[last - 1], bound[last])

\* Mutant: a full array part is all of the list.
luaH_getn_ArrayOnly(T) ==
  LET j == Len(T.array) IN
  IF j > 0 /\ T.array[j] = Nil THEN binsearch(T, 0, j) ELSE j

luaH_getn(T) ==
  LET j == Len(T.array) IN
  IF j > 0 /\ T.array[j] = Nil THEN binsearch(T, 0, j)
  ELSE IF isdummy(T) THEN j
  ELSE unbound_search(T, j)

-----------------------------------------------------------------------------
(* Traversal.                                                              *)

\* findindex: the first node in the chain that has the key, be it dead.
findindex(T, k) ==
  IF k = Nil THEN -1
  ELSE IF InArray(T, k) THEN k - 1
  ELSE Len(T.array) + anynode(T, k)

\* The keys of a table by index, those that have no value left out.
Entries(T) ==
  LET n == Len(T.array)
      indices == {j \in 0..n - 1 : T.array[j + 1] # Nil}
                   \cup {n + p : p \in {q \in Positions(T) : T.node[q].val # Nil}}
  IN  [i \in indices |-> IF i < n THEN i + 1 ELSE T.node[i - n].key]

Following(T, k) == {i \in DOMAIN Entries(T) : i > findindex(T, k)}

-----------------------------------------------------------------------------
(* The program and the collector.                                          *)

\* luaV_settable, or lua_rawset: the field is made even if v is nil.  The bound:
\* once a traversal is undefined or at its end, the program sets nothing more
\* before it has left the loop.
Set(k, v) ==
  /\ iter.state \in {"none", "on"}
  /\ t' = Assign(IF HasRoom(t, k) THEN t ELSE rehash(t, k), k, v)
  /\ iter' = IF iter.state = "on" /\ luaH_get(t, k) = Nil
             THEN [iter EXCEPT !.state = "undefined", !.seen = {}] ELSE iter
  /\ UNCHANGED hash

\* traversetable: the collector marks keys without a value dead ...
MarkDead ==
  /\ t' = [t EXCEPT !.node = [p \in Positions(t) |->
              IF t.node[p].val = Nil /\ t.node[p].key \in ObjectKeys
              THEN [t.node[p] EXCEPT !.dead = TRUE] ELSE t.node[p]]]
  /\ UNCHANGED <<hash, iter>>

\* ... and cleartable takes values out of weak tables, with their keys.
ClearWeak(k) ==
  /\ luaH_get(t, k) # Nil
  /\ t' = IF InArray(t, k) THEN [t EXCEPT !.array[k] = Nil]
          ELSE [t EXCEPT !.node[node(t, k)] = [@ EXCEPT !.val = Nil, !.dead = k \in ObjectKeys]]
  /\ UNCHANGED <<hash, iter>>

\* A key that findindex finds: no key at all, for the first field, is one.
Known(T, k) == IF k = Nil THEN TRUE ELSE InArray(T, k) \/ anynode(T, k) # NONE

\* luaH_next returns a field ...
NextField ==
  /\ Known(t, iter.key)
  /\ Following(t, iter.key) # {}
  /\ LET k == Entries(t)[Min(Following(t, iter.key))] IN
     iter' = IF iter.state = "undefined" THEN [iter EXCEPT !.key = k]
             ELSE [state |-> "on", key |-> k, seen |-> iter.seen \cup {k}]
  /\ UNCHANGED <<hash, t>>

\* ... or nil ...
NextNil ==
  /\ Known(t, iter.key)
  /\ Following(t, iter.key) = {}
  /\ iter' = [state |-> "done", key |-> Nil, seen |-> {}]
  /\ UNCHANGED <<hash, t>>

\* ... or raises "invalid key to 'next'".
NextInvalid ==
  /\ ~Known(t, iter.key)
  /\ iter' = [state |-> "error", key |-> Nil, seen |-> {}]
  /\ UNCHANGED <<hash, t>>

\* The program leaves the loop.
Break ==
  /\ iter' = [state |-> "none", key |-> Nil, seen |-> {}]
  /\ UNCHANGED <<hash, t>>

TableInit ==
  /\ hash \in Hashes
  /\ t = [array |-> <<>>, node |-> NodeVector(0), lastfree |-> 0, full |-> FALSE]
  /\ iter = [state |-> "none", key |-> Nil, seen |-> {}]

TableNext ==
  \/ \E k \in Key, v \in Val \cup {Nil} : Set(k, v)
  \/ MarkDead
  \/ \E k \in Key : ClearWeak(k)
  \/ NextField \/ NextNil \/ NextInvalid \/ Break

TableSpec == TableInit /\ [][TableNext]_tablevars

-----------------------------------------------------------------------------
(* Properties.                                                             *)

NodesAt(P) ==
  [key : Key \cup {Nil}, dead : BOOLEAN, val : Val \cup {Nil}, next : P \cup {NONE}]

\* The type of a table; and only an object without a value is dead.
Typed(T) ==
  /\ IsFiniteSet(Positions(T)) /\ Positions(T) = 0..Cardinality(Positions(T)) - 1
  /\ T \in [array : Seq(Val \cup {Nil}), node : [Positions(T) -> NodesAt(Positions(T))],
            lastfree : 0..Cardinality(Positions(T)), full : BOOLEAN]
  /\ \A p \in Positions(T) : T.node[p].dead => T.node[p].key \in ObjectKeys /\ T.node[p].val = Nil

\* No chain runs in a circle: from every set of nodes, one leads out.
NoCircle(T) == \A S \in SUBSET Positions(T) : S # {} => \E p \in S : T.node[p].next \notin S

\* The types of all variables.
TableTypeOK ==
  /\ hash \in Hashes /\ Typed(t)
  /\ iter \in [state : {"none", "on", "done", "undefined", "error"}, key : Key \cup {Nil}, seen : SUBSET Key]

\* No chain runs in a circle, and every field of the hash part is in a node
\* that luaH_get finds, and in no other.
ChainsOK ==
  /\ TableTypeOK /\ NoCircle(t)
  /\ \A p \in Positions(t) : t.node[p].val # Nil =>
       ~InArray(t, t.node[p].key) /\ node(t, t.node[p].key) = p

\* "if an element is not in its main position (i.e. the `original' position
\* that its hash gives to it), then the colliding element is in its own main
\* position" (ltable.c:16-18).
MainInvariant ==
  \A p \in Positions(t) :
    LET mp == mainposition(t, t.node[p].key) IN
    t.node[p].val # Nil /\ mp # p => mainposition(t, t.node[mp].key) = mp

\* rehash makes room for the fields that there are and for the new one, so
\* that putting them back needs no other rehash.
RoomAfterRehash == ~t.full

\* The hash part is full before it is made again: getfreepos leaves no node
\* without a key behind.
NoneSkipped == \A p \in Positions(t) : p >= t.lastfree => t.node[p].key # Nil

\* The length of a table is a border: "t[n] is not nil and t[n+1] is nil"
\* (manual.html:1092), or 0 if t[1] is nil.
GetnIsBorder ==
  LET n == luaH_getn(t) IN
  /\ n = 0 \/ luaH_get(t, n) # Nil
  /\ luaH_get(t, n + 1) = Nil

-----------------------------------------------------------------------------
(* The invariant, on which these properties rest.                           *)

Main(T, p) == mainposition(T, T.node[p].key)
Keyed(T)   == {p \in Positions(T) : T.node[p].key # Nil}

\* No two nodes lead to the same one, and to one that was never used, none.
SinglyLinked(T) ==
  /\ \A p, q \in Positions(T) : T.node[p].next = T.node[q].next => p = q \/ T.node[p].next = NONE
  /\ \A p \in Positions(T) \ Keyed(T) :
       T.node[p] = EmptyNode /\ \A q \in Positions(T) : T.node[q].next # p

\* Every key can be reached from its main position ...
Reached(T) ==
  \A p \in Keyed(T) : \A S \in SUBSET Positions(T) :
    Main(T, p) \in S /\ (\A q \in S : T.node[q].next \in S \cup {NONE}) => p \in S

\* ... and before one that is not dead, no dead one of the same key ...
LiveFirst(T) ==
  \A p \in Keyed(T) : ~T.node[p].dead => \A S \in SUBSET Positions(T) :
    /\ Main(T, p) \in S
    /\ \A q \in S : T.node[q].key = T.node[p].key \/ T.node[q].next \in S \cup {NONE}
    => p \in S

\* ... where there is a key that has its main position there.
OwnFirst(T) == \A p \in Keyed(T) : Main(T, p) \in Keyed(T) /\ Main(T, Main(T, p)) = Main(T, p)

\* Only dead keys may occur twice, or in the array part, too.
OncePerKey(T) ==
  /\ \A p, q \in Keyed(T) :
       T.node[p].key = T.node[q].key => p = q \/ T.node[p].dead \/ T.node[q].dead
  /\ \A p \in Keyed(T) : ~InArray(T, T.node[p].key)

UsedFromTop(T) == \A p \in Positions(T) : p >= T.lastfree => p \in Keyed(T)

Chained(T) ==
  /\ Typed(T) /\ NoCircle(T) /\ SinglyLinked(T)
  /\ Reached(T) /\ LiveFirst(T) /\ OwnFirst(T) /\ OncePerKey(T) /\ UsedFromTop(T)

\* In the array part, too, only keys have values.
OnlyKeys(T) == \A i \in 1..Len(T.array) : T.array[i] # Nil => i \in Key

TableInv == TableTypeOK /\ Chained(t) /\ OnlyKeys(t) /\ ~t.full

\* What a traversal has returned: the fields up to that of its last key.
Progress ==
  /\ iter.state \in {"none", "done", "error"} => iter.key = Nil
  /\ iter.state # "on" => iter.seen = {}
  /\ iter.state = "on" => iter.key \in Key /\ Known(t, iter.key)
  /\ iter.state # "undefined" =>
       \A k \in Key : luaH_get(t, k) # Nil =>
         (k \in iter.seen <=> findindex(t, k) <= findindex(t, iter.key))

-----------------------------------------------------------------------------
\* Array, nodes, chains, rehashes, dead keys and next() amount to TableMap.
Map == INSTANCE TableMap WITH
         NIL <- Nil,
         content <- [k \in Key |-> luaH_get(t, k)],
         traversal <- iter.state,
         seen <- iter.seen
ImplementsMap == Map!Spec
=============================================================================

------------------------- MODULE LuaLibrary_proofs -------------------------
(***************************************************************************)
(* The parts of the library, each for any values of its constants: strings *)
(* with the same text are one (AlwaysInterned), a buffer keeps the text    *)
(* that is added to it (AlwaysKeepsText), the string functions give what   *)
(* the manual says where their matcher does (AlwaysAsManual), require      *)
(* calls the code of a module once (AlwaysLoadsOnce), and references stand *)
(* for their objects, for a program that disposes of a LuaThread once, as  *)
(* LuaBase makes sure for the other holders (RefsAlwaysHold).              *)
(***************************************************************************)
EXTENDS LuaStringTable, LuaBuffer, LuaStrlib, LuaLoader, LuaRef, FiniteSetTheorems, SequenceTheorems, Ranges

-----------------------------------------------------------------------------
(* The string table (LuaStringTable).                                      *)

Colors == {"free", "white", "other", "black"}

\* The invariant: Interned, types, and where the sweep is.
InternInv ==
  /\ Interned
  /\ color \in [String -> Colors] /\ held \in SUBSET String
  /\ gcstate \in {"propagate", "sweepstring", "sweep"} /\ sweepstrgc \in Nat
  /\ IsFiniteSet(Allocated)
  /\ gcstate = "sweepstring" => sweepstrgc < size(strt)

LEMMA Slot ==
  ASSUME NEW n \in Nat \ {0}, NEW s \in String
  PROVE  Hash[s] % n \in 0..n - 1
<1>1. Hash[s] \in Nat
  BY StringAssumption
<1>2. QED
  BY <1>1

\* How many chains there are.
LEMMA SizeOf ==
  ASSUME NEW h, NEW n \in Nat, NEW S, h \in [0..n - 1 -> S]
  PROVE  size(h) = n
<1>1. DOMAIN h = 0..n - 1 /\ n - 1 \in Int
  OBVIOUS
<1>2. Cardinality(0..n - 1) = n
  BY <1>1, FS_Interval
<1>3. QED
  BY <1>1, <1>2 DEF size

\* A sequence without repetitions is as long as it has members.
LEMMA Members ==
  ASSUME NEW s \in Seq(String), IsInjective(s)
  PROVE  IsFiniteSet(ToSet(s)) /\ Cardinality(ToSet(s)) = Len(s)
<1> DEFINE D == 1..Len(s)
           T == ToSet(s)
<1>1. Len(s) \in Nat /\ DOMAIN s = D /\ s \in [D -> String]
  OBVIOUS
<1>2. s \in Surjection(D, T) /\ s \in Injection(D, T)
  BY <1>1 DEF Surjection, Injection, ToSet, IsInjective
<1>3. IsFiniteSet(D) /\ Cardinality(D) = Len(s)
  <2>1. 1 \in Int /\ Len(s) \in Int
    BY <1>1
  <2>2. IsFiniteSet(D) /\ Cardinality(D) = IF 1 > Len(s) THEN 0 ELSE Len(s) - 1 + 1
    BY <2>1, FS_Interval, Zenon
  <2>3. QED
    BY <1>1, <2>2
<1> HIDE DEF D, T
<1>4. IsFiniteSet(T) /\ Cardinality(T) = Cardinality(D)
  BY <1>2, <1>3, FS_Surjection
<1>5. QED
  BY <1>3, <1>4 DEF T

\* A string before a chain.
LEMMA InFront ==
  ASSUME NEW c \in Seq(String), NEW s \in String, IsInjective(c), s \notin ToSet(c)
  PROVE  /\ <<s>> \o c \in Seq(String) /\ IsInjective(<<s>> \o c)
         /\ ToSet(<<s>> \o c) = ToSet(c) \cup {s}
<1> DEFINE d == <<s>> \o c
<1>1. /\ d \in Seq(String) /\ Len(d) = Len(c) + 1 /\ Len(c) \in Nat
      /\ d[1] = s /\ \A i \in 1..Len(c) : d[i + 1] = c[i]
  OBVIOUS
<1>2. DOMAIN d = 1..Len(c) + 1 /\ DOMAIN c = 1..Len(c)
  BY <1>1
<1> HIDE DEF d
<1>3. \A i \in 1..Len(c) + 1 : i = 1 \/ (i - 1 \in 1..Len(c) /\ d[i] = c[i - 1])
  <2>1. ASSUME NEW i \in 1..Len(c) + 1, i # 1 PROVE i - 1 \in 1..Len(c) /\ (i - 1) + 1 = i
    BY <1>1, <2>1
  <2>2. QED
    BY <1>1, <2>1
<1>4. ToSet(d) = ToSet(c) \cup {s}
  <2>1. ASSUME NEW i \in 1..Len(c) PROVE i + 1 \in 1..Len(c) + 1
    BY <1>1
  <2>2. 1 \in 1..Len(c) + 1
    BY <1>1
  <2>3. \A x \in ToSet(d) : x \in ToSet(c) \cup {s}
    BY <1>1, <1>2, <1>3 DEF ToSet
  <2>4. \A i \in 1..Len(c) : c[i] \in ToSet(d)
    BY <1>1, <1>2, <2>1 DEF ToSet
  <2>5. \A x \in ToSet(c) : x \in ToSet(d)
    BY <1>2, <2>4 DEF ToSet
  <2>6. s \in ToSet(d)
    BY <1>1, <1>2, <2>2 DEF ToSet
  <2>7. QED
    BY <2>3, <2>5, <2>6
<1>5. IsInjective(d)
  <2>1. ASSUME NEW i \in 1..Len(c) + 1, NEW j \in 1..Len(c) + 1, d[i] = d[j] PROVE i = j
    <3>1. \A k \in 1..Len(c) : c[k] # s
      BY <1>2 DEF ToSet
    <3>2. CASE i = 1 /\ j = 1
      BY <3>2
    <3>3. CASE i = 1 /\ j # 1
      BY <1>1, <1>3, <2>1, <3>1, <3>3
    <3>4. CASE i # 1 /\ j = 1
      BY <1>1, <1>3, <2>1, <3>1, <3>4
    <3>5. CASE i # 1 /\ j # 1
      <4>1. c[i - 1] = c[j - 1] /\ i - 1 \in 1..Len(c) /\ j - 1 \in 1..Len(c)
        BY <1>3, <2>1, <3>5
      <4>2. i - 1 = j - 1
        BY <1>2, <4>1 DEF IsInjective
      <4>3. QED
        BY <4>2
    <3>6. QED
      BY <3>2, <3>3, <3>4, <3>5
  <2>2. QED
    BY <1>2, <2>1 DEF IsInjective
<1>6. QED
  BY <1>1, <1>4, <1>5 DEF d

\* A string is put in.
LEMMA PutIn ==
  ASSUME NEW h, NEW n, NEW A \in SUBSET String, IsTable(h, n, A), NEW s \in String, s \notin A
  PROVE  IsTable(PutFirst(h, n, s), n, A \cup {s})
<1> DEFINE b == Hash[s] % n
           g == PutFirst(h, n, s)
<1>1. n \in Nat \ {0} /\ h \in [0..n - 1 -> Seq(String)]
  BY DEF IsTable
<1>2. b \in 0..n - 1
  BY <1>1, Slot
<1>3. h[b] \in Seq(String) /\ IsInjective(h[b]) /\ s \notin ToSet(h[b])
  BY <1>1, <1>2 DEF IsTable
<1>4. /\ <<s>> \o h[b] \in Seq(String) /\ IsInjective(<<s>> \o h[b])
      /\ ToSet(<<s>> \o h[b]) = ToSet(h[b]) \cup {s}
  BY <1>3, InFront
<1> DEFINE d == <<s>> \o h[b]
<1> HIDE DEF d
<1>5. g = [h EXCEPT ![b] = d]
  BY DEF PutFirst, d
<1> HIDE DEF g, b
<1>6. g \in [0..n - 1 -> Seq(String)] /\ g[b] = d /\ \A i \in 0..n - 1 : i # b => g[i] = h[i]
  BY <1>1, <1>2, <1>4, <1>5 DEF d
<1>7. ASSUME NEW i \in 0..n - 1
      PROVE  IsInjective(g[i]) /\ ToSet(g[i]) = {x \in A \cup {s} : Hash[x] % n = i}
  <2>1. IsInjective(h[i]) /\ ToSet(h[i]) = {x \in A : Hash[x] % n = i}
    BY DEF IsTable
  <2>2. CASE i = b
    BY <1>4, <1>6, <2>1, <2>2 DEF d, b
  <2>3. CASE i # b
    BY <1>6, <2>1, <2>3 DEF b
  <2>4. QED
    BY <2>2, <2>3
<1>8. QED
  BY <1>1, <1>6, <1>7 DEF IsTable, g

\* A string put in any list of chains.
LEMMA PutType ==
  ASSUME NEW m \in Nat \ {0}, NEW x \in [0..m - 1 -> Seq(String)], NEW c \in String
  PROVE  PutFirst(x, m, c) \in [0..m - 1 -> Seq(String)]
<1>1. Hash[c] % m \in 0..m - 1
  BY Slot
<1>2. x[Hash[c] % m] \in Seq(String)
  BY <1>1
<1>3. <<c>> \o x[Hash[c] % m] \in Seq(String)
  BY <1>2
<1>4. QED
  BY <1>1, <1>3 DEF PutFirst

\* The loop over a chain: what it has made after each string.
Moves(moved, h, m, chain) ==
  /\ moved \in [0..Len(chain) -> [0..m - 1 -> Seq(String)]]
  /\ moved[0] = h
  /\ \A n \in 0..Len(chain) - 1 : moved[n + 1] = PutFirst(moved[n], m, chain[n + 1])
  /\ MoveChain(h, m, chain) = moved[Len(chain)]

LEMMA ChainLoop ==
  ASSUME NEW m \in Nat \ {0}, NEW h \in [0..m - 1 -> Seq(String)], NEW chain \in Seq(String)
  PROVE  \E moved : Moves(moved, h, m, chain)
<1> DEFINE N == Len(chain)
           Body(f) == [n \in 0..N |-> IF n = 0 THEN h ELSE PutFirst(f[n - 1], m, chain[n])]
           moved == CHOOSE f : f = Body(f)
           S == [0..m - 1 -> Seq(String)]
           step == [n \in 1..N |-> [x \in S |-> PutFirst(x, m, chain[n])]]
<1>1. h \in S /\ N \in Nat /\ \A n \in 1..N : chain[n] \in String
  OBVIOUS
<1>2. \A n \in 1..N, x \in S : PutFirst(x, m, chain[n]) \in S
  BY <1>1, PutType
<1>3. step \in [1..N -> [S -> S]]
  <2> HIDE DEF S
  <2>1. QED BY <1>2
<1>4. Loops(N, S, h, step)
  <2> HIDE DEF S, step, N
  <2>1. QED BY <1>1, <1>3, RangeRecursion
<1>5. PICK g \in [0..N -> S] : g[0] = h /\ \A n \in 1..N : g[n] = step[n][g[n - 1]]
  BY <1>4 DEF Loops
<1>6. g = Body(g)
  <2>1. ASSUME NEW n \in 0..N, n # 0 PROVE g[n] = PutFirst(g[n - 1], m, chain[n])
    <3>1. n \in 1..N /\ n - 1 \in 0..N
      BY <1>1, <2>1
    <3>2. g[n - 1] \in S
      BY <3>1
    <3> HIDE DEF S
    <3>3. QED
      BY <1>5, <3>1, <3>2
  <2>2. QED
    BY <1>5, <2>1
<1>7. moved = Body(moved)
  <2> HIDE DEF Body
  <2>1. QED BY <1>6
<1>8. MoveChain(h, m, chain) = moved[N]
  BY DEF MoveChain
<1> HIDE DEF moved, step
<1>9. moved[0] = h /\ \A n \in 0..N - 1 : moved[n + 1] = PutFirst(moved[n], m, chain[n + 1])
  <2>1. moved[0] = h
    BY <1>1, <1>7
  <2>2. ASSUME NEW n \in 0..N - 1 PROVE moved[n + 1] = PutFirst(moved[n], m, chain[n + 1])
    <3>1. n + 1 \in 0..N /\ n + 1 # 0 /\ (n + 1) - 1 = n
      BY <1>1
    <3>2. QED
      BY <1>7, <3>1
  <2>3. QED
    BY <2>1, <2>2
<1> DEFINE C == {n \in 0..N : moved[n] \in S}
<1>10. 0 \in C /\ \A n \in 0..N - 1 : n \in C => n + 1 \in C
  <2>1. 0 \in C
    BY <1>1, <1>9
  <2>2. ASSUME NEW n \in 0..N - 1, n \in C PROVE n + 1 \in C
    <3>1. n + 1 \in 1..N /\ n + 1 \in 0..N /\ moved[n] \in S
      BY <1>1, <2>2
    <3> HIDE DEF S
    <3>2. PutFirst(moved[n], m, chain[n + 1]) \in S
      BY <1>2, <3>1
    <3>3. QED
      BY <1>9, <3>1, <3>2
  <2>3. QED
    BY <2>1, <2>2
<1>11. 0..N \subseteq C
  <2> HIDE DEF C
  <2>1. QED BY <1>1, <1>10, RangeInduction
<1>12. moved \in [0..N -> S]
  <2>1. DOMAIN moved = 0..N /\ moved = [n \in 0..N |-> moved[n]]
    BY <1>7
  <2> HIDE DEF S
  <2>2. QED
    BY <1>11, <2>1
<1>13. QED
  BY <1>8, <1>9, <1>12 DEF Moves

\* All strings of a chain are put in.
LEMMA ChainMoves ==
  ASSUME NEW h, NEW m, NEW A \in SUBSET String, IsTable(h, m, A),
         NEW chain \in Seq(String), IsInjective(chain), ToSet(chain) \cap A = {}
  PROVE  IsTable(MoveChain(h, m, chain), m, A \cup ToSet(chain))
<1> DEFINE N == Len(chain)
<1>1. /\ m \in Nat \ {0} /\ h \in [0..m - 1 -> Seq(String)] /\ N \in Nat /\ DOMAIN chain = 1..N
      /\ 0 \in 0..N /\ N \in 0..N
      /\ \A n \in 1..N : chain[n] \in String /\ chain[n] \in ToSet(chain)
  BY DEF IsTable, ToSet
<1>2. PICK moved : Moves(moved, h, m, chain)
  BY <1>1, ChainLoop
<1>8. moved[0] = h /\ \A n \in 0..N - 1 : moved[n + 1] = PutFirst(moved[n], m, chain[n + 1])
  BY <1>2 DEF Moves
<1> DEFINE First(n) == {chain[j] : j \in 1..n}
           C == {n \in 0..N : IsTable(moved[n], m, A \cup First(n))}
<1>9. 0 \in C
  <2>1. A \cup First(0) = A
    OBVIOUS
  <2>2. IsTable(moved[0], m, A)
    BY <1>8
  <2> HIDE DEF First, N
  <2>3. QED
    BY <1>1, <2>1, <2>2
<1>10. ASSUME NEW n \in 0..N - 1, n \in C PROVE n + 1 \in C
  <2> DEFINE T == moved[n]
             B == A \cup First(n)
             c == chain[n + 1]
  <2>1. n + 1 \in 1..N /\ n + 1 \in 0..N /\ n \in Nat
    BY <1>1
  <2>2. c \in String /\ B \in SUBSET String /\ c \notin A
    <3>1. c \in String /\ c \in ToSet(chain)
      BY <1>1, <2>1
    <3>2. \A j \in 1..n : j \in 1..N
      BY <1>1, <2>1
    <3>3. QED
      BY <1>1, <3>1, <3>2
  <2>3. c \notin First(n)
    <3>1. ASSUME NEW j \in 1..n PROVE j \in 1..N /\ j # n + 1
      BY <1>1, <2>1
    <3>2. QED
      BY <1>1, <2>1, <3>1 DEF IsInjective
  <2>4. IsTable(T, m, B)
    BY <1>10
  <2>5. First(n + 1) = First(n) \cup {c}
    <3>1. 1..n + 1 = 1..n \cup {n + 1}
      BY <2>1
    <3>2. QED
      BY <3>1
  <2> DEFINE U == PutFirst(T, m, c)
  <2>6. B \cup {c} = A \cup First(n + 1)
    BY <2>5
  <2>7. moved[n + 1] = U
    BY <1>8
  <2> HIDE DEF T, B, c
  <2>8. IsTable(U, m, B \cup {c})
    <3>1. c \notin B
      BY <2>2, <2>3 DEF B, c
    <3>2. QED
      BY <2>2, <2>4, <3>1, PutIn
  <2> HIDE DEF U
  <2>9. QED
    BY <2>1, <2>6, <2>7, <2>8
<1>11. N \in C
  <2> HIDE DEF C, N
  <2>1. 0..N \subseteq C
    BY <1>1, <1>9, <1>10, RangeInduction
  <2>2. QED
    BY <1>1, <2>1
<1>12. First(N) = ToSet(chain)
  BY <1>1 DEF ToSet
<1>13. MoveChain(h, m, chain) = moved[N]
  BY <1>2 DEF Moves
<1>14. QED
  BY <1>11, <1>12, <1>13

\* The loop over the chains.
LEMMA Resizes ==
  ASSUME NEW h, NEW n, NEW A \in SUBSET String, IsTable(h, n, A), NEW m \in Nat \ {0},
         gcstate # "sweepstring"
  PROVE  IsTable(luaS_resize(h, m), m, A)
<1> DEFINE S == [0..m - 1 -> Seq(String)]
           base == [i \in 0..m - 1 |-> <<>>]
           Body(f) == [k \in 0..n |-> IF k = 0 THEN base ELSE MoveChain(f[k - 1], m, h[k - 1])]
           made == CHOOSE f : f = Body(f)
           step == [k \in 1..n |-> [x \in S |-> MoveChain(x, m, h[k - 1])]]
<1>1. n \in Nat \ {0} /\ h \in [0..n - 1 -> Seq(String)] /\ base \in S /\ 0 \in 0..n /\ n \in 0..n
  BY DEF IsTable
<1>2. size(h) = n
  BY <1>1, SizeOf
<1>3. luaS_resize(h, m) = made[n]
  BY <1>2 DEF luaS_resize
<1>4. \A k \in 1..n, x \in S : MoveChain(x, m, h[k - 1]) \in S
  <2> SUFFICES ASSUME NEW k \in 1..n, NEW x \in S PROVE MoveChain(x, m, h[k - 1]) \in S
    OBVIOUS
  <2> DEFINE c == h[k - 1]
  <2>1. c \in Seq(String) /\ Len(c) \in 0..Len(c)
    BY <1>1
  <2> HIDE DEF c
  <2>2. PICK moved : Moves(moved, x, m, c)
    BY <2>1, ChainLoop
  <2>3. MoveChain(x, m, c) \in S
    BY <2>1, <2>2 DEF Moves
  <2>4. QED
    BY <2>3 DEF c
<1>5. step \in [1..n -> [S -> S]]
  <2> HIDE DEF S
  <2>1. QED BY <1>4
<1>6. Loops(n, S, base, step)
  <2> HIDE DEF S, step, base
  <2>1. QED BY <1>1, <1>5, RangeRecursion
<1>7. PICK g \in [0..n -> S] : g[0] = base /\ \A k \in 1..n : g[k] = step[k][g[k - 1]]
  BY <1>6 DEF Loops
<1> HIDE DEF base
<1>8. g = Body(g)
  <2>1. ASSUME NEW k \in 0..n, k # 0 PROVE g[k] = MoveChain(g[k - 1], m, h[k - 1])
    <3>1. k \in 1..n /\ k - 1 \in 0..n
      BY <1>1, <2>1
    <3>2. g[k - 1] \in S
      BY <3>1
    <3> HIDE DEF S
    <3>3. QED
      BY <1>7, <3>1, <3>2
  <2>2. QED
    BY <1>7, <2>1
<1>9. made = Body(made)
  <2> HIDE DEF Body
  <2>1. QED BY <1>8
<1> HIDE DEF made, step
<1>10. made[0] = base /\ \A k \in 0..n - 1 : made[k + 1] = MoveChain(made[k], m, h[k])
  <2>1. made[0] = base
    BY <1>1, <1>9
  <2>2. ASSUME NEW k \in 0..n - 1 PROVE made[k + 1] = MoveChain(made[k], m, h[k])
    <3>1. k + 1 \in 0..n /\ k + 1 # 0 /\ (k + 1) - 1 = k
      BY <1>1
    <3>2. QED
      BY <1>9, <3>1
  <2>3. QED
    BY <2>1, <2>2
<1> HIDE DEF Body
<1> DEFINE Below(k) == {s \in A : Hash[s] % n < k}
           C == {k \in 0..n : IsTable(made[k], m, Below(k))}
<1>11. \A s \in String : Hash[s] % n \in 0..n - 1
  BY <1>1, Slot
<1>12. 0 \in C
  <2>1. Below(0) = {}
    BY <1>1, <1>11
  <2>2. IsTable(base, m, {})
    <3>1. ASSUME NEW i \in 0..m - 1
          PROVE  IsInjective(base[i]) /\ ToSet(base[i]) = {s \in {} : Hash[s] % m = i}
      <4>1. base[i] = <<>>
        BY DEF base
      <4>2. IsInjective(<<>>) /\ ToSet(<<>>) = {}
        BY DEF IsInjective, ToSet
      <4>3. QED
        BY <4>1, <4>2
    <3>2. QED
      BY <1>1, <3>1 DEF IsTable
  <2> HIDE DEF Below
  <2>3. QED
    BY <1>1, <1>10, <2>1, <2>2
<1>13. ASSUME NEW k \in 0..n - 1, k \in C PROVE k + 1 \in C
  <2> DEFINE T == made[k]
             B == Below(k)
             c == h[k]
             U == MoveChain(T, m, c)
  <2>1. k + 1 \in 0..n /\ k \in Nat
    BY <1>1
  <2>2. c \in Seq(String) /\ IsInjective(c) /\ ToSet(c) = {s \in A : Hash[s] % n = k}
    BY <1>1 DEF IsTable
  <2>3. B \in SUBSET String /\ ToSet(c) \cap B = {} /\ B \cup ToSet(c) = Below(k + 1)
    <3>1. ASSUME NEW s \in A PROVE Hash[s] % n < k + 1 <=> Hash[s] % n < k \/ Hash[s] % n = k
      BY <1>11, <2>1
    <3>2. ASSUME NEW s \in A PROVE ~(Hash[s] % n < k /\ Hash[s] % n = k)
      BY <1>11, <2>1
    <3>3. QED
      BY <2>2, <3>1, <3>2
  <2>4. IsTable(T, m, B)
    BY <1>13
  <2>5. made[k + 1] = U
    BY <1>10
  <2> HIDE DEF T, B, c, Below
  <2>6. IsTable(U, m, B \cup ToSet(c))
    BY <2>2, <2>3, <2>4, ChainMoves
  <2> HIDE DEF U
  <2>7. QED
    BY <2>1, <2>3, <2>5, <2>6
<1>14. n \in C
  <2> HIDE DEF C
  <2>1. 0..n \subseteq C
    BY <1>1, <1>12, <1>13, RangeInduction
  <2>2. n \in 0..n
    BY <1>1
  <2>3. QED
    BY <2>1, <2>2, Zenon
<1>15. Below(n) = A
  <2>1. ASSUME NEW s \in A PROVE Hash[s] % n < n
    BY <1>1, <1>11
  <2>2. QED
    BY <2>1, Zenon
<1>16. QED
  BY <1>3, <1>14, <1>15

\* A string at the end of a chain.
LEMMA AtEnd ==
  ASSUME NEW c \in Seq(String), NEW s \in String, IsInjective(c), s \notin ToSet(c)
  PROVE  /\ Append(c, s) \in Seq(String) /\ IsInjective(Append(c, s))
         /\ ToSet(Append(c, s)) = ToSet(c) \cup {s}
<1> DEFINE d == Append(c, s)
           N == Len(c)
<1>1. /\ d \in Seq(String) /\ N \in Nat /\ d[N + 1] = s
      /\ DOMAIN c = 1..N /\ DOMAIN d = 1..N + 1 /\ \A i \in 1..N : d[i] = c[i]
  OBVIOUS
<1> HIDE DEF d, N
<1>2. \A i \in 1..N + 1 : i \in 1..N \/ i = N + 1
  BY <1>1
<1>3. N + 1 \in 1..N + 1 /\ \A i \in 1..N : i \in 1..N + 1
  BY <1>1
<1>4. ToSet(d) = ToSet(c) \cup {s}
  <2>1. \A x \in ToSet(d) : x \in ToSet(c) \cup {s}
    BY <1>1, <1>2 DEF ToSet
  <2>2. \A x \in ToSet(c) : x \in ToSet(d)
    BY <1>1, <1>3 DEF ToSet
  <2>3. s \in ToSet(d)
    BY <1>1, <1>3 DEF ToSet
  <2>4. QED
    BY <2>1, <2>2, <2>3
<1>5. IsInjective(d)
  <2>1. \A i \in 1..N : c[i] # s
    BY <1>1 DEF ToSet
  <2>2. \A i, j \in 1..N : c[i] = c[j] => i = j
    BY <1>1 DEF IsInjective
  <2>3. \A i, j \in 1..N + 1 : d[i] = d[j] => i = j
    BY <1>1, <1>2, <2>1, <2>2
  <2>4. QED
    BY <1>1, <2>3 DEF IsInjective
<1>6. QED
  BY <1>1, <1>4, <1>5 DEF d

\* What sweeplist leaves of a chain: all that is not dead.
LEMMA Sweeps ==
  ASSUME NEW chain \in Seq(String), IsInjective(chain)
  PROVE  /\ sweeplist(chain) \in Seq(String) /\ IsInjective(sweeplist(chain))
         /\ ToSet(sweeplist(chain)) = {s \in ToSet(chain) : ~isdead(s)}
<1> DEFINE N == Len(chain)
           S == Seq(String)
           none == <<>>
           Next1(x, n) == IF isdead(chain[n]) THEN x ELSE Append(x, chain[n])
           Body(f) == [n \in 0..N |-> IF n = 0 THEN <<>> ELSE Next1(f[n - 1], n)]
           left == CHOOSE f : f = Body(f)
           step == [n \in 1..N |-> [x \in S |-> Next1(x, n)]]
<1>1. /\ N \in Nat /\ none \in S /\ 0 \in 0..N /\ N \in 0..N /\ DOMAIN chain = 1..N
      /\ \A n \in 1..N : chain[n] \in String
  OBVIOUS
<1>2. sweeplist(chain) = left[N]
  BY DEF sweeplist
<1>3. \A n \in 1..N, x \in S : Next1(x, n) \in S
  BY <1>1
<1>4. step \in [1..N -> [S -> S]]
  <2> HIDE DEF S, Next1
  <2>1. QED BY <1>3
<1>5. Loops(N, S, none, step)
  <2> HIDE DEF S, step, N, none
  <2>1. QED BY <1>1, <1>4, RangeRecursion
<1>6. PICK g \in [0..N -> S] : g[0] = none /\ \A n \in 1..N : g[n] = step[n][g[n - 1]]
  BY <1>5 DEF Loops
<1> HIDE DEF Next1
<1>7. g = Body(g)
  <2>1. ASSUME NEW n \in 0..N, n # 0 PROVE g[n] = Next1(g[n - 1], n)
    <3>1. n \in 1..N /\ n - 1 \in 0..N
      BY <1>1, <2>1
    <3>2. g[n - 1] \in S
      BY <3>1
    <3> HIDE DEF S
    <3>3. QED
      BY <1>6, <3>1, <3>2
  <2>2. QED
    BY <1>6, <2>1
<1>8. left = Body(left)
  <2> HIDE DEF Body
  <2>1. QED BY <1>7
<1> HIDE DEF left, step
<1>9. left[0] = <<>> /\ \A n \in 0..N - 1 : left[n + 1] = Next1(left[n], n + 1)
  <2>1. left[0] = <<>>
    BY <1>1, <1>8
  <2>2. ASSUME NEW n \in 0..N - 1 PROVE left[n + 1] = Next1(left[n], n + 1)
    <3>1. n + 1 \in 0..N /\ n + 1 # 0 /\ (n + 1) - 1 = n
      BY <1>1
    <3>2. QED
      BY <1>8, <3>1
  <2>3. QED
    BY <2>1, <2>2
<1> HIDE DEF Body
<1> DEFINE Live(n) == {s \in {chain[j] : j \in 1..n} : ~isdead(s)}
           Good(l, n) == l \in Seq(String) /\ IsInjective(l) /\ ToSet(l) = Live(n)
           C == {n \in 0..N : Good(left[n], n)}
<1>10. 0 \in C
  <2>1. Live(0) = {}
    OBVIOUS
  <2>2. none \in S /\ IsInjective(none) /\ ToSet(none) = {}
    BY DEF IsInjective, ToSet
  <2> HIDE DEF Live
  <2>3. Good(left[0], 0)
    BY <1>9, <2>1, <2>2
  <2> HIDE DEF Good
  <2>4. QED
    BY <1>1, <2>3
<1>11. ASSUME NEW n \in 0..N - 1, n \in C PROVE n + 1 \in C
  <2> DEFINE l == left[n]
             c == chain[n + 1]
  <2>1. n + 1 \in 1..N /\ n + 1 \in 0..N /\ n \in Nat /\ c \in String
    BY <1>1
  <2>2. l \in Seq(String) /\ IsInjective(l) /\ ToSet(l) = Live(n)
    BY <1>11
  <2>3. \A j \in 1..n : j \in 1..N /\ j # n + 1
    BY <1>1, <2>1
  <2>4. c \notin {chain[j] : j \in 1..n}
    BY <1>1, <2>1, <2>3 DEF IsInjective
  <2>5. {chain[j] : j \in 1..n + 1} = {chain[j] : j \in 1..n} \cup {c}
    <3>1. 1..n + 1 = 1..n \cup {n + 1}
      BY <2>1
    <3>2. QED
      BY <3>1
  <2>6. left[n + 1] = IF isdead(c) THEN l ELSE Append(l, c)
    BY <1>9 DEF Next1
  <2> HIDE DEF l, c
  <2>7. Good(left[n + 1], n + 1)
    <3>1. CASE isdead(c)
      <4>1. Live(n + 1) = Live(n)
        BY <2>5, <3>1
      <4> HIDE DEF Live
      <4>2. QED
        BY <2>2, <2>6, <3>1, <4>1
    <3>2. CASE ~isdead(c)
      <4>1. Live(n + 1) = Live(n) \cup {c} /\ c \notin Live(n)
        BY <2>4, <2>5, <3>2
      <4> HIDE DEF Live
      <4>2. left[n + 1] = Append(l, c)
        BY <2>6, <3>2
      <4>3. Append(l, c) \in Seq(String) /\ IsInjective(Append(l, c)) /\ ToSet(Append(l, c)) = ToSet(l) \cup {c}
        <5>1. c \in String
          BY <2>1 DEF c
        <5>2. QED
          BY <2>2, <4>1, <5>1, AtEnd
      <4>4. QED
        BY <2>2, <4>1, <4>2, <4>3
    <3>3. QED
      BY <3>1, <3>2
  <2> HIDE DEF Good
  <2>8. QED
    BY <2>1, <2>7
<1>12. N \in C
  <2> HIDE DEF C, N
  <2>1. 0..N \subseteq C
    BY <1>1, <1>10, <1>11, RangeInduction
  <2>2. QED
    BY <1>1, <2>1
<1>13. Live(N) = {s \in ToSet(chain) : ~isdead(s)}
  BY <1>1 DEF ToSet
<1> HIDE DEF Live
<1>14. QED
  BY <1>2, <1>12, <1>13

-----------------------------------------------------------------------------

LEMMA Parts ==
  ASSUME InternInv
  PROVE  /\ size(strt) \in Nat \ {0} /\ strt \in [0..size(strt) - 1 -> Seq(String)]
         /\ \A s \in String : Hash[s] % size(strt) \in 0..size(strt) - 1
         /\ \A s \in String : s \in ToSet(Chain(s)) <=> s \in Allocated
         /\ nuse \in Nat /\ held \subseteq Allocated
<1>1. IsTable(strt, size(strt), Allocated)
  BY DEF InternInv, Interned
<1>2. size(strt) \in Nat \ {0} /\ strt \in [0..size(strt) - 1 -> Seq(String)]
  BY <1>1 DEF IsTable
<1>3. \A s \in String : Hash[s] % size(strt) \in 0..size(strt) - 1
  BY <1>2, Slot
<1>4. \A s \in String : s \in ToSet(Chain(s)) <=> s \in Allocated
  BY <1>1, <1>3 DEF IsTable, Chain
<1>5. nuse \in Nat
  BY FS_CardinalityType DEF InternInv, Interned
<1>6. held \subseteq Allocated
  BY DEF InternInv, Interned, Allocated
<1>7. QED
  BY <1>2, <1>3, <1>4, <1>5, <1>6

LEMMA FindString_Inv ==
  ASSUME InternInv, NEW s \in String, FindString(s)
  PROVE  InternInv'
<1>1. s \in Allocated
  <2>1. s \in ToSet(Chain(s))
    BY DEF FindString, ToSet
  <2>2. QED
    BY <2>1, Parts
<1>2. /\ color' = [color EXCEPT ![s] = IF isdead(s) THEN "white" ELSE @] /\ held' = held \cup {s}
      /\ strt' = strt /\ nuse' = nuse /\ gcstate' = gcstate /\ sweepstrgc' = sweepstrgc
  BY DEF FindString
<1>3. color \in [String -> Colors] /\ color[s] # "free"
  BY <1>1 DEF InternInv, Allocated
<1>4. /\ color' \in [String -> Colors] /\ color'[s] \in {"white", "black"}
      /\ color[s] = "white" => color'[s] = "white"
      /\ \A x \in String : x # s => color'[x] = color[x]
  BY <1>2, <1>3 DEF isdead, Colors
<1>5. Allocated' = Allocated
  BY <1>3, <1>4 DEF Allocated
<1>6. size(strt)' = size(strt)
  BY <1>2
<1>7. Interned'
  <2>1. IsTable(strt, size(strt), Allocated)' /\ nuse' = Cardinality(Allocated')
    BY <1>2, <1>5 DEF InternInv, Interned, IsTable
  <2>2. \A x \in held' : color'[x] \in {"white", "black"}
    BY <1>2, <1>4 DEF InternInv, Interned
  <2>3. ASSUME NEW x \in Allocated', gcstate' # "sweepstring" \/ Hash[x] % size(strt') < sweepstrgc'
        PROVE  color'[x] = "white"
    <3>1. color[x] = "white"
      BY <1>2, <1>5, <2>3 DEF InternInv, Interned
    <3>2. QED
      BY <1>4, <3>1 DEF Allocated
  <2>4. QED
    BY <2>1, <2>2, <2>3 DEF Interned
<1>8. QED
  BY <1>2, <1>4, <1>5, <1>6, <1>7 DEF InternInv

LEMMA newlstr_Inv ==
  ASSUME InternInv, NEW s \in String, newlstr(s)
  PROVE  InternInv'
<1> DEFINE n == size(strt)
           with == PutFirst(strt, n, s)
<1>1. n \in Nat \ {0} /\ IsTable(strt, n, Allocated) /\ Allocated \in SUBSET String
  BY Parts DEF InternInv, Interned, Allocated
<1>2. s \notin Allocated
  <2>1. s \notin ToSet(Chain(s))
    BY DEF newlstr, ToSet
  <2>2. QED
    BY <2>1, Parts
<1>3. /\ strt' = IF nuse + 1 > n THEN luaS_resize(with, n * 2) ELSE with
      /\ nuse' = nuse + 1 /\ color' = [color EXCEPT ![s] = "white"] /\ held' = held \cup {s}
      /\ gcstate' = gcstate /\ sweepstrgc' = sweepstrgc
  BY DEF newlstr
<1>4. color \in [String -> Colors] /\ color' \in [String -> Colors] /\ color'[s] = "white"
      /\ \A x \in String : x # s => color'[x] = color[x]
  BY <1>3 DEF InternInv, Colors
<1>5. Allocated' = Allocated \cup {s}
  BY <1>4 DEF Allocated
<1> DEFINE A == Allocated
           B == A \cup {s}
<1>6. IsTable(with, n, B)
  <2> HIDE DEF A, n
  <2>1. QED
    BY <1>1, <1>2, PutIn DEF A
<1> HIDE DEF with
<1>7. IsTable(strt', size(strt'), B) /\ (gcstate = "sweepstring" => size(strt') = n)
  <2>1. size(with) = n
    <3>1. with \in [0..n - 1 -> Seq(String)]
      BY <1>6 DEF IsTable
    <3> HIDE DEF n
    <3>2. QED
      BY <1>1, <3>1, SizeOf
  <2>2. CASE strt' = with
    BY <1>6, <2>1, <2>2
  <2>3. CASE strt' = luaS_resize(with, n * 2) /\ gcstate = "sweepstring"
    <3>1. strt' = with
      BY <2>3 DEF luaS_resize
    <3>2. QED
      BY <1>6, <2>1, <3>1
  <2>4. CASE strt' = luaS_resize(with, n * 2) /\ gcstate # "sweepstring"
    <3> DEFINE m == n * 2
               h == luaS_resize(with, m)
    <3>1. m \in Nat \ {0} /\ B \in SUBSET String
      BY <1>1
    <3> HIDE DEF m, B, n
    <3>2. IsTable(h, m, B)
      BY <1>6, <2>4, <3>1, Resizes
    <3>3. strt' = h
      BY <2>4 DEF m
    <3> HIDE DEF h
    <3>4. h \in [0..m - 1 -> Seq(String)]
      BY <3>2 DEF IsTable
    <3>5. size(h) = m
      BY <3>1, <3>4, SizeOf
    <3>6. QED
      BY <2>4, <3>2, <3>3, <3>5
  <2>5. QED
    BY <1>3, <2>2, <2>3, <2>4
<1>8. IsFiniteSet(B) /\ Cardinality(B) = Cardinality(A) + 1
  BY <1>2, FS_AddElement DEF InternInv
<1>9. Interned'
  <2>1. IsTable(strt, size(strt), Allocated)'
    BY <1>5, <1>7 DEF IsTable
  <2>2. nuse' = Cardinality(Allocated')
    BY <1>3, <1>5, <1>8 DEF InternInv, Interned
  <2>3. \A x \in held' : color'[x] \in {"white", "black"}
    BY <1>3, <1>4 DEF InternInv, Interned
  <2>4. ASSUME NEW x \in Allocated', gcstate' # "sweepstring" \/ Hash[x] % size(strt') < sweepstrgc'
        PROVE  color'[x] = "white"
    <3>1. CASE x = s
      BY <1>4, <3>1
    <3>2. CASE x # s
      <4>1. x \in Allocated /\ (gcstate # "sweepstring" \/ Hash[x] % n < sweepstrgc)
        BY <1>3, <1>5, <1>7, <2>4, <3>2
      <4>2. color[x] = "white"
        BY <4>1 DEF InternInv, Interned
      <4>3. QED
        BY <1>4, <3>2, <4>1, <4>2 DEF Allocated
    <3>3. QED
      BY <3>1, <3>2
  <2>5. QED
    BY <2>1, <2>2, <2>3, <2>4 DEF Interned
<1>10. held' \in SUBSET String
  BY <1>3 DEF InternInv
<1>11. gcstate' = "sweepstring" => sweepstrgc' < size(strt')
  BY <1>3, <1>7 DEF InternInv
<1>12. IsFiniteSet(Allocated')
  BY <1>5, <1>8
<1>13. QED
  BY <1>3, <1>4, <1>9, <1>10, <1>11, <1>12 DEF InternInv

LEMMA atomic_Inv ==
  ASSUME InternInv, NEW keep \in SUBSET held, atomic(keep)
  PROVE  InternInv'
<1>1. /\ held' = keep /\ gcstate' = "sweepstring" /\ sweepstrgc' = 0
      /\ strt' = strt /\ nuse' = nuse
      /\ color' = [s \in String |-> IF color[s] = "free" THEN "free"
                                    ELSE IF s \in keep THEN "black" ELSE "other"]
  BY DEF atomic
<1>2. color' \in [String -> Colors] /\ \A s \in keep : color'[s] = "black"
  <2>1. \A s \in keep : s \in String /\ color[s] # "free"
    BY Parts DEF InternInv, Allocated
  <2>2. QED
    BY <1>1, <2>1 DEF Colors
<1>3. Allocated' = Allocated
  BY <1>1 DEF Allocated
<1>4. size(strt) \in Nat \ {0} /\ \A s \in String : ~(Hash[s] % size(strt) < 0)
  BY Parts
<1>5. Interned'
  <2>1. IsTable(strt, size(strt), Allocated)' /\ nuse' = Cardinality(Allocated')
    BY <1>1, <1>3 DEF InternInv, Interned, IsTable
  <2>2. \A s \in Allocated' : ~(gcstate' # "sweepstring" \/ Hash[s] % size(strt') < sweepstrgc')
    BY <1>1, <1>3, <1>4 DEF Allocated
  <2>3. \A s \in held' : color'[s] \in {"white", "black"}
    BY <1>1, <1>2
  <2>4. QED
    BY <2>1, <2>2, <2>3 DEF Interned
<1>6. sweepstrgc' \in Nat /\ sweepstrgc' < size(strt')
  BY <1>1, <1>4
<1>7. QED
  BY <1>1, <1>2, <1>3, <1>5, <1>6 DEF InternInv

LEMMA sweepchain_Inv ==
  ASSUME InternInv, sweepchain
  PROVE  InternInv'
<1> DEFINE n == size(strt)
           i == sweepstrgc
           chain == strt[i]
           left == sweeplist(chain)
           dead == {s \in ToSet(chain) : isdead(s)}
           A == Allocated
<1>1. /\ gcstate = "sweepstring"
      /\ strt' = [strt EXCEPT ![i] = left]
      /\ color' = [s \in String |-> IF s \notin ToSet(chain) THEN color[s]
                                    ELSE IF isdead(s) THEN "free" ELSE "white"]
      /\ nuse' = nuse - (Len(chain) - Len(left))
      /\ sweepstrgc' = i + 1
      /\ gcstate' = IF i + 1 >= n THEN "sweep" ELSE gcstate
      /\ held' = held
  BY DEF sweepchain
<1>2. n \in Nat \ {0} /\ i \in 0..n - 1 /\ strt \in [0..n - 1 -> Seq(String)] /\ A \in SUBSET String
  BY <1>1, Parts DEF InternInv, Allocated
<1>3. IsTable(strt, n, A)
  BY DEF InternInv, Interned
<1>4. chain \in Seq(String) /\ IsInjective(chain) /\ ToSet(chain) = {s \in A : Hash[s] % n = i}
  BY <1>2, <1>3 DEF IsTable
<1>5. left \in Seq(String) /\ IsInjective(left) /\ ToSet(left) = ToSet(chain) \ dead
  <2> HIDE DEF chain
  <2>1. ToSet(chain) \ dead = {s \in ToSet(chain) : ~isdead(s)}
    OBVIOUS
  <2>2. QED
    BY <1>4, <2>1, Sweeps
<1> HIDE DEF left, chain, n, i
<1>6. color \in [String -> Colors] /\ color' \in [String -> Colors]
  BY <1>1 DEF InternInv, Colors
<1>7. \A s \in String : /\ s \notin ToSet(chain) => color'[s] = color[s]
                        /\ s \in dead => color'[s] = "free"
                        /\ s \in ToSet(chain) \ dead => color'[s] = "white"
  BY <1>1
<1>8. Allocated' = A \ dead
  BY <1>4, <1>7 DEF Allocated, isdead
<1>9. IsTable(strt', n, A \ dead)
  <2>1. strt' \in [0..n - 1 -> Seq(String)] /\ strt'[i] = left /\ \A j \in 0..n - 1 : j # i => strt'[j] = strt[j]
    BY <1>1, <1>2, <1>5
  <2>2. ASSUME NEW j \in 0..n - 1
        PROVE  IsInjective(strt'[j]) /\ ToSet(strt'[j]) = {s \in A \ dead : Hash[s] % n = j}
    <3>1. CASE j = i
      BY <1>4, <1>5, <2>1, <3>1
    <3>2. CASE j # i
      <4>1. IsInjective(strt[j]) /\ ToSet(strt[j]) = {s \in A : Hash[s] % n = j}
        BY <1>3 DEF IsTable
      <4>2. \A s \in dead : Hash[s] % n = i
        BY <1>4
      <4>3. QED
        BY <2>1, <3>2, <4>1, <4>2
    <3>3. QED
      BY <3>1, <3>2
  <2>3. QED
    BY <1>2, <2>1, <2>2 DEF IsTable
<1>10. size(strt') = n
  <2>1. strt' \in [0..n - 1 -> Seq(String)]
    BY <1>9 DEF IsTable
  <2>2. QED
    BY <1>2, <2>1, SizeOf
<1>11. IsFiniteSet(A \ dead) /\ nuse' = Cardinality(A \ dead)
  <2> DEFINE T == ToSet(chain)
             L == ToSet(left)
  <2>1. IsFiniteSet(A) /\ nuse = Cardinality(A)
    BY DEF InternInv, Interned
  <2>2. IsFiniteSet(T) /\ Cardinality(T) = Len(chain) /\ IsFiniteSet(L) /\ Cardinality(L) = Len(left)
    BY <1>4, <1>5, Members
  <2>3. L = T \ dead /\ T \cap dead = dead /\ A \cap dead = dead
    BY <1>4, <1>5
  <2> HIDE DEF T, L, dead, A
  <2>4. Cardinality(L) = Cardinality(T) - Cardinality(dead)
    <3>1. Cardinality(T \ dead) = Cardinality(T) - Cardinality(T \cap dead)
      BY <2>2, FS_Difference
    <3>2. QED
      BY <2>3, <3>1
  <2>5. IsFiniteSet(A \ dead) /\ Cardinality(A \ dead) = Cardinality(A) - Cardinality(dead)
    BY <2>1, <2>3, FS_Difference
  <2>6. IsFiniteSet(dead)
    <3>1. dead \in SUBSET T
      BY <2>3
    <3>2. QED
      BY <2>2, <3>1, FS_Subset
  <2>7. Cardinality(A) \in Nat /\ Cardinality(T) \in Nat /\ Cardinality(L) \in Nat /\ Cardinality(dead) \in Nat
    BY <2>1, <2>2, <2>6, FS_CardinalityType
  <2>8. nuse' = Cardinality(A) - (Cardinality(T) - Cardinality(L))
    BY <1>1, <2>1, <2>2
  <2>9. QED
    BY <2>4, <2>5, <2>7, <2>8
<1>12. Interned'
  <2>1. (IsTable(strt, size(strt), Allocated) /\ nuse = Cardinality(Allocated))'
    BY <1>8, <1>9, <1>10, <1>11 DEF IsTable
  <2>2. ASSUME NEW s \in held' PROVE color'[s] \in {"white", "black"}
    <3>1. s \in held /\ s \in String /\ color[s] \in {"white", "black"}
      BY <1>1 DEF InternInv, Interned
    <3>2. s \notin dead
      BY <3>1 DEF isdead
    <3>3. QED
      BY <1>7, <3>1, <3>2
  <2>3. ASSUME NEW s \in Allocated', gcstate' # "sweepstring" \/ Hash[s] % size(strt') < sweepstrgc'
        PROVE  color'[s] = "white"
    <3>1. s \in A /\ s \notin dead /\ s \in String /\ Hash[s] % n \in 0..n - 1
      <4>1. s \in A /\ s \notin dead /\ s \in String
        BY <1>2, <1>8, <2>3
      <4>2. QED
        BY <1>2, <4>1, Slot
    <3>2. CASE s \in ToSet(chain)
      BY <1>7, <3>1, <3>2
    <3>3. CASE s \notin ToSet(chain)
      <4>1. Hash[s] % n # i
        BY <1>4, <3>1, <3>3
      <4>2. Hash[s] % n < i + 1
        <5>1. CASE gcstate' # "sweepstring"
          <6>1. i + 1 >= n
            BY <1>1, <5>1
          <6>2. QED
            BY <1>2, <3>1, <6>1
        <5>2. CASE Hash[s] % size(strt') < sweepstrgc'
          BY <1>1, <1>10, <5>2
        <5>3. QED
          BY <2>3, <5>1, <5>2
      <4>3. Hash[s] % n < i
        BY <1>2, <3>1, <4>1, <4>2
      <4>4. color[s] = "white"
        BY <3>1, <4>3 DEF InternInv, Interned, i, n
      <4>5. QED
        BY <1>7, <3>1, <3>3, <4>4
    <3>4. QED
      BY <3>2, <3>3
  <2>4. QED
    BY <2>1, <2>2, <2>3 DEF Interned
<1>13. gcstate' \in {"propagate", "sweepstring", "sweep"} /\ sweepstrgc' \in Nat
  BY <1>1, <1>2
<1>14. gcstate' = "sweepstring" => sweepstrgc' < size(strt')
  BY <1>1, <1>2, <1>10
<1>15. held' \in SUBSET String
  BY <1>1 DEF InternInv
<1>16. IsFiniteSet(Allocated')
  BY <1>8, <1>11
<1>17. QED
  BY <1>6, <1>12, <1>13, <1>14, <1>15, <1>16 DEF InternInv

LEMMA checkSizes_Inv ==
  ASSUME InternInv, checkSizes
  PROVE  InternInv'
<1> DEFINE n == size(strt)
           A == Allocated
<1>1. /\ gcstate = "sweep" /\ gcstate' = "propagate"
      /\ color' = color /\ nuse' = nuse /\ sweepstrgc' = sweepstrgc /\ held' = held
      /\ \/ strt' = strt
         \/ strt' = luaS_resize(strt, n \div 2) /\ n > MINSTRTABSIZE * 2
  BY DEF checkSizes
<1>2. n \in Nat \ {0} /\ IsTable(strt, n, A) /\ A \in SUBSET String /\ gcstate # "sweepstring"
  BY <1>1, Parts DEF InternInv, Interned, Allocated
<1>3. A' = A
  BY <1>1 DEF Allocated
<1>4. IsTable(strt', size(strt'), A)
  <2>1. CASE strt' = strt
    BY <1>2, <2>1
  <2>2. CASE strt' = luaS_resize(strt, n \div 2) /\ n > MINSTRTABSIZE * 2
    <3> DEFINE m == n \div 2
               h == luaS_resize(strt, m)
    <3>1. m \in Nat \ {0}
      BY <1>2, <2>2, StringAssumption
    <3>2. strt' = h
      BY <2>2
    <3> HIDE DEF m, A, n
    <3>3. IsTable(h, m, A)
      BY <1>2, <3>1, Resizes
    <3> HIDE DEF h
    <3>4. h \in [0..m - 1 -> Seq(String)]
      BY <3>3 DEF IsTable
    <3>5. size(h) = m
      BY <3>1, <3>4, SizeOf
    <3>6. QED
      BY <3>2, <3>3, <3>5
  <2>3. QED
    BY <1>1, <2>1, <2>2
<1>5. Interned'
  <2>1. IsTable(strt, size(strt), Allocated)'
    BY <1>3, <1>4 DEF IsTable
  <2>2. \A s \in Allocated : color[s] = "white"
    BY <1>2 DEF InternInv, Interned
  <2>3. (nuse = Cardinality(Allocated) /\ \A s \in held : color[s] \in {"white", "black"})'
    BY <1>1, <1>3 DEF InternInv, Interned
  <2>4. \A s \in Allocated' : color'[s] = "white"
    BY <1>1, <1>3, <2>2
  <2>5. QED
    BY <2>1, <2>3, <2>4 DEF Interned
<1>6. (/\ color \in [String -> Colors] /\ held \in SUBSET String
       /\ gcstate \in {"propagate", "sweepstring", "sweep"} /\ sweepstrgc \in Nat
       /\ IsFiniteSet(Allocated) /\ gcstate # "sweepstring")'
  BY <1>1, <1>3 DEF InternInv
<1>7. QED
  BY <1>5, <1>6 DEF InternInv

LEMMA Intern_Init ==
  ASSUME InternInit
  PROVE  InternInv
<1> DEFINE n == MINSTRTABSIZE
<1>1. n \in Nat \ {0} /\ strt = [i \in 0..n - 1 |-> <<>>]
  BY StringAssumption DEF InternInit
<1>2. Allocated = {} /\ color \in [String -> Colors]
  BY DEF InternInit, Allocated, Colors
<1>3. IsTable(strt, n, {})
  <2>1. ASSUME NEW i \in 0..n - 1
        PROVE  IsInjective(strt[i]) /\ ToSet(strt[i]) = {s \in {} : Hash[s] % n = i}
    <3>1. strt[i] = <<>>
      BY <1>1
    <3>2. IsInjective(<<>>) /\ ToSet(<<>>) = {}
      BY DEF IsInjective, ToSet
    <3>3. QED
      BY <3>1, <3>2
  <2>2. strt \in [0..n - 1 -> Seq(String)]
    BY <1>1
  <2>3. QED
    BY <1>1, <2>1, <2>2 DEF IsTable
<1>4. size(strt) = n
  <2>1. strt \in [0..n - 1 -> Seq(String)]
    BY <1>3 DEF IsTable
  <2>2. QED
    BY <1>1, <2>1, SizeOf
<1>5. IsFiniteSet({}) /\ Cardinality({}) = 0
  BY FS_EmptySet
<1>6. gcstate = "propagate" /\ sweepstrgc = 0 /\ nuse = 0 /\ held = {}
  BY DEF InternInit
<1>7. Interned
  BY <1>2, <1>3, <1>4, <1>5, <1>6 DEF Interned
<1>8. QED
  BY <1>2, <1>5, <1>6, <1>7 DEF InternInv

\* For any strings and hashes and every size of the table, whatever the program makes,
\* finds and lets go of, between whatever steps of the collector: each string that is
\* allocated is in its chain, once (luaS_newlstr, luaS_resize, sweeplist).
THEOREM InternInvariance == InternSpec => []InternInv
<1>1. InternInit => InternInv
  BY Intern_Init
<1>2. InternInv /\ [InternNext]_internvars => InternInv'
  <2> SUFFICES ASSUME InternInv, [InternNext]_internvars PROVE InternInv'
    OBVIOUS
  <2>1. ASSUME NEW s \in String, FindString(s) PROVE InternInv'
    BY <2>1, FindString_Inv
  <2>2. ASSUME NEW s \in String, newlstr(s) PROVE InternInv'
    BY <2>2, newlstr_Inv
  <2>3. ASSUME NEW keep \in SUBSET held, atomic(keep) PROVE InternInv'
    BY <2>3, atomic_Inv
  <2>4. CASE sweepchain
    BY <2>4, sweepchain_Inv
  <2>5. CASE checkSizes
    BY <2>5, checkSizes_Inv
  <2>6. CASE UNCHANGED internvars
    BY <2>6 DEF internvars, InternInv, Interned, IsTable, Allocated, size
  <2>7. QED
    BY <2>1, <2>2, <2>3, <2>4, <2>5, <2>6 DEF InternNext
<1>3. QED
  BY <1>1, <1>2, PTL DEF InternSpec

\* Strings that are equal are one object: Interned, always.
THEOREM AlwaysInterned == InternSpec => []Interned
<1>1. InternInv => Interned
  BY DEF InternInv
<1>2. QED
  BY <1>1, InternInvariance, PTL

-----------------------------------------------------------------------------
(* Sequences of sequences, put together.                                   *)

\* The loop of FlattenSeq: what it has after each sequence.
Flattens(f, s, T) ==
  /\ f \in [0..Len(s) -> Seq(T)] /\ f[0] = <<>>
  /\ \A n \in 0..Len(s) - 1 : f[n + 1] = f[n] \o s[n + 1]
  /\ FlattenSeq(s) = f[Len(s)]

LEMMA FlattenLoop ==
  ASSUME NEW T, NEW s \in Seq(Seq(T))
  PROVE  \E f : Flattens(f, s, T)
<1> DEFINE N == Len(s)
           S == Seq(T)
           none == <<>>
           Body(f) == [i \in 1..N |-> IF i = 1 THEN s[i] ELSE f[i - 1] \o s[i]]
           flatten == CHOOSE f : f = Body(f)
           step == [n \in 1..N |-> [x \in S |-> x \o s[n]]]
<1>1. N \in Nat /\ none \in S /\ 0 \in 0..N /\ N \in 0..N /\ \A n \in 1..N : s[n] \in S
  OBVIOUS
<1>2. step \in [1..N -> [S -> S]]
  <2>1. \A n \in 1..N, x \in S : x \o s[n] \in S
    BY <1>1
  <2> HIDE DEF S
  <2>2. QED BY <2>1
<1>3. Loops(N, S, none, step)
  <2> HIDE DEF S, step, N, none
  <2>1. QED BY <1>1, <1>2, RangeRecursion
<1>4. PICK g \in [0..N -> S] : g[0] = none /\ \A n \in 1..N : g[n] = step[n][g[n - 1]]
  BY <1>3 DEF Loops
<1>5. ASSUME NEW n \in 0..N - 1 PROVE g[n + 1] = g[n] \o s[n + 1]
  <2>1. n + 1 \in 1..N /\ n \in 0..N /\ (n + 1) - 1 = n
    BY <1>1
  <2>2. g[n] \in S
    BY <2>1
  <2>3. g[n + 1] = step[n + 1][g[n]]
    BY <1>4, <2>1
  <2> HIDE DEF S
  <2>4. QED
    BY <2>1, <2>2, <2>3
<1> HIDE DEF step
<1>6. CASE N = 0
  <2>1. s = <<>> /\ FlattenSeq(s) = <<>>
    BY <1>6 DEF FlattenSeq
  <2>2. QED
    BY <1>1, <1>4, <1>5, <1>6, <2>1 DEF Flattens
<1>7. CASE N # 0
  <2> DEFINE h == [i \in 1..N |-> g[i]]
  <2>1. h = Body(h)
    <3>1. ASSUME NEW i \in 1..N PROVE h[i] = IF i = 1 THEN s[i] ELSE h[i - 1] \o s[i]
      <4>1. i - 1 \in 0..N - 1 /\ (i - 1) + 1 = i
        BY <1>1
      <4>2. g[i] = g[i - 1] \o s[i]
        BY <1>5, <4>1
      <4>3. CASE i = 1
        <5>1. s[i] \in Seq(T)
          BY <1>1
        <5>2. i - 1 = 0 /\ g[i - 1] = <<>>
          BY <1>4, <4>3
        <5>3. <<>> \o s[i] = s[i]
          BY <5>1, ConcatEmptySeq
        <5>4. g[i] = s[i]
          BY <4>2, <5>2, <5>3
        <5>5. QED
          BY <4>3, <5>4
      <4>4. CASE i # 1
        <5>1. i - 1 \in 1..N
          BY <1>1, <4>4
        <5>2. QED
          BY <4>2, <4>4, <5>1
      <4>5. QED
        BY <4>3, <4>4
    <3>2. QED
      BY <3>1
  <2>2. flatten = Body(flatten)
    <3> HIDE DEF Body
    <3>1. QED BY <2>1
  <2>3. FlattenSeq(s) = flatten[N]
    BY <1>1, <1>7 DEF FlattenSeq
  <2> HIDE DEF flatten
  <2> DEFINE C == {n \in 0..N : n = 0 \/ flatten[n] = g[n]}
  <2>4. 0 \in C
    BY <1>1
  <2>5. ASSUME NEW n \in 0..N - 1, n \in C PROVE n + 1 \in C
    <3>1. n + 1 \in 1..N /\ n + 1 \in 0..N /\ (n + 1) - 1 = n
      BY <1>1
    <3>2. flatten[n + 1] = IF n + 1 = 1 THEN s[n + 1] ELSE flatten[n] \o s[n + 1]
      BY <2>2, <3>1
    <3>3. CASE n = 0
      <4>1. flatten[n + 1] = s[n + 1] /\ s[n + 1] \in Seq(T)
        BY <1>1, <3>1, <3>2, <3>3
      <4>2. g[n + 1] = g[n] \o s[n + 1] /\ g[n] = <<>>
        BY <1>4, <1>5, <3>3
      <4>3. <<>> \o s[n + 1] = s[n + 1]
        BY <4>1, ConcatEmptySeq
      <4>4. QED
        BY <3>1, <4>1, <4>2, <4>3
    <3>4. CASE n # 0
      <4>1. flatten[n] = g[n] /\ n + 1 # 1
        BY <2>5, <3>4
      <4>2. flatten[n + 1] = g[n + 1]
        BY <1>5, <3>2, <4>1
      <4>3. QED
        BY <3>1, <4>2
    <3>5. QED
      BY <3>3, <3>4
  <2>6. N \in C
    <3> HIDE DEF C, N
    <3>1. 0..N \subseteq C
      BY <1>1, <2>4, <2>5, RangeInduction
    <3>2. QED
      BY <1>1, <3>1
  <2>7. FlattenSeq(s) = g[N]
    BY <1>7, <2>3, <2>6
  <2>8. QED
    BY <1>4, <1>5, <2>7 DEF Flattens
<1>8. QED
  BY <1>6, <1>7

LEMMA FlattenType ==
  ASSUME NEW T, NEW s \in Seq(Seq(T))
  PROVE  FlattenSeq(s) \in Seq(T)
<1>1. PICK f : Flattens(f, s, T)
  BY FlattenLoop
<1>2. Len(s) \in 0..Len(s)
  OBVIOUS
<1>3. QED
  BY <1>1, <1>2 DEF Flattens

\* Where the parentheses stand does not matter.
Associates(T) ==
  \A x \in Seq(T), y \in Seq(T), z \in Seq(T) : (x \o y) \o z = x \o (y \o z)

LEMMA ConcatAssociates ==
  ASSUME NEW T
  PROVE  Associates(T)
<1>1. ASSUME NEW x \in Seq(T), NEW y \in Seq(T), NEW z \in Seq(T)
      PROVE  (x \o y) \o z = x \o (y \o z)
  BY ConcatAssociative
<1>2. QED
  BY <1>1 DEF Associates

\* Two parts are put together.
LEMMA FlattenConcat ==
  ASSUME NEW T, NEW s \in Seq(Seq(T)), NEW t2 \in Seq(Seq(T))
  PROVE  FlattenSeq(s \o t2) = FlattenSeq(s) \o FlattenSeq(t2)
<1> DEFINE r == s \o t2
           L == Len(s)
           M == Len(t2)
<1>1. /\ r \in Seq(Seq(T)) /\ Len(r) = L + M /\ L \in Nat /\ M \in Nat
      /\ \A i \in 1..L : r[i] = s[i]
      /\ \A i \in 1..M : r[L + i] = t2[i]
  OBVIOUS
<1>2. PICK f : Flattens(f, s, T)
  BY FlattenLoop
<1>3. PICK g : Flattens(g, t2, T)
  BY FlattenLoop
<1>4. PICK h : Flattens(h, r, T)
  BY <1>1, FlattenLoop
<1>5. /\ f \in [0..L -> Seq(T)] /\ f[0] = <<>> /\ FlattenSeq(s) = f[L]
      /\ \A n \in 0..L - 1 : f[n + 1] = f[n] \o s[n + 1]
  BY <1>2 DEF Flattens
<1>6. /\ g \in [0..M -> Seq(T)] /\ g[0] = <<>> /\ FlattenSeq(t2) = g[M]
      /\ \A n \in 0..M - 1 : g[n + 1] = g[n] \o t2[n + 1]
  BY <1>3 DEF Flattens
<1>7. /\ h \in [0..L + M -> Seq(T)] /\ h[0] = <<>> /\ FlattenSeq(r) = h[L + M]
      /\ \A n \in 0..L + M - 1 : h[n + 1] = h[n] \o r[n + 1]
  <2>1. Len(r) = L + M /\ L \in Nat /\ M \in Nat
    BY <1>1
  <2> HIDE DEF r, L, M
  <2>2. /\ h \in [0..Len(r) -> Seq(T)] /\ h[0] = <<>> /\ FlattenSeq(r) = h[Len(r)]
        /\ \A n \in 0..Len(r) - 1 : h[n + 1] = h[n] \o r[n + 1]
    BY <1>4, Zenon DEF Flattens
  <2>3. h \in [0..L + M -> Seq(T)] /\ FlattenSeq(r) = h[L + M]
    BY <2>1, <2>2
  <2>4. ASSUME NEW n \in 0..L + M - 1 PROVE h[n + 1] = h[n] \o r[n + 1]
    <3>1. n \in 0..Len(r) - 1
      BY <2>1
    <3>2. QED
      BY <2>2, <3>1, Zenon
  <2>5. QED
    BY <2>2, <2>3, <2>4
<1>8. \A n \in 1..M : t2[n] \in Seq(T)
  OBVIOUS
<1> HIDE DEF r, L, M
<1> DEFINE C == {n \in 0..L : h[n] = f[n]}
<1>9. L \in C
  <2>1. 0 \in C /\ L \in 0..L
    BY <1>1, <1>5, <1>7
  <2>2. ASSUME NEW n \in 0..L - 1, n \in C PROVE n + 1 \in C
    <3>1. n + 1 \in 1..L /\ n + 1 \in 0..L /\ n \in 0..L + M - 1
      BY <1>1
    <3>2. h[n + 1] = h[n] \o r[n + 1] /\ f[n + 1] = f[n] \o s[n + 1] /\ r[n + 1] = s[n + 1] /\ h[n] = f[n]
      BY <1>1, <1>5, <1>7, <2>2, <3>1
    <3>3. QED
      BY <3>1, <3>2
  <2> HIDE DEF C
  <2>3. 0..L \subseteq C
    BY <1>1, <2>1, <2>2, RangeInduction
  <2>4. QED
    BY <2>1, <2>3
<1> DEFINE D == {n \in 0..M : h[L + n] = f[L] \o g[n]}
<1>10. M \in D
  <2>1. f[L] \in Seq(T)
    BY <1>1, <1>5
  <2>2. 0 \in D /\ M \in 0..M
    <3>1. h[L] = f[L] /\ L + 0 = L
      BY <1>1, <1>9
    <3>2. f[L] \o <<>> = f[L]
      BY <2>1, ConcatEmptySeq
    <3>3. h[L + 0] = f[L] \o g[0]
      BY <1>6, <3>1, <3>2
    <3>4. 0 \in 0..M /\ M \in 0..M
      BY <1>1
    <3>5. QED
      BY <3>3, <3>4
  <2>3. ASSUME NEW n \in 0..M - 1, n \in D PROVE n + 1 \in D
    <3>1. n + 1 \in 1..M /\ n + 1 \in 0..M /\ L + n \in 0..L + M - 1 /\ (L + n) + 1 = L + (n + 1) /\ n \in 0..M
      BY <1>1
    <3>2. h[L + (n + 1)] = h[L + n] \o r[L + (n + 1)]
      BY <1>7, <3>1
    <3>3. r[L + (n + 1)] = t2[n + 1] /\ g[n + 1] = g[n] \o t2[n + 1] /\ h[L + n] = f[L] \o g[n]
      BY <1>1, <1>6, <2>3, <3>1
    <3>4. g[n] \in Seq(T) /\ t2[n + 1] \in Seq(T)
      BY <1>6, <1>8, <3>1
    <3> DEFINE a == f[L]
               b == g[n]
               c == t2[n + 1]
    <3>5. (a \o b) \o c = a \o (b \o c)
      <4>1. a \in Seq(T) /\ b \in Seq(T) /\ c \in Seq(T)
        BY <2>1, <3>4
      <4>2. Associates(T)
        BY ConcatAssociates
      <4> HIDE DEF a, b, c
      <4>3. QED BY <4>1, <4>2 DEF Associates
    <3>6. QED
      BY <3>1, <3>2, <3>3, <3>5
  <2> HIDE DEF D
  <2>4. 0..M \subseteq D
    BY <1>1, <2>2, <2>3, RangeInduction
  <2>5. QED
    BY <2>2, <2>4
<1>11. QED
  BY <1>5, <1>6, <1>7, <1>10 DEF r

LEMMA FlattenOne ==
  ASSUME NEW T, NEW x \in Seq(T)
  PROVE  FlattenSeq(<<x>>) = x
<1>1. <<x>> \in Seq(Seq(T)) /\ Len(<<x>>) = 1 /\ <<x>>[1] = x
  OBVIOUS
<1>2. PICK f : Flattens(f, <<x>>, T)
  BY <1>1, FlattenLoop
<1>3. f[0] = <<>> /\ f[1] = f[0] \o x /\ FlattenSeq(<<x>>) = f[1]
  <2>1. 0 \in 0..1 - 1 /\ 0 + 1 = 1
    OBVIOUS
  <2>2. QED
    BY <1>1, <1>2, <2>1 DEF Flattens
<1>4. <<>> \o x = x
  BY ConcatEmptySeq
<1>5. QED
  BY <1>3, <1>4

LEMMA FlattenAppend ==
  ASSUME NEW T, NEW s \in Seq(Seq(T)), NEW x \in Seq(T)
  PROVE  FlattenSeq(Append(s, x)) = FlattenSeq(s) \o x
<1> DEFINE t2 == <<x>>
<1>1. Append(s, x) = s \o t2 /\ t2 \in Seq(Seq(T))
  <2>1. t2 \in Seq(Seq(T))
    OBVIOUS
  <2>2. QED
    BY AppendIsConcat
<1>2. FlattenSeq(t2) = x
  BY FlattenOne
<1> HIDE DEF t2
<1>3. FlattenSeq(s \o t2) = FlattenSeq(s) \o FlattenSeq(t2)
  BY <1>1, FlattenConcat
<1>4. QED
  BY <1>1, <1>2, <1>3

-----------------------------------------------------------------------------
(* The buffer (LuaBuffer).                                                 *)

NatSeq  == Seq(Nat)
Strings == Seq(Seq(Nat))

\* What adjuststack finds to put together.
LEMMA TogetFinds ==
  ASSUME NEW s \in Strings, Len(s) > 1
  PROVE  /\ toget(s) \in 1..Len(s)
         /\ toget(s) = Len(s) \/ Len(s) - toget(s) + 1 < LIMIT
<1> DEFINE N == Len(s)
           tops == [n \in 1..lvl(s) |-> Len(FlattenSeq(SubSeq(s, lvl(s) - n + 1, lvl(s))))]
           few(n) == ~(lvl(s) - n + 1 >= LIMIT \/ tops[n] > Len(s[lvl(s) - n]))
           S == {n \in 1..N : n = N \/ few(n)}
<1>1. N \in Nat /\ N > 1 /\ N \in S /\ S \in SUBSET Nat
  BY DEF Strings
<1>2. PICK n \in S : \A m \in S : n <= m
  <2> HIDE DEF S, N
  <2>1. S # {}
    BY <1>1
  <2>2. QED BY <1>1, <2>1, LeastExists
<1>3. n \in 1..N /\ (n = N \/ few(n)) /\ \A m \in 1..n - 1 : ~few(m)
  <2>1. n \in 1..N /\ (n = N \/ few(n))
    OBVIOUS
  <2>2. ASSUME NEW m \in 1..n - 1 PROVE ~few(m)
    <3>1. m \in 1..N /\ ~(n <= m)
      BY <1>1, <2>1
    <3> HIDE DEF few
    <3>2. QED
      BY <1>2, <3>1
  <2> HIDE DEF few, S
  <2>3. QED
    BY <2>1, <2>2
<1>4. toget(s) \in 1..N /\ (toget(s) = N \/ few(toget(s)))
  <2> DEFINE least(k) == (k = N \/ few(k)) /\ \A m \in 1..k - 1 : ~few(m)
  <2>1. toget(s) = CHOOSE k \in 1..N : least(k)
    BY DEF toget, lvl
  <2>2. least(n) /\ n \in 1..N
    BY <1>3
  <2>3. toget(s) \in 1..N /\ least(toget(s))
    <3> HIDE DEF least
    <3>1. QED BY <2>1, <2>2
  <2> HIDE DEF few
  <2>4. QED
    BY <2>3
<1>5. few(toget(s)) => Len(s) - toget(s) + 1 < LIMIT
  BY <1>1, <1>4, SizeAssumption DEF lvl
<1>6. QED
  BY <1>4, <1>5

\* Strings that are put together are the same text, as one string.
LEMMA ConcatKeeps ==
  ASSUME NEW s \in Strings, NEW n \in 1..Len(s)
  PROVE  /\ Concat(s, n) \in Strings
         /\ Len(Concat(s, n)) = Len(s) - n + 1
         /\ FlattenSeq(Concat(s, n)) = FlattenSeq(s)
<1> DEFINE m == Len(s) - n
           a == SubSeq(s, 1, m)
           b == SubSeq(s, m + 1, Len(s))
           x == FlattenSeq(b)
<1>1. m \in Nat /\ m + 1 \in 1..Len(s) /\ m \in 0..Len(s)
  BY DEF Strings
<1>2. a \in Strings /\ Len(a) = m /\ b \in Strings
  BY <1>1, SubSeqProperties DEF Strings
<1>3. s = a \o b
  <2>1. s = SubSeq(s, 1, Len(s)) /\ Len(s) \in 1..Len(s)
    BY <1>1 DEF Strings
  <2>2. QED
    <3>1. /\ s \in Seq(Seq(Nat)) /\ 1 \in 1..Len(s) + 1 /\ m \in 1 - 1..Len(s)
          /\ Len(s) \in m..Len(s)
      BY <1>1 DEF Strings
    <3> HIDE DEF m
    <3>2. SubSeq(s, 1, m) \o SubSeq(s, m + 1, Len(s)) = SubSeq(s, 1, Len(s))
      BY <3>1, ConcatAdjacentSubSeq
    <3>3. QED
      BY <2>1, <3>2
<1>4. x \in NatSeq
  <2> HIDE DEF b
  <2>1. QED BY <1>2, FlattenType DEF Strings, NatSeq
<1>5. Concat(s, n) = a \o <<x>>
  BY DEF Concat, lvl
<1> HIDE DEF a, b, x, m
<1>6. /\ a \o <<x>> \in Strings /\ Len(a \o <<x>>) = Len(a) + 1
      /\ <<x>> \in Strings
  BY <1>2, <1>4 DEF Strings, NatSeq
<1>7. FlattenSeq(s) = FlattenSeq(a) \o FlattenSeq(b)
  BY <1>2, <1>3, FlattenConcat DEF Strings
<1> DEFINE o == <<x>>
<1>8. FlattenSeq(o) = x
  BY <1>4, FlattenOne DEF NatSeq
<1>9. FlattenSeq(a \o o) = FlattenSeq(a) \o FlattenSeq(o)
  <2>1. o \in Strings
    BY <1>6
  <2> HIDE DEF o
  <2>2. QED
    BY <1>2, <2>1, FlattenConcat DEF Strings
<1>10. Len(a) + 1 = Len(s) - n + 1
  BY <1>2 DEF m
<1>11. FlattenSeq(b) = x
  BY DEF x
<1>12. QED
  BY <1>5, <1>6, <1>7, <1>8, <1>9, <1>10, <1>11

LEMMA AdjustKeeps ==
  ASSUME NEW s \in Strings
  PROVE  /\ adjuststack(s) \in Strings
         /\ Len(adjuststack(s)) < LIMIT
         /\ FlattenSeq(adjuststack(s)) = FlattenSeq(s)
<1>1. Len(s) \in Nat /\ LIMIT \in Nat /\ LIMIT > 1
  BY SizeAssumption DEF Strings
<1>2. CASE Len(s) > 1
  <2> DEFINE n == toget(s)
  <2>1. n \in 1..Len(s) /\ (n = Len(s) \/ Len(s) - n + 1 < LIMIT)
    BY <1>2, TogetFinds
  <2>2. adjuststack(s) = Concat(s, n)
    BY <1>2 DEF adjuststack, lvl
  <2> HIDE DEF n
  <2>3. /\ Concat(s, n) \in Strings
        /\ Len(Concat(s, n)) = Len(s) - n + 1
        /\ FlattenSeq(Concat(s, n)) = FlattenSeq(s)
    BY <2>1, ConcatKeeps
  <2>4. Len(s) - n + 1 < LIMIT
    BY <1>1, <2>1
  <2>5. QED
    BY <2>2, <2>3, <2>4
<1>3. CASE ~(Len(s) > 1)
  <2>1. adjuststack(s) = s
    BY <1>3 DEF adjuststack, lvl
  <2>2. QED
    BY <1>1, <1>3, <2>1
<1>4. QED
  BY <1>2, <1>3

LEMMA EmptyKeeps ==
  ASSUME NEW s \in Strings, NEW q \in NatSeq
  PROVE  /\ (IF q = <<>> THEN s ELSE Append(s, q)) \in Strings
         /\ FlattenSeq(IF q = <<>> THEN s ELSE Append(s, q)) = FlattenSeq(s) \o q
<1>1. FlattenSeq(s) \in NatSeq
  BY FlattenType DEF Strings, NatSeq
<1>2. CASE q = <<>>
  <2>1. FlattenSeq(s) \o <<>> = FlattenSeq(s)
    BY <1>1, ConcatEmptySeq DEF NatSeq
  <2>2. QED
    BY <1>2, <2>1
<1>3. CASE q # <<>>
  <2>1. FlattenSeq(Append(s, q)) = FlattenSeq(s) \o q
    BY FlattenAppend DEF Strings, NatSeq
  <2>2. Append(s, q) \in Strings
    BY DEF Strings, NatSeq
  <2>3. QED
    BY <1>3, <2>1, <2>2
<1>4. QED
  BY <1>2, <1>3

Numbers(n) == [i \in 1..n |-> i]

\* The inductive invariant: what BufferKeepsText says, of sequences of characters.
BufferInv ==
  /\ p \in NatSeq /\ stack \in Strings /\ result \in Strings /\ added \in Nat
  /\ FlattenSeq(stack) \o p = Numbers(added)
  /\ Len(p) <= LUAL_BUFFERSIZE /\ Len(stack) < LIMIT
  /\ result # <<>> => FlattenSeq(stack) \o p = result[1]

LEMMA CharactersFollow ==
  ASSUME added \in Nat, NEW l \in Nat
  PROVE  /\ Characters(l) \in NatSeq /\ Len(Characters(l)) = l
         /\ Numbers(added) \o Characters(l) = Numbers(added + l)
<1> DEFINE a == Numbers(added)
           b == Characters(l)
           c == Numbers(added + l)
<1>1. /\ a \in Seq(Nat) /\ Len(a) = added /\ \A i \in 1..added : a[i] = i
      /\ b \in Seq(Nat) /\ Len(b) = l /\ \A i \in 1..l : b[i] = added + i
      /\ c \in Seq(Nat) /\ Len(c) = added + l /\ \A i \in 1..added + l : c[i] = i
  BY DEF Numbers, Characters
<1> HIDE DEF a, b, c
<1>2. a \o b \in Seq(Nat) /\ Len(a \o b) = added + l
  BY <1>1
<1>3. ASSUME NEW i \in 1..added + l PROVE (a \o b)[i] = c[i]
  <2>1. CASE i \in 1..added
    BY <1>1, <2>1
  <2>2. CASE i \notin 1..added
    <3>1. i - added \in 1..l /\ added + (i - added) = i
      BY <2>2
    <3>2. QED
      BY <1>1, <2>2, <3>1
  <2>3. QED
    BY <2>1, <2>2
<1>4. a \o b = c
  BY <1>1, <1>2, <1>3, SeqEqual
<1>5. QED
  BY <1>1, <1>4 DEF NatSeq, a, b, c

LEMMA TextAssociates ==
  ASSUME NEW x \in NatSeq, NEW y \in NatSeq, NEW z \in NatSeq
  PROVE  (x \o y) \o z = x \o (y \o z)
<1>1. Associates(Nat)
  BY ConcatAssociates
<1>2. QED
  BY <1>1 DEF Associates, NatSeq

\* What every step of the caller does before luaL_pushresult.
LEMMA Added ==
  ASSUME BufferInv, NEW l \in Nat, NEW st \in Strings, NEW q \in NatSeq,
         Len(q) <= LUAL_BUFFERSIZE, Len(st) < LIMIT,
         FlattenSeq(st) \o q = (FlattenSeq(stack) \o p) \o Characters(l),
         stack' = st, p' = q, added' = added + l, result' = result, result = <<>>
  PROVE  BufferInv'
<1>1. added + l \in Nat /\ FlattenSeq(st) \o q = Numbers(added + l)
  <2>1. added \in Nat /\ FlattenSeq(stack) \o p = Numbers(added)
    BY DEF BufferInv
  <2>2. Numbers(added) \o Characters(l) = Numbers(added + l)
    BY <2>1, CharactersFollow
  <2>3. QED
    BY <2>1, <2>2
<1>2. result \in Strings
  BY DEF BufferInv
<1>3. QED
  BY <1>1, <1>2 DEF BufferInv

LEMMA addchar_Inv ==
  ASSUME BufferInv, result = <<>>, luaL_addchar
  PROVE  BufferInv'
<1> DEFINE T == FlattenSeq(stack)
           ch == Characters(1)
           e == emptybuffer(stack)
<1>1. /\ p \in NatSeq /\ stack \in Strings /\ added \in Nat /\ Len(p) <= LUAL_BUFFERSIZE
      /\ Len(stack) < LIMIT /\ LUAL_BUFFERSIZE \in Nat /\ LUAL_BUFFERSIZE >= 1
  BY SizeAssumption DEF BufferInv
<1>2. T \in NatSeq
  BY <1>1, FlattenType DEF NatSeq, Strings
<1>3. ch \in NatSeq /\ Len(ch) = 1
  BY <1>1, CharactersFollow
<1>4. e \in Strings /\ FlattenSeq(e) = T \o p
  BY <1>1, EmptyKeeps DEF emptybuffer
<1>5. added' = added + 1 /\ result' = result
  BY DEF luaL_addchar
<1>6. CASE bufffree = 0
  <2> DEFINE st == adjuststack(e)
  <2>1. stack' = st /\ p' = ch
    BY <1>6 DEF luaL_addchar
  <2> HIDE DEF e
  <2>2. st \in Strings /\ Len(st) < LIMIT /\ FlattenSeq(st) = T \o p
    BY <1>4, AdjustKeeps
  <2> HIDE DEF st, ch
  <2>3. FlattenSeq(st) \o ch = (FlattenSeq(stack) \o p) \o Characters(1)
    BY <2>2 DEF ch
  <2>4. QED
    BY <1>1, <1>3, <1>5, <2>1, <2>2, <2>3, Added
<1>7. CASE bufffree # 0
  <2> DEFINE q == p \o ch
  <2>1. stack' = stack /\ p' = q
    BY <1>7 DEF luaL_addchar
  <2>2. q \in NatSeq /\ Len(q) <= LUAL_BUFFERSIZE
    <3> HIDE DEF ch
    <3>0. p \in Seq(Nat) /\ ch \in Seq(Nat) /\ Len(ch) = 1
      BY <1>1, <1>3 DEF NatSeq
    <3>1. q \in Seq(Nat) /\ Len(q) = Len(p) + 1 /\ Len(p) \in Nat
      <4>1. Len(p) \in Nat
        BY <3>0
      <4>2. p \o ch \in Seq(Nat)
        BY <3>0
      <4>3. Len(p \o ch) = Len(p) + Len(ch)
        <5> HIDE DEF q, T, e
        <5>1. QED BY <3>0, ConcatProperties
      <4>4. QED
        BY <3>0, <4>1, <4>2, <4>3
    <3> HIDE DEF q
    <3>2. QED
      BY <1>1, <1>7, <3>1 DEF bufffree, NatSeq
  <2>3. T \o q = (T \o p) \o ch
    BY <1>1, <1>2, <1>3, TextAssociates
  <2> HIDE DEF q
  <2>4. QED
    BY <1>1, <1>5, <2>1, <2>2, <2>3, Added
<1>8. QED
  BY <1>6, <1>7

LEMMA addvalue_Inv ==
  ASSUME BufferInv, result = <<>>, NEW vl \in 0..MaxAdd, luaL_addvalue(vl)
  PROVE  BufferInv'
<1> DEFINE T == FlattenSeq(stack)
           ch == Characters(vl)
           e == emptybuffer(stack)
<1>1. /\ p \in NatSeq /\ stack \in Strings /\ added \in Nat /\ Len(p) <= LUAL_BUFFERSIZE
      /\ Len(stack) < LIMIT /\ LUAL_BUFFERSIZE \in Nat /\ LUAL_BUFFERSIZE >= 1 /\ vl \in Nat
  BY SizeAssumption DEF BufferInv
<1>2. T \in NatSeq
  BY <1>1, FlattenType DEF NatSeq, Strings
<1>3. ch \in NatSeq /\ Len(ch) = vl
  BY <1>1, CharactersFollow
<1>4. e \in Strings /\ FlattenSeq(e) = T \o p
  BY <1>1, EmptyKeeps DEF emptybuffer
<1>5. added' = added + vl /\ result' = result
  BY DEF luaL_addvalue
<1>6. CASE vl <= bufffree
  <2> DEFINE q == p \o ch
  <2>1. stack' = stack /\ p' = q
    BY <1>6 DEF luaL_addvalue
  <2>2. q \in NatSeq /\ Len(q) <= LUAL_BUFFERSIZE
    <3> HIDE DEF ch
    <3>0. p \in Seq(Nat) /\ ch \in Seq(Nat) /\ Len(ch) = vl
      BY <1>1, <1>3 DEF NatSeq
    <3>1. q \in Seq(Nat) /\ Len(q) = Len(p) + vl /\ Len(p) \in Nat
      <4>1. Len(p) \in Nat
        BY <3>0
      <4>2. p \o ch \in Seq(Nat)
        BY <3>0
      <4>3. Len(p \o ch) = Len(p) + Len(ch)
        <5> HIDE DEF q, T, e
        <5>1. QED BY <3>0, ConcatProperties
      <4>4. QED
        BY <3>0, <4>1, <4>2, <4>3
    <3> HIDE DEF q
    <3>2. QED
      BY <1>1, <1>6, <3>1 DEF bufffree, NatSeq
  <2>3. T \o q = (T \o p) \o ch
    BY <1>1, <1>2, <1>3, TextAssociates
  <2> HIDE DEF q
  <2>4. QED
    BY <1>1, <1>5, <2>1, <2>2, <2>3, Added
<1>7. CASE ~(vl <= bufffree)
  <2> DEFINE all == Append(e, ch)
             st == adjuststack(all)
             none == <<>>
  <2>1. stack' = st /\ p' = none
    BY <1>7 DEF luaL_addvalue
  <2> HIDE DEF e
  <2>2. all \in Strings /\ FlattenSeq(all) = (T \o p) \o ch
    <3> HIDE DEF ch
    <3>1. all \in Strings
      BY <1>3, <1>4 DEF NatSeq, Strings
    <3>2. FlattenSeq(Append(e, ch)) = FlattenSeq(e) \o ch
      BY <1>3, <1>4, FlattenAppend DEF NatSeq, Strings
    <3>3. QED
      BY <1>4, <3>1, <3>2
  <2> HIDE DEF all
  <2>3. st \in Strings /\ Len(st) < LIMIT /\ FlattenSeq(st) = (T \o p) \o ch
    BY <2>2, AdjustKeeps
  <2> HIDE DEF st
  <2>4. none \in NatSeq /\ Len(none) <= LUAL_BUFFERSIZE
    BY <1>1 DEF NatSeq
  <2>5. FlattenSeq(st) \o none = FlattenSeq(st)
    <3>1. FlattenSeq(st) \in Seq(Nat)
      BY <2>3, FlattenType DEF NatSeq, Strings
    <3>2. QED
      BY <3>1, ConcatEmptySeq
  <2> HIDE DEF none
  <2>6. FlattenSeq(st) \o none = (FlattenSeq(stack) \o p) \o Characters(vl)
    BY <2>3, <2>5
  <2>7. QED
    BY <1>1, <1>5, <2>1, <2>3, <2>4, <2>6, Added
<1>8. QED
  BY <1>6, <1>7

LEMMA addsize_Inv ==
  ASSUME BufferInv, result = <<>>, NEW l \in 0..LUAL_BUFFERSIZE, luaL_addsize(l)
  PROVE  BufferInv'
<1> DEFINE T == FlattenSeq(stack)
           ch == Characters(l)
           e == emptybuffer(stack)
<1>1. /\ p \in NatSeq /\ stack \in Strings /\ added \in Nat
      /\ Len(stack) < LIMIT /\ l \in Nat /\ l <= LUAL_BUFFERSIZE
  BY SizeAssumption DEF BufferInv
<1>2. T \in NatSeq
  BY <1>1, FlattenType DEF NatSeq, Strings
<1>3. ch \in NatSeq /\ Len(ch) <= LUAL_BUFFERSIZE
  BY <1>1, CharactersFollow
<1>4. e \in Strings /\ FlattenSeq(e) = T \o p
  BY <1>1, EmptyKeeps DEF emptybuffer
<1>5. added' = added + l /\ result' = result /\ p' = ch
  BY DEF luaL_addsize
<1>6. CASE p = <<>>
  <2>1. stack' = stack
    BY <1>6 DEF luaL_addsize
  <2>2. T \o <<>> = T
    BY <1>2, ConcatEmptySeq DEF NatSeq
  <2>3. T \o ch = (T \o p) \o ch
    BY <1>6, <2>2
  <2>4. QED
    BY <1>1, <1>3, <1>5, <2>1, <2>3, Added
<1>7. CASE p # <<>>
  <2> DEFINE st == adjuststack(e)
  <2>1. stack' = st
    BY <1>7 DEF luaL_addsize
  <2> HIDE DEF e
  <2>2. st \in Strings /\ Len(st) < LIMIT /\ FlattenSeq(st) = T \o p
    BY <1>4, AdjustKeeps
  <2> HIDE DEF st, ch
  <2>3. FlattenSeq(st) \o ch = (FlattenSeq(stack) \o p) \o Characters(l)
    BY <2>2 DEF ch
  <2>4. QED
    BY <1>1, <1>3, <1>5, <2>1, <2>2, <2>3, Added
<1>8. QED
  BY <1>6, <1>7

LEMMA pushresult_Inv ==
  ASSUME BufferInv, luaL_pushresult
  PROVE  BufferInv'
<1> DEFINE T == FlattenSeq(stack)
           e == emptybuffer(stack)
           x == FlattenSeq(e)
           o == <<x>>
           none == <<>>
<1>1. /\ p \in NatSeq /\ stack \in Strings /\ added \in Nat
      /\ LUAL_BUFFERSIZE \in Nat /\ LIMIT \in Nat /\ LIMIT > 1
      /\ T \o p = Numbers(added)
  BY SizeAssumption DEF BufferInv
<1>2. e \in Strings /\ x = T \o p
  BY <1>1, EmptyKeeps DEF emptybuffer
<1>3. x \in NatSeq
  <2> HIDE DEF e
  <2>1. QED BY <1>2, FlattenType DEF NatSeq, Strings
<1>4. result' = o /\ stack' = o /\ p' = none /\ added' = added
  BY DEF luaL_pushresult
<1> HIDE DEF e, x
<1>5. o \in Strings /\ Len(o) = 1 /\ o[1] = x /\ none \in NatSeq /\ Len(none) = 0
  BY <1>3 DEF NatSeq, Strings
<1>6. FlattenSeq(o) = x
  BY <1>3, FlattenOne DEF NatSeq
<1>7. x \o none = x
  BY <1>3, ConcatEmptySeq DEF NatSeq
<1> HIDE DEF o, none
<1>8. QED
  BY <1>1, <1>2, <1>4, <1>5, <1>6, <1>7 DEF BufferInv

LEMMA Buffer_Init == BufferInit => BufferInv
<1> SUFFICES ASSUME BufferInit PROVE BufferInv
  OBVIOUS
<1>1. p = <<>> /\ stack = <<>> /\ added = 0 /\ result = <<>>
  BY DEF BufferInit
<1>2. FlattenSeq(<<>>) = <<>>
  BY DEF FlattenSeq
<1>3. <<>> \o <<>> = <<>> /\ Numbers(0) = <<>>
  BY DEF Numbers
<1>4. LUAL_BUFFERSIZE \in Nat /\ LIMIT \in Nat /\ LIMIT > 1
  BY SizeAssumption
<1>5. QED
  BY <1>1, <1>2, <1>3, <1>4 DEF BufferInv, Strings, NatSeq

THEOREM BufferInvariance == BufferSpec => []BufferInv
<1>1. BufferInv /\ [BufferNext]_buffervars => BufferInv'
  <2> SUFFICES ASSUME BufferInv, [BufferNext]_buffervars PROVE BufferInv'
    OBVIOUS
  <2>1. CASE result = <<>> /\ luaL_addchar
    BY <2>1, addchar_Inv
  <2>2. ASSUME NEW vl \in 0..MaxAdd, result = <<>>, luaL_addvalue(vl) PROVE BufferInv'
    BY <2>2, addvalue_Inv
  <2>3. ASSUME NEW l \in 0..LUAL_BUFFERSIZE, result = <<>>, luaL_addsize(l) PROVE BufferInv'
    BY <2>3, addsize_Inv
  <2>4. CASE luaL_pushresult
    BY <2>4, pushresult_Inv
  <2>5. CASE UNCHANGED buffervars
    BY <2>5 DEF buffervars, BufferInv
  <2>6. QED
    BY <2>1, <2>2, <2>3, <2>4, <2>5 DEF BufferNext
<1>2. QED
  BY <1>1, Buffer_Init, PTL DEF BufferSpec

THEOREM AlwaysKeepsText == BufferSpec => []BufferKeepsText
<1>1. BufferInv => BufferKeepsText
  BY DEF BufferInv, BufferKeepsText, Text, lvl, Numbers
<1>2. QED
  BY <1>1, BufferInvariance, PTL

-----------------------------------------------------------------------------
(* The string functions (LuaStrlib).                                       *)

\* The matcher finds what the manual says, wherever a call may try it.
MatcherAgrees ==
  \A a \in Attempts : \A x \in 1..Len(a[1]) + 1 : Matcher(a[1], a[2], x) = Meaning(a[1], a[2], x)

\* The definitions of LuaStrlib, for a call c that found the matches fs.
EndOf(c)         == Len(c.s) + 1
Start(c)         == start(c.s, c.init)
Finds(c, x)      == Meaning(c.s, PatternOf(c), x)
FromIn(c, fs, i) ==
  IF i = 0 THEN Start(c) ELSE IF fs[i].to > fs[i].from THEN fs[i].to ELSE fs[i].from + 1
NextFrom(c, fs)  == FromIn(c, fs, Len(fs))
LastIn(c)        == IF c.caret /\ c.f # "gmatch" THEN Start(c) ELSE EndOf(c)
NoneIn(c, x, y)  == \A z \in x..y : Finds(c, z).res = "fail"
Legal(c)         == c \in Calls /\ IsPattern(c.p)

Element    == {"subject", "number", "new"} \X Int
Piece      == Seq(Element)
Finding(c) == [res : {"ok"} \cup Piece, from : 1..EndOf(c), to : 1..EndOf(c),
               captures : {Finds(c, x).captures : x \in 1..EndOf(c)}]

\* What is found at one place.
IsMatch(c, m) ==
  /\ m \in Finding(c) /\ m.from <= m.to
  /\ Finds(c, m.from).res = "ok" /\ Finds(c, m.from).to = m.to
  /\ Finds(c, m.from).captures = m.captures

LEMMA CallFacts ==
  ASSUME NEW c \in Calls
  PROVE  /\ TypeOfCall(c) /\ Len(c.s) \in Nat /\ EndOf(c) \in Nat /\ EndOf(c) >= 1
         /\ Start(c) \in 1..EndOf(c) /\ (c.f # "find" => Start(c) = 1)
         /\ LastIn(c) \in 1..EndOf(c)
<1>1. TypeOfCall(c)
  BY CallsAssumption
<1>2. c.s \in Seq(STRING) /\ c.init \in Int /\ (c.f # "find" => c.init = 1)
  BY <1>1 DEF TypeOfCall
<1> DEFINE L == Len(c.s)
<1>3. L \in Nat
  BY <1>2
<1> HIDE DEF L
<1>4. posrelat(c.init, L) \in Nat /\ (c.init = 1 => posrelat(c.init, L) = 1)
  BY <1>2, <1>3 DEF posrelat
<1>5. Start(c) \in 1..L + 1 /\ (c.init = 1 => Start(c) = 1)
  BY <1>3, <1>4 DEF Start, start, L
<1>6. QED
  BY <1>1, <1>2, <1>3, <1>5 DEF EndOf, LastIn, L

LEMMA WhatIsMeant ==
  ASSUME NEW c, Legal(c), NEW x \in 1..EndOf(c)
  PROVE  /\ FindsPart(c.s, PatternOf(c), x)
         /\ Plain(PatternOf(c)) => FindsText(c.s, PatternOf(c), x)
         /\ MatcherAgrees => Matcher(c.s, PatternOf(c), x) = Finds(c, x)
<1> DEFINE a == <<c.s, PatternOf(c)>>
<1>1. a \in Attempts /\ a[1] = c.s /\ a[2] = PatternOf(c)
  BY DEF Legal, Attempts
<1>2. x \in 1..Len(a[1]) + 1
  BY <1>1 DEF EndOf
<1> HIDE DEF a
<1>3. FindsPart(a[1], a[2], x) /\ (Plain(a[2]) => FindsText(a[1], a[2], x))
  BY <1>1, <1>2, MeaningAssumption
<1>4. MatcherAgrees => Matcher(a[1], a[2], x) = Meaning(a[1], a[2], x)
  BY <1>1, <1>2 DEF MatcherAgrees
<1>5. QED
  BY <1>1, <1>3, <1>4 DEF Finds

\* An attempt finds nothing, or a part of the subject from there.
LEMMA MatchMeant ==
  ASSUME NEW c, Legal(c), NEW x \in 1..EndOf(c)
  PROVE  LET m == Finds(c, x) IN
         \/ m.res = "fail"
         \/ /\ m.res = "ok" /\ m.from = x /\ m.to \in x..EndOf(c) /\ IsMatch(c, m)
            /\ m.captures \in Seq(Capture)
<1> DEFINE m == Finds(c, x)
<1>1. FindsPart(c.s, PatternOf(c), x)
  BY WhatIsMeant
<1>2. SUFFICES ASSUME m.res # "fail"
               PROVE  /\ m.res = "ok" /\ m.from = x /\ m.to \in x..EndOf(c) /\ IsMatch(c, m)
                      /\ m.captures \in Seq(Capture)
  OBVIOUS
<1>3. /\ m = [res |-> "ok", from |-> x, to |-> m.to, captures |-> m.captures]
      /\ m.to \in x..EndOf(c) /\ m.captures \in Seq(Capture)
  BY <1>1, <1>2 DEF FindsPart, Finds, EndOf
<1>4. EndOf(c) \in Nat /\ x \in Nat /\ x >= 1
  BY CallFacts DEF Legal
<1>5. m.captures \in {Finds(c, z).captures : z \in 1..EndOf(c)}
  OBVIOUS
<1> DEFINE cap == m.captures
           to  == m.to
<1>6. m = [res |-> "ok", from |-> x, to |-> to, captures |-> cap] /\ to \in x..EndOf(c)
  BY <1>3
<1> HIDE DEF cap, to
<1>7. m.res = "ok" /\ m.from = x /\ m.to = to /\ m.captures = cap
  BY <1>6
<1>8. to \in 1..EndOf(c) /\ x <= to
  BY <1>4, <1>6
<1>9. [res |-> "ok", from |-> x, to |-> to, captures |-> cap] \in Finding(c)
  BY <1>5, <1>8 DEF Finding, cap
<1>10. m \in Finding(c)
  BY <1>6, <1>9
<1>11. IsMatch(c, m)
  BY <1>7, <1>8, <1>10 DEF IsMatch
<1>12. QED
  BY <1>3, <1>7, <1>11

Sound(c, fs) ==
  /\ fs \in Seq(Finding(c))
  /\ \A i \in 1..Len(fs) :
       /\ IsMatch(c, fs[i])
       /\ FromIn(c, fs, i - 1) <= fs[i].from /\ fs[i].from <= LastIn(c)
       /\ NoneIn(c, FromIn(c, fs, i - 1), fs[i].from - 1)

LEMMA NextType ==
  ASSUME NEW c, Legal(c), NEW fs, Sound(c, fs)
  PROVE  NextFrom(c, fs) \in 1..EndOf(c) + 1
<1>1. fs \in Seq(Finding(c)) /\ Len(fs) \in Nat /\ EndOf(c) \in Nat /\ Start(c) \in 1..EndOf(c)
  BY CallFacts DEF Sound, Legal
<1>2. CASE Len(fs) = 0
  BY <1>1, <1>2 DEF NextFrom, FromIn
<1>3. CASE Len(fs) # 0
  <2> DEFINE m == fs[Len(fs)]
  <2>1. Len(fs) \in 1..Len(fs) /\ m \in Finding(c)
    BY <1>1, <1>3
  <2>2. m.from \in 1..EndOf(c) /\ m.to \in 1..EndOf(c)
    BY <2>1 DEF Finding
  <2>3. NextFrom(c, fs) = IF m.to > m.from THEN m.to ELSE m.from + 1
    BY <1>3 DEF NextFrom, FromIn
  <2>4. QED
    BY <1>1, <2>2, <2>3
<1>4. QED
  BY <1>2, <1>3

\* One more match.
LEMMA SoundAppend ==
  ASSUME NEW c, Legal(c), NEW fs, Sound(c, fs), NEW m, IsMatch(c, m),
         NextFrom(c, fs) <= m.from, m.from <= LastIn(c), NoneIn(c, NextFrom(c, fs), m.from - 1)
  PROVE  /\ Sound(c, Append(fs, m)) /\ Len(Append(fs, m)) = Len(fs) + 1
         /\ NextFrom(c, Append(fs, m)) = IF m.to > m.from THEN m.to ELSE m.from + 1
<1> DEFINE gs == Append(fs, m)
           n  == Len(fs)
<1>1. fs \in Seq(Finding(c)) /\ m \in Finding(c) /\ n \in Nat
  BY DEF Sound, IsMatch
<1>2. gs \in Seq(Finding(c)) /\ Len(gs) = n + 1 /\ gs[n + 1] = m /\ \A i \in 1..n : gs[i] = fs[i]
  <2> HIDE DEF Finding
  <2>1. QED BY <1>1
<1> HIDE DEF gs, n
<1>3. \A i \in 0..n : FromIn(c, gs, i) = FromIn(c, fs, i)
  BY <1>1, <1>2 DEF FromIn
<1>4. FromIn(c, gs, n) = NextFrom(c, fs)
  BY <1>1, <1>3 DEF NextFrom, n
<1>5. ASSUME NEW i \in 1..n + 1
      PROVE  /\ IsMatch(c, gs[i])
             /\ FromIn(c, gs, i - 1) <= gs[i].from /\ gs[i].from <= LastIn(c)
             /\ NoneIn(c, FromIn(c, gs, i - 1), gs[i].from - 1)
  <2>1. CASE i \in 1..n
    <3>1. gs[i] = fs[i] /\ i - 1 \in 0..n
      BY <1>1, <1>2, <2>1
    <3>2. FromIn(c, gs, i - 1) = FromIn(c, fs, i - 1)
      BY <1>3, <3>1
    <3>3. /\ IsMatch(c, fs[i])
          /\ FromIn(c, fs, i - 1) <= fs[i].from /\ fs[i].from <= LastIn(c)
          /\ NoneIn(c, FromIn(c, fs, i - 1), fs[i].from - 1)
      BY <2>1 DEF Sound, n
    <3>4. QED
      BY <3>1, <3>2, <3>3
  <2>2. CASE i = n + 1
    <3>1. gs[i] = m /\ i - 1 = n
      BY <1>1, <1>2, <2>2
    <3>2. QED
      BY <1>4, <3>1
  <2>3. QED
    BY <1>1, <2>1, <2>2
<1>6. Sound(c, gs)
  BY <1>2, <1>5 DEF Sound
<1>7. NextFrom(c, gs) = IF m.to > m.from THEN m.to ELSE m.from + 1
  BY <1>1, <1>2 DEF NextFrom, FromIn
<1>8. QED
  BY <1>2, <1>6, <1>7 DEF gs, n

(* The text that gsub makes. *)

LEMMA PartType ==
  ASSUME NEW x \in Int, NEW y \in Int
  PROVE  /\ Part(x, y) \in Piece
         /\ x <= y => /\ Len(Part(x, y)) = y - x
                      /\ \A i \in 1..y - x : Part(x, y)[i] = <<"subject", x + i - 1>>
<1>1. \A i \in 1..y - x : <<"subject", x + i - 1>> \in Element
  BY DEF Element
<1>2. CASE x <= y
  <2>1. y - x \in Nat
    BY <1>2
  <2>2. QED
    BY <1>1, <2>1 DEF Part, Piece
<1>3. CASE ~(x <= y)
  <2>1. 1..y - x = {}
    BY <1>3
  <2>2. Part(x, y) = <<>>
    BY <2>1 DEF Part
  <2>3. QED
    BY <1>3, <2>2 DEF Piece
<1>4. QED
  BY <1>2, <1>3

\* Two parts, one after the other.
LEMMA PartJoin ==
  ASSUME NEW x \in Int, NEW y \in Int, NEW z \in Int, x <= y, y <= z
  PROVE  Part(x, y) \o Part(y, z) = Part(x, z)
<1> DEFINE a == Part(x, y)
           b == Part(y, z)
           c == Part(x, z)
           l == y - x
           k == z - y
<1>1. l \in Nat /\ k \in Nat /\ z - x = l + k
  OBVIOUS
<1>2. /\ a \in Seq(Element) /\ Len(a) = l /\ \A i \in 1..l : a[i] = <<"subject", x + i - 1>>
      /\ b \in Seq(Element) /\ Len(b) = k /\ \A i \in 1..k : b[i] = <<"subject", y + i - 1>>
      /\ c \in Seq(Element) /\ Len(c) = l + k /\ \A i \in 1..l + k : c[i] = <<"subject", x + i - 1>>
  <2>1. x <= z /\ z - x = l + k
    OBVIOUS
  <2>2. QED
    BY <1>1, <2>1, PartType DEF Piece
<1> HIDE DEF a, b, c
<1>3. a \o b \in Seq(Element) /\ Len(a \o b) = l + k
  <2> HIDE DEF l, k
  <2>1. a \in Seq(Element) /\ b \in Seq(Element) /\ Len(a) = l /\ Len(b) = k
    BY <1>2
  <2>2. QED BY <2>1, ConcatProperties
<1>4. ASSUME NEW i \in 1..l + k PROVE (a \o b)[i] = c[i]
  <2>1. c[i] = <<"subject", x + i - 1>>
    BY <1>2
  <2>2. CASE i \in 1..l
    <3>1. (a \o b)[i] = a[i]
      <4> HIDE DEF l, k
      <4>1. a \in Seq(Element) /\ b \in Seq(Element) /\ Len(a) = l /\ Len(b) = k
        BY <1>2
      <4>2. QED BY <1>1, <2>2, <4>1, ConcatProperties
    <3>2. QED
      BY <1>2, <2>1, <2>2, <3>1
  <2>3. CASE i \notin 1..l
    <3>1. i - l \in 1..k /\ y + (i - l) - 1 = x + i - 1
      BY <1>1, <2>3
    <3>2. b[i - l] = <<"subject", x + i - 1>>
      BY <1>2, <3>1
    <3>3. (a \o b)[i] = b[i - l]
      <4>0. i \in 1..l + k /\ ~(i <= l)
        BY <1>1, <2>3
      <4> HIDE DEF l, k
      <4>1. a \in Seq(Element) /\ b \in Seq(Element) /\ Len(a) = l /\ Len(b) = k
        BY <1>2
      <4>2. QED BY <1>1, <4>0, <4>1, ConcatProperties
    <3>4. QED
      BY <2>1, <3>2, <3>3
  <2>4. QED
    BY <2>2, <2>3
<1>5. a \o b = c
  <2> HIDE DEF l, k
  <2>1. QED BY <1>1, <1>2, <1>3, <1>4, SeqEqual
<1>6. QED
  BY <1>5 DEF a, b, c

LEMMA PartNone ==
  ASSUME NEW x \in Int
  PROVE  Part(x, x) = <<>>
<1>1. 1..x - x = {}
  OBVIOUS
<1>2. QED
  BY <1>1 DEF Part

\* Captures, when they hold something.
LEMMA CapturedType ==
  ASSUME NEW c, Legal(c), NEW m, IsMatch(c, m), m.captures \in Seq(Capture), NEW x \in Nat
  PROVE  /\ Captured(m, x) \in SUBSET Piece
         /\ Captured(m, x) = {} => x > 1
         /\ \A u \in Captured(m, x), v \in Captured(m, x) : u = v
<1>1. m.from \in Int /\ m.to \in Int /\ m.from <= m.to
  BY CallFacts DEF IsMatch, Finding, Legal
<1>2. Part(m.from, m.to) \in Piece
  BY <1>1, PartType
<1>3. CASE x = 0 \/ (x = 1 /\ m.captures = <<>>)
  <2>1. Captured(m, x) = {Part(m.from, m.to)}
    BY <1>3 DEF Captured
  <2>2. QED
    BY <1>2, <2>1
<1>4. CASE ~(x = 0 \/ (x = 1 /\ m.captures = <<>>)) /\ x > Len(m.captures)
  <2>1. Captured(m, x) = {}
    BY <1>4 DEF Captured
  <2>2. x = 1 => m.captures = <<>>
    <3>1. SUFFICES ASSUME x = 1 PROVE m.captures = <<>>
      OBVIOUS
    <3>2. Len(m.captures) = 0
      BY <1>4, <3>1
    <3>3. QED
      BY <3>2
  <2>3. QED
    BY <1>4, <2>1, <2>2
<1>5. CASE ~(x = 0 \/ (x = 1 /\ m.captures = <<>>)) /\ ~(x > Len(m.captures))
  <2> DEFINE y == m.captures[x]
  <2>1. x \in 1..Len(m.captures)
    BY <1>5
  <2>2. y \in Capture
    BY <2>1
  <2>3. CASE y \in {"position"} \X Nat
    <3>0. y[1] = "position" /\ y[2] \in Nat
      BY <2>3
    <3>1. Captured(m, x) = {<< <<"number", y[2]>> >>}
      BY <1>5, <3>0 DEF Captured
    <3>2. << <<"number", y[2]>> >> \in Piece
      BY <3>0 DEF Piece, Element
    <3>3. QED
      BY <3>1, <3>2
  <2>4. CASE y \in {"text"} \X Nat \X Nat
    <3>0. y[1] = "text" /\ y[2] \in Nat /\ y[3] \in Nat
      BY <2>4
    <3>1. Captured(m, x) = {Part(y[2], y[3])}
      BY <1>5, <3>0 DEF Captured
    <3>2. Part(y[2], y[3]) \in Piece
      <4> DEFINE u == y[2]
                 v == y[3]
      <4>1. u \in Int /\ v \in Int
        BY <3>0
      <4> HIDE DEF u, v
      <4>2. Part(u, v) \in Piece
        BY <4>1, PartType
      <4>3. QED
        BY <4>2 DEF u, v
    <3>3. QED
      BY <3>1, <3>2
  <2>5. QED
    BY <2>2, <2>3, <2>4 DEF Capture
<1>6. QED
  BY <1>3, <1>4, <1>5

\* What a string gives for a match, when it gives something.
LEMMA AddedType ==
  ASSUME NEW c, Legal(c), NEW m, IsMatch(c, m), m.captures \in Seq(Capture),
         NEW repl \in Seq(Nat)
  PROVE  /\ add_s(m, repl) \in SUBSET Piece
         /\ add_s(m, repl) = {} => \E i \in DOMAIN repl : repl[i] \in 2..9
         /\ \A u \in add_s(m, repl) : add_s(m, repl) = {u}
<1> DEFINE piece(x) == IF x \in 0..9 THEN Captured(m, x) ELSE {<< <<"new", x>> >>}
           some(x) == CHOOSE y \in piece(x) : TRUE
           pieces == [i \in DOMAIN repl |-> some(repl[i])]
           all == FlattenSeq(pieces)
           none == \E i \in DOMAIN repl : piece(repl[i]) = {}
<1>1. add_s(m, repl) = IF none THEN {} ELSE {all}
  BY DEF add_s
<1>2. ASSUME NEW i \in DOMAIN repl
      PROVE  /\ piece(repl[i]) \in SUBSET Piece
             /\ piece(repl[i]) = {} => repl[i] \in 2..9
  <2>1. repl[i] \in Nat
    OBVIOUS
  <2>2. CASE repl[i] \in 0..9
    <3>1. piece(repl[i]) = Captured(m, repl[i])
      BY <2>2
    <3> HIDE DEF piece
    <3>2. Captured(m, repl[i]) \in SUBSET Piece /\ (Captured(m, repl[i]) = {} => repl[i] > 1)
      BY <2>1, CapturedType
    <3>3. QED
      BY <2>1, <2>2, <3>1, <3>2
  <2>3. CASE repl[i] \notin 0..9
    <3>1. piece(repl[i]) = {<< <<"new", repl[i]>> >>}
      BY <2>3
    <3>2. << <<"new", repl[i]>> >> \in Piece
      BY <2>1 DEF Piece, Element
    <3> HIDE DEF piece
    <3>3. QED
      BY <3>1, <3>2
  <2>4. QED
    BY <2>2, <2>3
<1> HIDE DEF piece
<1>3. none => \E i \in DOMAIN repl : repl[i] \in 2..9
  BY <1>2
<1>4. ASSUME ~none PROVE all \in Piece
  <2>1. ASSUME NEW i \in DOMAIN repl PROVE some(repl[i]) \in Piece
    <3>1. piece(repl[i]) # {} /\ piece(repl[i]) \in SUBSET Piece
      BY <1>2, <1>4
    <3>2. QED
      BY <3>1
  <2> HIDE DEF some
  <2>2. DOMAIN repl = 1..Len(repl) /\ Len(repl) \in Nat
    OBVIOUS
  <2>3. pieces \in Seq(Piece)
    BY <2>1, <2>2
  <2> HIDE DEF pieces
  <2>4. QED
    BY <2>3, FlattenType DEF Piece
<1> HIDE DEF all, none
<1>5. QED
  BY <1>1, <1>3, <1>4

\* What gsub put for a match.
Puts(c, m) ==
  /\ m.res \in Piece
  /\ c.kind = "string" => {m.res} = add_s(m, c.repl)

AllPut(c, fs) == \A i \in 1..Len(fs) : Puts(c, fs[i])

BetweenIn(c, fs, i) ==
  Part(IF i = 1 THEN 1 ELSE fs[i - 1].to, IF i > Len(fs) THEN EndOf(c) ELSE fs[i].from)
ReplacedIn(c, fs) == [i \in 1..Len(fs) |-> BetweenIn(c, fs, i) \o fs[i].res]
EndOfLast(fs)     == IF Len(fs) = 0 THEN 1 ELSE fs[Len(fs)].to
Made(c, fs)       == FlattenSeq(ReplacedIn(c, fs))

LEMMA ReplacedType ==
  ASSUME NEW c, Legal(c), NEW fs, Sound(c, fs), AllPut(c, fs)
  PROVE  /\ EndOfLast(fs) \in 1..EndOf(c) /\ ReplacedIn(c, fs) \in Seq(Piece)
         /\ Made(c, fs) \in Piece
<1> DEFINE n == Len(fs)
<1>1. fs \in Seq(Finding(c)) /\ n \in Nat /\ EndOf(c) \in Nat /\ EndOf(c) >= 1
  BY CallFacts DEF Sound, Legal
<1>2. ASSUME NEW i \in 1..n PROVE fs[i].from \in 1..EndOf(c) /\ fs[i].to \in 1..EndOf(c)
  <2>1. fs[i] \in Finding(c)
    BY <1>1
  <2>2. QED
    BY <2>1 DEF Finding
<1>3. EndOfLast(fs) \in 1..EndOf(c)
  <2>1. n # 0 => n \in 1..n
    BY <1>1
  <2>2. QED
    BY <1>1, <1>2, <2>1 DEF EndOfLast
<1>4. ASSUME NEW i \in 1..n PROVE BetweenIn(c, fs, i) \o fs[i].res \in Piece
  <2>1. fs[i].res \in Piece
    BY DEF AllPut, Puts
  <2> DEFINE x == IF i = 1 THEN 1 ELSE fs[i - 1].to
             y == IF i > n THEN EndOf(c) ELSE fs[i].from
             b == Part(x, y)
             r == fs[i].res
  <2>2. i # 1 => i - 1 \in 1..n
    BY <1>1
  <2>3. x \in Int /\ y \in Int
    BY <1>1, <1>2, <2>2
  <2>4. BetweenIn(c, fs, i) = b
    BY DEF BetweenIn
  <2> HIDE DEF x, y
  <2>5. b \in Piece
    BY <2>3, PartType
  <2> HIDE DEF b, r
  <2>6. b \o r \in Piece
    BY <2>1, <2>5 DEF r, Piece
  <2>7. QED
    BY <2>4, <2>6 DEF r
<1>5. ReplacedIn(c, fs) \in Seq(Piece)
  BY <1>1, <1>4 DEF ReplacedIn
<1>6. QED
  BY <1>3, <1>5, FlattenType DEF Piece, Made

MadeWith(c, fs, m) == (Made(c, fs) \o Part(EndOfLast(fs), m.from)) \o m.res

\* One more match, replaced.
LEMMA MadeAppend ==
  ASSUME NEW c, Legal(c), NEW fs, Sound(c, fs), AllPut(c, fs), NEW m, IsMatch(c, m), Puts(c, m)
  PROVE  /\ AllPut(c, Append(fs, m))
         /\ EndOfLast(Append(fs, m)) = m.to
         /\ Made(c, Append(fs, m)) = MadeWith(c, fs, m)
<1> DEFINE gs == Append(fs, m)
           n  == Len(fs)
           b  == Part(EndOfLast(fs), m.from)
           r  == m.res
           x  == b \o r
           rs == ReplacedIn(c, fs)
<1>1. fs \in Seq(Finding(c)) /\ m \in Finding(c) /\ n \in Nat /\ r \in Piece
  BY DEF Sound, IsMatch, Puts
<1>2. Len(gs) = n + 1 /\ gs[n + 1] = m /\ \A i \in 1..n : gs[i] = fs[i]
  <2> HIDE DEF Finding
  <2>1. QED BY <1>1
<1> HIDE DEF gs
<1>3. AllPut(c, gs)
  <2>1. ASSUME NEW i \in 1..n + 1 PROVE Puts(c, gs[i])
    <3>1. i \in 1..n \/ i = n + 1
      BY <1>1
    <3>2. QED
      BY <1>2, <3>1 DEF AllPut
  <2>2. QED
    BY <1>2, <2>1 DEF AllPut
<1>4. EndOfLast(gs) = m.to
  BY <1>1, <1>2 DEF EndOfLast
<1>5. EndOfLast(fs) \in Int /\ m.from \in Int /\ rs \in Seq(Piece)
  <2>1. EndOfLast(fs) \in 1..EndOf(c) /\ rs \in Seq(Piece)
    BY ReplacedType
  <2>2. QED
    BY <1>1, <2>1 DEF Finding
<1>6. x \in Piece /\ b \in Piece
  <2>1. b \in Piece
    BY <1>5, PartType
  <2> HIDE DEF b, r
  <2>2. QED
    BY <1>1, <2>1 DEF Piece
<1>7. ReplacedIn(c, gs) = Append(rs, x)
  <2>1. ASSUME NEW i \in 1..n
        PROVE  BetweenIn(c, gs, i) \o gs[i].res = BetweenIn(c, fs, i) \o fs[i].res
    <3>1. gs[i] = fs[i] /\ (i # 1 => gs[i - 1] = fs[i - 1]) /\ ~(i > n) /\ ~(i > n + 1)
      BY <1>1, <1>2
    <3>2. QED
      BY <1>2, <3>1 DEF BetweenIn
  <2>2. BetweenIn(c, gs, n + 1) = b
    <3>1. n # 0 => gs[n] = fs[n]
      BY <1>1, <1>2
    <3>2. (n + 1) - 1 = n /\ ~(n + 1 > n + 1) /\ (n + 1 = 1 <=> n = 0)
      BY <1>1
    <3>3. QED
      BY <1>2, <3>1, <3>2 DEF BetweenIn, EndOfLast
  <2> DEFINE ss == ReplacedIn(c, gs)
             ts == Append(rs, x)
  <2>3. ss = [i \in 1..n + 1 |-> BetweenIn(c, gs, i) \o gs[i].res]
    BY <1>2 DEF ReplacedIn
  <2>4. rs = [i \in 1..n |-> BetweenIn(c, fs, i) \o fs[i].res]
    BY DEF ReplacedIn
  <2> HIDE DEF rs, x
  <2>5. Len(rs) = n
    BY <1>1, <1>5, <2>4
  <2>6. ts \in Seq(Piece) /\ Len(ts) = n + 1 /\ ts[n + 1] = x /\ \A i \in 1..n : ts[i] = rs[i]
    BY <1>1, <1>5, <1>6, <2>5, AppendProperties
  <2>7. ASSUME NEW i \in 1..n + 1 PROVE ss[i] = ts[i]
    <3>1. CASE i \in 1..n
      <4>1. ss[i] = rs[i]
        BY <2>1, <2>3, <2>4, <3>1
      <4>2. QED
        BY <2>6, <3>1, <4>1
    <3>2. CASE i = n + 1
      <4>1. ss[i] = b \o r
        BY <1>2, <2>2, <2>3, <3>2
      <4>2. QED
        BY <2>6, <3>2, <4>1 DEF x
    <3>3. i \in 1..n \/ i = n + 1
      BY <1>1
    <3> HIDE DEF ss, ts
    <3>4. QED
      BY <3>1, <3>2, <3>3
  <2> HIDE DEF ts
  <2>8. ts = [i \in 1..n + 1 |-> ts[i]]
    BY <1>1, <2>6
  <2>9. ss = ts
    BY <2>3, <2>7, <2>8
  <2>10. QED
    BY <2>9 DEF ts
<1> DEFINE f == FlattenSeq(rs)
<1>8. FlattenSeq(Append(rs, x)) = f \o x
  <2> HIDE DEF rs, x
  <2>1. QED BY <1>5, <1>6, FlattenAppend DEF Piece
<1>9. f \in Piece
  <2> HIDE DEF rs
  <2>1. QED BY <1>5, FlattenType DEF Piece
<1> HIDE DEF f, b, r, rs
<1>10. f \o (b \o r) = (f \o b) \o r
  <2>1. Associates(Nat)
    BY ConcatAssociates
  <2>2. QED
    BY <1>1, <1>6, <1>9, <2>1 DEF Associates, Piece
<1>11. QED
  BY <1>2, <1>3, <1>4, <1>7, <1>8, <1>10 DEF MadeWith, Made, f, b, r, rs, gs

TriedIn(c, fs) ==
  IF (c.f # "gsub" \/ Len(fs) < c.max_s) /\ ~(c.f = "find" /\ fs # <<>>) THEN LastIn(c) ELSE 0

RaisesIn(c) ==
  c.f = "gsub" /\ (c.kind # "string" \/ \E i \in DOMAIN c.repl : c.repl[i] \in 2..9)

\* How far the call c has come: at the place sr and the label a, with the matches fs.
Placed(c, sr, a, fs) ==
  /\ sr \in 1..EndOf(c) + 1
  /\ a \in {"plain", "find", "gmatch", "gsub", "rest", "done", "error"}
  /\ c.f = "find" => Len(fs) <= 1
  /\ c.f = "gsub" => fs = <<>> \/ Len(fs) <= c.max_s
  /\ a \in {"plain", "find"} => c.f = "find" /\ fs = <<>> /\ NextFrom(c, fs) = Start(c)
  /\ a = "plain" => ~c.caret /\ Plain(c.p) /\ sr = Start(c)
  /\ a = "gmatch" => c.f = "gmatch"
  /\ a \in {"gsub", "rest"} => c.f = "gsub" /\ sr <= EndOf(c)
  /\ a \in {"find", "gmatch", "gsub"} => NextFrom(c, fs) <= sr /\ NoneIn(c, NextFrom(c, fs), sr - 1)
  /\ a \in {"find", "gsub"} => sr <= LastIn(c)
  /\ a = "rest" => NoneIn(c, NextFrom(c, fs), LastIn(c))
  /\ a = "done" => NoneIn(c, NextFrom(c, fs), TriedIn(c, fs))
  /\ a = "error" => RaisesIn(c)

\* What gsub has made of the subject so far: o.
Texts(c, sr, a, fs, o) ==
  c.f = "gsub" =>
    /\ AllPut(c, fs)
    /\ a \in {"gsub", "rest"} =>
         EndOfLast(fs) <= sr /\ o = Made(c, fs) \o Part(EndOfLast(fs), sr)
    /\ a = "done" => o = Made(c, fs) \o Part(EndOfLast(fs), EndOf(c))

\* The inductive invariant.
StrInv(c, sr, a, fs, o) ==
  Sound(c, fs) /\ Placed(c, sr, a, fs) /\ Texts(c, sr, a, fs, o)

LEMMA NothingBefore ==
  ASSUME NEW c, NEW x \in Int, NEW y \in Int, y < x
  PROVE  NoneIn(c, x, y)
BY DEF NoneIn

LEMMA OneMore ==
  ASSUME NEW c, NEW x \in Int, NEW y \in Int, NoneIn(c, x, y - 1), Finds(c, y).res = "fail"
  PROVE  NoneIn(c, x, y)
<1>1. ASSUME NEW z \in x..y PROVE Finds(c, z).res = "fail"
  <2>1. z \in x..y - 1 \/ z = y
    OBVIOUS
  <2>2. QED
    BY <2>1 DEF NoneIn
<1>2. QED
  BY <1>1 DEF NoneIn

LEMMA Starts ==
  ASSUME NEW c, Legal(c)
  PROVE  StrInv(c, Start(c), IF c.f = "find" /\ ~c.caret /\ Plain(c.p) THEN "plain" ELSE c.f, <<>>, <<>>)
<1> DEFINE a == IF c.f = "find" /\ ~c.caret /\ Plain(c.p) THEN "plain" ELSE c.f
           none == <<>>
<1>1. /\ TypeOfCall(c) /\ EndOf(c) \in Nat /\ Start(c) \in 1..EndOf(c)
      /\ (c.f # "find" => Start(c) = 1) /\ LastIn(c) \in 1..EndOf(c)
  BY CallFacts DEF Legal
<1>2. c.f \in {"find", "gmatch", "gsub"}
  BY <1>1 DEF TypeOfCall
<1>3. none \in Seq(Finding(c)) /\ Len(none) = 0
  <2> HIDE DEF Finding
  <2>1. QED OBVIOUS
<1>4. Sound(c, none)
  BY <1>3 DEF Sound
<1>5. NextFrom(c, none) = Start(c)
  BY <1>3 DEF NextFrom, FromIn
<1>6. NoneIn(c, Start(c), Start(c) - 1)
  BY <1>1, NothingBefore
<1>7. c.f = "gsub" => Start(c) <= LastIn(c)
  BY <1>1
<1>8. c.f = "find" => Start(c) <= LastIn(c)
  BY <1>1 DEF LastIn
<1>9. Placed(c, Start(c), a, none)
  <2>1. a \in {"plain", "find", "gmatch", "gsub"} /\ (a # "plain" => a = c.f)
        /\ (a = "plain" => c.f = "find" /\ ~c.caret /\ Plain(c.p))
    BY <1>2
  <2> HIDE DEF a
  <2>2. none = <<>>
    OBVIOUS
  <2> HIDE DEF none
  <2>3. QED
    BY <1>1, <1>3, <1>5, <1>6, <1>7, <1>8, <2>1, <2>2 DEF Placed
<1>10. Texts(c, Start(c), a, none, none)
  <2>1. SUFFICES ASSUME c.f = "gsub" PROVE Texts(c, Start(c), a, none, none)
    BY DEF Texts
  <2>2. a = "gsub" /\ Start(c) = 1
    BY <1>1, <2>1
  <2>3. ReplacedIn(c, none) = <<>>
    BY <1>3 DEF ReplacedIn
  <2>4. Made(c, none) = <<>>
    BY <2>3 DEF Made, FlattenSeq
  <2>5. EndOfLast(none) = 1 /\ Part(1, 1) = <<>>
    BY <1>3 DEF EndOfLast, Part
  <2>6. <<>> \o <<>> = <<>>
    OBVIOUS
  <2> HIDE DEF a
  <2>7. QED
    BY <1>3, <2>2, <2>4, <2>5, <2>6 DEF Texts, AllPut
<1>11. QED
  BY <1>4, <1>9, <1>10 DEF StrInv

LEMMA FindPlain_Inv ==
  ASSUME Legal(call), StrInv(call, src, at, found, out), FindPlain
  PROVE  StrInv(call, src', at', found', out')
<1> DEFINE c == call
           E == EndOf(c)
           none == <<>>
<1>1. /\ TypeOfCall(c) /\ E \in Nat /\ Start(c) \in 1..E /\ Len(c.s) + 1 = E
  BY CallFacts DEF Legal, EndOf
<1>2. at = "plain" /\ at' = "done" /\ src' = src /\ out' = out
  BY DEF FindPlain
<1>3. /\ c.f = "find" /\ found = none /\ ~c.caret /\ Plain(c.p) /\ src = Start(c)
      /\ Sound(c, none) /\ NextFrom(c, none) = Start(c)
  BY <1>2 DEF StrInv, Placed
<1>4. PatternOf(c) = c.p /\ LastIn(c) = E
  BY <1>3 DEF PatternOf, LastIn
<1>5. ASSUME NEW x \in 1..E
      PROVE  IF TextAt(c.s, x, c.p) THEN Finds(c, x) = TextMatch(x, c.p) ELSE Finds(c, x).res = "fail"
  <2>1. FindsText(c.s, c.p, x)
    BY <1>3, <1>4, WhatIsMeant
  <2>2. QED
    BY <1>4, <2>1 DEF FindsText, Finds
<1>6. \A fs : Texts(c, src, "done", fs, out)
  BY <1>3 DEF Texts
<1>7. ASSUME NEW i \in lmemfind(c.s, src, c.p), found' = <<TextMatch(i, c.p)>>
      PROVE  StrInv(c, src', at', found', out')
  <2> DEFINE m == TextMatch(i, c.p)
             gs == Append(none, m)
  <2>1. i \in src..E /\ i \in 1..E /\ TextAt(c.s, i, c.p) /\ \A h \in src..i - 1 : ~TextAt(c.s, h, c.p)
    BY <1>1, <1>3 DEF lmemfind
  <2>2. Finds(c, i) = m /\ m.res = "ok"
    BY <1>5, <2>1 DEF TextMatch
  <2> HIDE DEF m
  <2>3. IsMatch(c, m) /\ m.from = i /\ m.to \in i..E
    BY <2>1, <2>2, MatchMeant
  <2>4. NoneIn(c, Start(c), i - 1)
    <3>1. ASSUME NEW z \in Start(c)..i - 1 PROVE Finds(c, z).res = "fail"
      <4>1. z \in 1..E /\ z \in src..i - 1
        BY <1>1, <1>3, <2>1
      <4>2. QED
        BY <1>5, <2>1, <4>1
    <3>2. QED
      BY <3>1 DEF NoneIn
  <2>5. NextFrom(c, none) <= m.from /\ m.from <= LastIn(c) /\ NoneIn(c, NextFrom(c, none), m.from - 1)
    BY <1>1, <1>3, <1>4, <2>1, <2>3, <2>4
  <2> HIDE DEF none
  <2>6. Sound(c, gs) /\ Len(gs) = Len(none) + 1
    BY <1>3, <2>3, <2>5, SoundAppend
  <2>7. Len(none) = 0 /\ found' = gs /\ gs # <<>>
    BY <1>7 DEF none, m
  <2>8. TriedIn(c, gs) = 0
    BY <1>3, <2>7 DEF TriedIn
  <2> HIDE DEF gs
  <2>9. NextFrom(c, gs) \in 1..E + 1
    BY <2>6, NextType
  <2>10. NoneIn(c, NextFrom(c, gs), 0)
    BY <2>9, NothingBefore
  <2>11. Placed(c, src, "done", gs)
    BY <1>1, <1>3, <2>6, <2>7, <2>8, <2>10 DEF Placed
  <2>12. QED
    BY <1>2, <1>6, <2>6, <2>7, <2>11 DEF StrInv
<1>8. ASSUME lmemfind(c.s, src, c.p) = {}, found' = <<>>
      PROVE  StrInv(c, src', at', found', out')
  <2>1. ASSUME NEW z \in Start(c)..E PROVE ~TextAt(c.s, z, c.p)
    <3> DEFINE S == {x \in Start(c)..E : TextAt(c.s, x, c.p)}
    <3>1. SUFFICES ASSUME S # {} PROVE FALSE
      OBVIOUS
    <3>2. S \in SUBSET Nat
      BY <1>1
    <3>3. PICK x \in S : \A y \in S : x <= y
      <4> HIDE DEF S
      <4>1. QED BY <3>1, <3>2, LeastExists
    <3>4. ASSUME NEW h \in src..x - 1 PROVE ~TextAt(c.s, h, c.p)
      <4>1. h \in Start(c)..E /\ ~(x <= h)
        BY <1>1, <1>3
      <4>2. QED
        BY <3>3, <4>1
    <3>5. x \in lmemfind(c.s, src, c.p)
      BY <1>1, <1>3, <3>4 DEF lmemfind
    <3>6. QED
      BY <1>8, <3>5
  <2>2. NoneIn(c, Start(c), E)
    <3>1. ASSUME NEW z \in Start(c)..E PROVE Finds(c, z).res = "fail"
      <4>1. z \in 1..E
        BY <1>1
      <4>2. QED
        BY <1>5, <2>1, <4>1
    <3>2. QED
      BY <3>1 DEF NoneIn
  <2>3. TriedIn(c, none) = E /\ Len(none) = 0
    BY <1>3, <1>4 DEF TriedIn
  <2>4. NoneIn(c, NextFrom(c, none), TriedIn(c, none))
    BY <1>3, <2>2, <2>3
  <2>5. none = <<>>
    OBVIOUS
  <2> HIDE DEF none
  <2>6. Placed(c, src, "done", none)
    BY <1>1, <1>3, <2>3, <2>4, <2>5 DEF Placed
  <2>7. QED
    BY <1>2, <1>3, <1>6, <1>8, <2>5, <2>6 DEF StrInv
<1>9. QED
  BY <1>7, <1>8 DEF FindPlain

LEMMA MatchPushes ==
  ASSUME NEW m, m.captures \in Seq(Capture)
  PROVE  Pushes(m)
<1>1. ASSUME NEW l \in DOMAIN m.captures PROVE m.captures[l][1] # "error"
  <2>1. m.captures[l] \in Capture
    OBVIOUS
  <2>2. QED
    BY <2>1 DEF Capture
<1>2. QED
  BY <1>1 DEF Pushes

\* A search that is over once it has found something.
LEMMA FoundOne ==
  ASSUME NEW c, Legal(c), NEW fs, Sound(c, fs)
  PROVE  NoneIn(c, NextFrom(c, fs), 0)
<1>1. NextFrom(c, fs) \in Int /\ 0 < NextFrom(c, fs) /\ 0 \in Int
  BY NextType, CallFacts DEF Legal
<1>2. QED
  BY <1>1, NothingBefore

LEMMA FindPattern_Inv ==
  ASSUME MatcherAgrees, Legal(call), StrInv(call, src, at, found, out), FindPattern
  PROVE  StrInv(call, src', at', found', out')
<1> DEFINE c == call
           E == EndOf(c)
           m == Finds(c, src)
           none == <<>>
<1>1. E \in Nat /\ E >= 1 /\ Len(c.s) + 1 = E /\ Start(c) \in 1..E /\ LastIn(c) \in 1..E
  BY CallFacts DEF Legal, EndOf
<1>2. at = "find" /\ out' = out
  BY DEF FindPattern
<1>3. /\ c.f = "find" /\ found = none /\ src \in 1..E + 1 /\ NextFrom(c, none) = Start(c)
      /\ Start(c) <= src /\ NoneIn(c, Start(c), src - 1) /\ src <= LastIn(c) /\ Sound(c, none)
  BY <1>2 DEF StrInv, Placed
<1>4. src \in 1..E
  BY <1>1, <1>3
<1>5. /\ MatcherAgrees => Matcher(c.s, pattern, src) = m
  BY <1>4, WhatIsMeant DEF pattern
<1>6. \/ m.res = "fail"
      \/ m.res = "ok" /\ m.from = src /\ m.to \in src..E /\ IsMatch(c, m) /\ m.captures \in Seq(Capture)
  BY <1>4, MatchMeant
<1>7. \A s, a, fs : Texts(c, s, a, fs, out)
  BY <1>3 DEF Texts
<1> HIDE DEF m
<1>8. \/ /\ m.res = "ok"
         /\ found' = <<m>> /\ at' = IF Pushes(m) THEN "done" ELSE "error"
         /\ src' = src
      \/ /\ m.res = "fail" /\ src < E /\ ~anchor
         /\ src' = src + 1 /\ at' = at /\ found' = found
      \/ /\ m.res = "fail" /\ (src = E \/ anchor)
         /\ at' = "done" /\ src' = src /\ found' = found
      \/ m.res = "error"
  BY <1>1, <1>5 DEF FindPattern, src_end
<1>9. CASE m.res = "ok"
  <2> DEFINE gs == Append(none, m)
  <2>1. m.from = src /\ IsMatch(c, m) /\ m.captures \in Seq(Capture)
    BY <1>6, <1>9
  <2>2. Pushes(m)
    BY <2>1, MatchPushes
  <2>3. NextFrom(c, none) <= m.from /\ m.from <= LastIn(c) /\ NoneIn(c, NextFrom(c, none), m.from - 1)
    BY <1>3, <2>1
  <2>4. Len(none) = 0 /\ found' = gs /\ gs # <<>> /\ at' = "done" /\ src' = src
    BY <1>8, <1>9, <2>2
  <2> HIDE DEF none
  <2>5. Sound(c, gs) /\ Len(gs) = Len(none) + 1
    BY <1>3, <2>1, <2>3, SoundAppend
  <2> HIDE DEF gs
  <2>6. NoneIn(c, NextFrom(c, gs), 0)
    BY <2>5, FoundOne
  <2>7. TriedIn(c, gs) = 0
    BY <1>3, <2>4 DEF TriedIn
  <2>8. Placed(c, src, "done", gs)
    BY <1>3, <2>4, <2>5, <2>6, <2>7 DEF Placed
  <2>9. QED
    BY <1>2, <1>7, <2>4, <2>5, <2>8 DEF StrInv
<1>10. CASE m.res = "fail"
  <2>1. NoneIn(c, Start(c), src)
    BY <1>1, <1>3, <1>4, <1>10, OneMore DEF m
  <2>2. Len(none) = 0 /\ none = <<>>
    OBVIOUS
  <2> HIDE DEF none
  <2>3. CASE src < E /\ ~anchor /\ src' = src + 1 /\ at' = at /\ found' = found
    <3>1. LastIn(c) = E
      BY <2>3 DEF anchor, LastIn
    <3>2. src + 1 \in 1..E /\ (src + 1) - 1 = src
      BY <1>1, <1>4, <2>3
    <3>3. Placed(c, src + 1, "find", none)
      BY <1>1, <1>3, <2>1, <2>2, <3>1, <3>2 DEF Placed
    <3>4. QED
      BY <1>2, <1>3, <1>7, <2>3, <3>3 DEF StrInv
  <2>4. CASE (src = E \/ anchor) /\ at' = "done" /\ src' = src /\ found' = found
    <3>1. src = LastIn(c)
      BY <1>1, <1>3, <2>4 DEF anchor, LastIn
    <3>2. TriedIn(c, none) = LastIn(c)
      BY <1>3, <2>2 DEF TriedIn
    <3>3. Placed(c, src, "done", none)
      BY <1>3, <2>1, <2>2, <3>1, <3>2 DEF Placed
    <3>4. QED
      BY <1>2, <1>3, <1>7, <2>4, <3>3 DEF StrInv
  <2>5. QED
    BY <1>8, <1>10, <2>3, <2>4
<1>11. QED
  BY <1>6, <1>9, <1>10

LEMMA Gmatch_Inv ==
  ASSUME MatcherAgrees, Legal(call), StrInv(call, src, at, found, out), Gmatch
  PROVE  StrInv(call, src', at', found', out')
<1> DEFINE c == call
           E == EndOf(c)
           m == Finds(c, src)
           next == NextFrom(c, found)
<1>1. E \in Nat /\ E >= 1 /\ Len(c.s) + 1 = E
  BY CallFacts DEF Legal, EndOf
<1>2. at = "gmatch" /\ out' = out /\ src <= E
  BY <1>1 DEF Gmatch, src_end
<1>3. /\ c.f = "gmatch" /\ src \in 1..E + 1 /\ next <= src /\ NoneIn(c, next, src - 1)
      /\ Sound(c, found)
  BY <1>2 DEF StrInv, Placed
<1>4. src \in 1..E /\ LastIn(c) = E /\ next \in Int
  <2>1. next \in 1..E + 1
    BY <1>3, NextType
  <2>2. QED
    BY <1>1, <1>2, <1>3, <2>1 DEF LastIn
<1>5. /\ MatcherAgrees => Matcher(c.s, pattern, src) = m
  BY <1>4, WhatIsMeant DEF pattern
<1>6. \/ m.res = "fail"
      \/ m.res = "ok" /\ m.from = src /\ m.to \in src..E /\ IsMatch(c, m) /\ m.captures \in Seq(Capture)
  BY <1>4, MatchMeant
<1>7. \A s, a, fs : Texts(c, s, a, fs, out)
  BY <1>3 DEF Texts
<1> HIDE DEF m
<1>8. \/ /\ m.res = "ok"
         /\ found' = Append(found, m) /\ src' = IF m.to = src THEN src + 1 ELSE m.to
         /\ at' = IF Pushes(m) THEN at ELSE "error"
      \/ m.res = "fail" /\ src' = src + 1 /\ at' = at /\ found' = found
      \/ m.res = "error"
  BY <1>5 DEF Gmatch
<1>9. CASE m.res = "ok"
  <2> DEFINE gs == Append(found, m)
             s2 == IF m.to = src THEN src + 1 ELSE m.to
  <2>1. m.from = src /\ IsMatch(c, m) /\ m.captures \in Seq(Capture) /\ m.to \in src..E
    BY <1>6, <1>9
  <2>2. Pushes(m)
    BY <2>1, MatchPushes
  <2>3. found' = gs /\ at' = "gmatch" /\ src' = s2
    BY <1>2, <1>8, <1>9, <2>2
  <2>4. NextFrom(c, found) <= m.from /\ m.from <= LastIn(c) /\ NoneIn(c, NextFrom(c, found), m.from - 1)
    BY <1>3, <1>4, <2>1
  <2>5. Sound(c, gs) /\ NextFrom(c, gs) = IF m.to > m.from THEN m.to ELSE m.from + 1
    BY <1>3, <2>1, <2>4, SoundAppend
  <2>6. NextFrom(c, gs) = s2 /\ s2 \in 1..E + 1
    BY <1>1, <1>4, <2>1, <2>5
  <2> HIDE DEF gs, s2
  <2>7. NoneIn(c, s2, s2 - 1)
    BY <2>6, NothingBefore
  <2>8. Placed(c, s2, "gmatch", gs)
    BY <1>3, <2>6, <2>7 DEF Placed
  <2>9. QED
    BY <1>2, <1>7, <2>3, <2>5, <2>8 DEF StrInv
<1>10. CASE m.res = "fail"
  <2>1. NoneIn(c, next, src)
    BY <1>3, <1>4, <1>10, OneMore DEF m
  <2>2. src' = src + 1 /\ at' = at /\ found' = found
    BY <1>8, <1>10
  <2>3. src + 1 \in 1..E + 1 /\ (src + 1) - 1 = src /\ next <= src + 1
    BY <1>1, <1>3, <1>4
  <2>4. Placed(c, src + 1, "gmatch", found)
    BY <1>3, <2>1, <2>3 DEF Placed
  <2>5. QED
    BY <1>2, <1>3, <1>7, <2>2, <2>4 DEF StrInv
<1>11. QED
  BY <1>6, <1>9, <1>10

LEMMA GmatchEnd_Inv ==
  ASSUME Legal(call), StrInv(call, src, at, found, out), GmatchEnd
  PROVE  StrInv(call, src', at', found', out')
<1> DEFINE c == call
           E == EndOf(c)
           next == NextFrom(c, found)
<1>1. E \in Nat /\ E >= 1 /\ Len(c.s) + 1 = E
  BY CallFacts DEF Legal, EndOf
<1>2. at = "gmatch" /\ at' = "done" /\ src > E /\ src' = src /\ found' = found /\ out' = out
  BY <1>1 DEF GmatchEnd, src_end
<1>3. /\ c.f = "gmatch" /\ src \in 1..E + 1 /\ NoneIn(c, next, src - 1) /\ Sound(c, found)
  BY <1>2 DEF StrInv, Placed
<1>4. src - 1 = E /\ TriedIn(c, found) = E
  BY <1>1, <1>2, <1>3 DEF TriedIn, LastIn
<1>5. Placed(c, src, "done", found)
  BY <1>3, <1>4 DEF Placed
<1>6. Texts(c, src, "done", found, out)
  BY <1>3 DEF Texts
<1>7. QED
  BY <1>2, <1>3, <1>5, <1>6 DEF StrInv

\* A match is replaced by what is read from its captures and places only.
LEMMA AddedSame ==
  ASSUME NEW m, NEW m2, m2.from = m.from, m2.to = m.to, m2.captures = m.captures, NEW repl
  PROVE  add_s(m2, repl) = add_s(m, repl)
<1>1. \A x : Captured(m2, x) = Captured(m, x)
  BY DEF Captured
<1> DEFINE piece(k, x) == IF x \in 0..9 THEN Captured(k, x) ELSE {<< <<"new", x>> >>}
           some(k, x) == CHOOSE y \in piece(k, x) : TRUE
           pieces(k) == [i \in DOMAIN repl |-> some(k, repl[i])]
           all(k) == FlattenSeq(pieces(k))
           none(k) == \E i \in DOMAIN repl : piece(k, repl[i]) = {}
<1>2. \A k : add_s(k, repl) = IF none(k) THEN {} ELSE {all(k)}
  BY DEF add_s
<1>3. \A x : piece(m2, x) = piece(m, x)
  BY <1>1
<1> HIDE DEF piece
<1>4. none(m2) <=> none(m)
  BY <1>3
<1>5. all(m2) = all(m)
  <2>1. ASSUME NEW x PROVE some(m2, x) = some(m, x)
    <3> DEFINE a == piece(m2, x)
               b == piece(m, x)
    <3>1. a = b
      BY <1>3
    <3> HIDE DEF a, b
    <3>2. (CHOOSE y \in a : TRUE) = (CHOOSE y \in b : TRUE)
      BY <3>1
    <3>3. QED
      BY <3>2 DEF a, b
  <2> HIDE DEF some
  <2>2. pieces(m2) = pieces(m)
    BY <2>1
  <2> HIDE DEF pieces
  <2>3. QED
    BY <2>2
<1> HIDE DEF all, none
<1>6. QED
  BY <1>2, <1>4, <1>5

\* What add_value gives: an error only where one may be, else what gsub puts.
LEMMA ValueType ==
  ASSUME Legal(call), NEW m, IsMatch(call, m), m.captures \in Seq(Capture),
         NEW v \in add_value(m), call.f = "gsub"
  PROVE  /\ v = {} => RaisesIn(call)
         /\ \A put \in v : put \in Piece /\ (call.kind = "string" => {put} = add_s(m, call.repl))
<1>1. call.repl \in Seq(Nat)
  BY CallFacts DEF Legal, TypeOfCall
<1>2. CASE call.kind = "string"
  <2>1. v = add_s(m, call.repl)
    BY <1>2 DEF add_value
  <2>2. /\ v \in SUBSET Piece
        /\ v = {} => \E i \in DOMAIN call.repl : call.repl[i] \in 2..9
        /\ \A u \in v : v = {u}
    BY <1>1, <2>1, AddedType
  <2>3. QED
    BY <2>1, <2>2 DEF RaisesIn
<1>3. CASE call.kind # "string"
  <2>1. RaisesIn(call)
    BY <1>3 DEF RaisesIn
  <2>2. v \in {{}, {Part(m.from, m.to)}, {<< <<"new", 0>> >>}}
    BY <1>3 DEF add_value
  <2>3. m.from \in Int /\ m.to \in Int
    BY CallFacts DEF Legal, IsMatch, Finding
  <2>4. Part(m.from, m.to) \in Piece
    BY <2>3, PartType
  <2>5. << <<"new", 0>> >> \in Piece
    BY DEF Piece, Element
  <2>6. QED
    BY <1>3, <2>1, <2>2, <2>4, <2>5
<1>4. QED
  BY <1>2, <1>3

\* A round of gsub: where it ends, and what it passes.
LEMMA Advances ==
  ASSUME NEW e \in Nat, e <= src_end, Advance(e), src \in 1..src_end, src_end \in Nat
  PROVE  /\ src' \in src..src_end /\ at' \in {at, "rest"}
         /\ e > src => src' = e /\ Passed(e) = <<>>
         /\ ~(e > src) => Passed(e) = Part(src, src')
         /\ at' = "rest" /\ at # "rest" => anchor \/ (src = src_end /\ ~(e > src))
         /\ ~anchor /\ at' # "rest" /\ ~(e > src) => src' = src + 1
         /\ anchor => at' = "rest"
         /\ ~(e > src) /\ src = src_end => src' = src /\ at' = "rest"
         /\ ~(e > src) /\ src < src_end => src' = src + 1
<1> DEFINE E == src_end
<1> HIDE DEF E
<1>1. E \in Nat /\ src \in 1..E /\ e <= E
  BY DEF E
<1>2. \/ e > src /\ src' = e /\ at' = (IF anchor THEN "rest" ELSE at)
      \/ ~(e > src) /\ src < E /\ src' = src + 1 /\ at' = (IF anchor THEN "rest" ELSE at)
      \/ ~(e > src) /\ src = E /\ at' = "rest" /\ src' = src
  BY <1>1 DEF Advance, E
<1>3. Passed(e) = IF e > src THEN <<>> ELSE Part(src, IF src < E THEN src + 1 ELSE src)
  BY DEF Passed, E
<1>4. QED
  BY <1>1, <1>2, <1>3 DEF E

\* The state of a call of gsub.
GsubState(c, sr, fs, o) ==
  /\ c.f = "gsub" /\ Sound(c, fs) /\ sr \in 1..EndOf(c)
  /\ fs = <<>> \/ Len(fs) <= c.max_s
  /\ AllPut(c, fs)
  /\ EndOfLast(fs) <= sr /\ o = Made(c, fs) \o Part(EndOfLast(fs), sr)

LEMMA GsubHas ==
  ASSUME Legal(call), StrInv(call, src, at, found, out), at \in {"gsub", "rest"}
  PROVE  /\ GsubState(call, src, found, out)
         /\ at = "gsub" => /\ NextFrom(call, found) <= src /\ src <= LastIn(call)
                           /\ NoneIn(call, NextFrom(call, found), src - 1)
         /\ at = "rest" => NoneIn(call, NextFrom(call, found), LastIn(call))
<1>1. EndOf(call) \in Nat
  BY CallFacts DEF Legal
<1>2. /\ call.f = "gsub" /\ Sound(call, found) /\ src \in 1..EndOf(call)
      /\ found = <<>> \/ Len(found) <= call.max_s
  BY <1>1 DEF StrInv, Placed
<1>3. /\ AllPut(call, found)
      /\ EndOfLast(found) <= src /\ out = Made(call, found) \o Part(EndOfLast(found), src)
  BY <1>2 DEF StrInv, Texts
<1>4. QED
  BY <1>2, <1>3 DEF StrInv, Placed, GsubState

LEMMA GsubGoesOn ==
  ASSUME NEW c, Legal(c), NEW sr, NEW fs, NEW o, GsubState(c, sr, fs, o), NEW a,
         \/ /\ a = "gsub" /\ NextFrom(c, fs) <= sr /\ sr <= LastIn(c)
            /\ NoneIn(c, NextFrom(c, fs), sr - 1)
         \/ a = "rest" /\ NoneIn(c, NextFrom(c, fs), LastIn(c))
  PROVE  StrInv(c, sr, a, fs, o)
<1>1. EndOf(c) \in Nat /\ sr \in 1..EndOf(c) /\ c.f = "gsub" /\ sr \in 1..EndOf(c) + 1 /\ sr <= EndOf(c)
  BY CallFacts DEF Legal, GsubState
<1>2. Placed(c, sr, a, fs)
  BY <1>1 DEF Placed, GsubState
<1>3. Texts(c, sr, a, fs, o)
  BY DEF Texts, GsubState
<1>4. QED
  BY <1>2, <1>3 DEF StrInv, GsubState

\* More of the subject is passed.
LEMMA MadeJoin ==
  ASSUME NEW c, Legal(c), NEW sr, NEW fs, NEW o, GsubState(c, sr, fs, o), NEW y \in Int, sr <= y
  PROVE  o \o Part(sr, y) = Made(c, fs) \o Part(EndOfLast(fs), y)
<1> DEFINE made == Made(c, fs)
           e == EndOfLast(fs)
           u == Part(e, sr)
           v == Part(sr, y)
<1>1. sr \in Int /\ e \in Int /\ made \in Piece /\ e <= sr /\ o = made \o u
  <2>1. e \in 1..EndOf(c) /\ made \in Piece
    BY ReplacedType DEF GsubState
  <2>2. QED
    BY <2>1 DEF GsubState
<1>2. u \in Piece /\ v \in Piece
  BY <1>1, PartType
<1> HIDE DEF made, e
<1>3. u \o v = Part(e, y)
  BY <1>1, PartJoin
<1> HIDE DEF u, v
<1>4. (made \o u) \o v = made \o (u \o v)
  <2>1. Associates(Nat)
    BY ConcatAssociates
  <2>2. QED
    BY <1>1, <1>2, <2>1 DEF Associates, Piece
<1>5. QED
  BY <1>1, <1>3, <1>4 DEF v, made, e

LEMMA OutJoin ==
  ASSUME Legal(call), GsubState(call, src, found, out), NEW y \in Int, src <= y
  PROVE  out \o Part(src, y) = Made(call, found) \o Part(EndOfLast(found), y)
BY MadeJoin

LEMMA GsubEnd_Inv ==
  ASSUME Legal(call), StrInv(call, src, at, found, out), GsubEnd
  PROVE  StrInv(call, src', at', found', out')
<1> DEFINE c == call
           E == EndOf(c)
<1>1. E \in Nat /\ TypeOfCall(c) /\ E = src_end
  BY CallFacts DEF Legal, EndOf, src_end
<1>2. /\ at = "rest" \/ (at = "gsub" /\ Len(found) >= c.max_s)
      /\ out' = out \o Part(src, E) /\ at' = "done" /\ src' = src /\ found' = found
  BY <1>1 DEF GsubEnd
<1>3. /\ GsubState(c, src, found, out)
      /\ at = "rest" => NoneIn(c, NextFrom(c, found), LastIn(c))
  BY <1>2, GsubHas
<1>4. c.f = "gsub" /\ src \in 1..E /\ src <= E /\ Sound(c, found) /\ src \in Int
  BY <1>3 DEF GsubState
<1>5. out' = Made(c, found) \o Part(EndOfLast(found), E)
  <2>1. Legal(c) /\ GsubState(c, src, found, out) /\ E \in Int /\ src <= E
    BY <1>1, <1>3, <1>4
  <2> HIDE DEF E
  <2>2. out \o Part(src, E) = Made(c, found) \o Part(EndOfLast(found), E)
    BY <2>1, OutJoin
  <2>3. QED
    BY <1>2, <2>2
<1>6. NoneIn(c, NextFrom(c, found), TriedIn(c, found))
  <2>1. CASE at = "rest"
    <3>1. NoneIn(c, NextFrom(c, found), 0)
      BY <1>4, FoundOne
    <3>2. TriedIn(c, found) \in {0, LastIn(c)}
      BY DEF TriedIn
    <3>3. QED
      BY <1>3, <2>1, <3>1, <3>2
  <2>2. CASE Len(found) >= c.max_s
    <3>1. c.max_s \in Int /\ Len(found) \in Nat
      BY <1>1, <1>4 DEF TypeOfCall, Sound
    <3>2. TriedIn(c, found) = 0
      BY <1>4, <2>2, <3>1 DEF TriedIn
    <3>3. QED
      BY <1>4, <3>2, FoundOne
  <2>3. QED
    BY <1>2, <2>1, <2>2
<1>7. Placed(c, src, "done", found)
  <2>1. src \in 1..E + 1
    BY <1>1, <1>4
  <2>2. QED
    BY <1>3, <1>4, <1>6, <2>1 DEF Placed, GsubState
<1>8. Texts(c, src, "done", found, out')
  BY <1>3, <1>5 DEF Texts, GsubState
<1>9. QED
  BY <1>2, <1>4, <1>7, <1>8 DEF StrInv

\* A round without a match.
LEMMA GsubFails ==
  ASSUME Legal(call), StrInv(call, src, at, found, out), at = "gsub",
         Finds(call, src).res = "fail", out' = out \o Passed(0), Advance(0), found' = found
  PROVE  StrInv(call, src', at', found', out')
<1> DEFINE c == call
           E == src_end
           next == NextFrom(c, found)
<1>1. E \in Nat /\ E = EndOf(c) /\ LastIn(c) \in 1..E /\ (c.f # "find" => Start(c) = 1)
  BY CallFacts DEF Legal, EndOf, src_end
<1>2. /\ GsubState(c, src, found, out) /\ next <= src /\ src <= LastIn(c) /\ NoneIn(c, next, src - 1)
  BY GsubHas
<1>3. c.f = "gsub" /\ src \in 1..E /\ Sound(c, found) /\ next \in Int
  <2>1. c.f = "gsub" /\ src \in 1..EndOf(c) /\ Sound(c, found)
    BY <1>2 DEF GsubState
  <2>2. next \in 1..EndOf(c) + 1
    BY <2>1, NextType
  <2>3. QED
    BY <1>1, <2>1, <2>2
<1>4. E \in Nat /\ E = EndOf(c) /\ LastIn(c) \in 1..E /\ Start(c) = 1
  BY <1>1, <1>3
<1>5. NoneIn(c, next, src)
  BY <1>2, <1>3, <1>4, OneMore
<1>6. /\ src' \in src..E /\ at' \in {at, "rest"} /\ Passed(0) = Part(src, src')
      /\ at' = "rest" => anchor \/ src = E
      /\ at' = "gsub" => ~anchor /\ src' = src + 1
  <2>1. 0 \in Nat /\ 0 <= E /\ ~(0 > src)
    BY <1>3, <1>4
  <2> HIDE DEF E
  <2>2. QED
    BY <1>3, <1>4, <2>1, Advances DEF E
<1> DEFINE o == out \o Part(src, src')
           s2 == src'
<1>7. s2 \in Int /\ src <= s2 /\ s2 \in 1..EndOf(c)
  BY <1>3, <1>4, <1>6
<1>8. o = Made(c, found) \o Part(EndOfLast(found), s2)
  <2> HIDE DEF s2
  <2>1. out \o Part(src, s2) = Made(c, found) \o Part(EndOfLast(found), s2)
    <3>1. Legal(c) /\ GsubState(c, src, found, out) /\ s2 \in Int /\ src <= s2
      BY <1>2, <1>7
    <3>2. QED
      BY <3>1, OutJoin
  <2>2. QED
    BY <2>1 DEF s2
<1> HIDE DEF o
<1>9. out' = o
  BY <1>6 DEF o
<1>10. EndOfLast(found) <= s2
  <2>1. EndOfLast(found) \in 1..EndOf(c) /\ EndOfLast(found) <= src
    BY <1>2, <1>3, ReplacedType DEF GsubState
  <2>2. QED
    BY <1>3, <1>4, <1>7, <2>1
<1> HIDE DEF s2
<1>11. GsubState(c, s2, found, o)
  BY <1>2, <1>3, <1>7, <1>8, <1>10 DEF GsubState
<1>12. CASE at' = "rest"
  <2>1. LastIn(c) <= src
    <3>1. anchor \/ src = E
      BY <1>6, <1>12
    <3>2. QED
      BY <1>3, <1>4, <3>1 DEF anchor, LastIn
  <2>2. NoneIn(c, next, LastIn(c))
    <3>1. \A z \in next..LastIn(c) : z \in next..src
      BY <1>3, <1>4, <2>1
    <3>2. QED
      BY <1>5, <3>1 DEF NoneIn
  <2>3. StrInv(c, s2, "rest", found, o)
    BY <1>11, <2>2, GsubGoesOn
  <2>4. QED
    BY <1>9, <1>12, <2>3 DEF s2
<1>13. CASE ~anchor /\ at' = "gsub" /\ src' = src + 1
  <2>1. LastIn(c) = E
    BY <1>4, <1>13 DEF anchor, LastIn
  <2>2. s2 = src + 1 /\ s2 - 1 = src /\ next <= s2 /\ s2 <= LastIn(c)
    BY <1>2, <1>3, <1>4, <1>7, <1>13, <2>1 DEF s2
  <2>3. StrInv(c, s2, "gsub", found, o)
    BY <1>5, <1>11, <2>2, GsubGoesOn
  <2>4. QED
    BY <1>9, <1>13, <2>3 DEF s2
<1>14. QED
  BY <1>6, <1>12, <1>13

\* A round with a match, for which put is put.
LEMMA GsubPuts ==
  ASSUME Legal(call), StrInv(call, src, at, found, out), at = "gsub", Len(found) < call.max_s,
         NEW m, m = Finds(call, src), m.res # "fail",
         NEW v \in add_value(m), NEW put \in v,
         found' = Append(found, [m EXCEPT !.res = put]),
         out' = (out \o put) \o Passed(m.to), Advance(m.to)
  PROVE  StrInv(call, src', at', found', out')
<1> DEFINE c == call
           E == src_end
           e == m.to
           m2 == [m EXCEPT !.res = put]
           gs == Append(found, m2)
           s2 == src'
           o2 == (out \o put) \o Passed(e)
<1>1. E \in Nat /\ E = EndOf(c) /\ LastIn(c) \in 1..E /\ (c.f # "find" => Start(c) = 1) /\ TypeOfCall(c)
  BY CallFacts DEF Legal, EndOf, src_end
<1>2. /\ GsubState(c, src, found, out) /\ NextFrom(c, found) <= src /\ src <= LastIn(c)
      /\ NoneIn(c, NextFrom(c, found), src - 1)
  BY GsubHas
<1>3. /\ c.f = "gsub" /\ src \in 1..E /\ Sound(c, found) /\ AllPut(c, found)
      /\ EndOfLast(found) <= src /\ out = Made(c, found) \o Part(EndOfLast(found), src)
  BY <1>1, <1>2 DEF GsubState
<1>4. /\ m.res = "ok" /\ m.from = src /\ e \in src..E /\ IsMatch(c, m) /\ m.captures \in Seq(Capture)
  BY <1>1, <1>3, MatchMeant
<1>5. put \in Piece /\ (c.kind = "string" => {put} = add_s(m, c.repl))
  BY <1>3, <1>4, ValueType
<1>6. /\ m2.res = put /\ m2.from = src /\ m2.to = e /\ m2.captures = m.captures
      /\ m2 \in Finding(c)
  <2>1. m \in Finding(c)
    BY <1>4 DEF IsMatch
  <2>2. m2 \in Finding(c) /\ m2.res = put /\ m2.from = m.from /\ m2.to = m.to /\ m2.captures = m.captures
    BY <1>5, <2>1 DEF Finding
  <2>3. QED
    BY <1>4, <2>2
<1> HIDE DEF m2
<1>7. IsMatch(c, m2) /\ Puts(c, m2)
  <2>1. add_s(m2, c.repl) = add_s(m, c.repl)
    BY <1>4, <1>6, AddedSame
  <2>2. QED
    BY <1>4, <1>5, <1>6, <2>1 DEF IsMatch, Puts
<1>8. NextFrom(c, found) <= m2.from /\ m2.from <= LastIn(c) /\ NoneIn(c, NextFrom(c, found), m2.from - 1)
  BY <1>2, <1>6
<1>9. /\ Sound(c, gs) /\ Len(gs) = Len(found) + 1
      /\ NextFrom(c, gs) = IF e > src THEN e ELSE src + 1
  BY <1>3, <1>6, <1>7, <1>8, SoundAppend
<1>10. /\ AllPut(c, gs)
       /\ EndOfLast(gs) = e
       /\ Made(c, gs) = out \o put
  <2>1. /\ AllPut(c, gs)
        /\ EndOfLast(gs) = m2.to
        /\ Made(c, gs) = MadeWith(c, found, m2)
    BY <1>3, <1>7, MadeAppend
  <2>2. QED
    BY <1>3, <1>6, <1>9, <2>1 DEF MadeWith
<1>11. /\ s2 \in src..E /\ at' \in {"gsub", "rest"}
       /\ e > src => s2 = e /\ Passed(e) = <<>>
       /\ ~(e > src) => Passed(e) = Part(src, s2)
       /\ at' = "rest" => anchor \/ (src = E /\ ~(e > src))
       /\ at' = "gsub" => ~anchor /\ (~(e > src) => s2 = src + 1)
  <2>1. e \in Nat /\ e <= E
    BY <1>1, <1>3, <1>4
  <2> HIDE DEF E, e
  <2>2. Advance(e)
    BY DEF e
  <2>3. QED
    BY <1>1, <1>3, <2>1, <2>2, Advances DEF E
<1>12. EndOfLast(gs) <= s2 /\ o2 = Made(c, gs) \o Part(EndOfLast(gs), s2)
  <2>1. CASE e > src
    <3>1. s2 = e /\ Passed(e) = <<>>
      BY <1>11, <2>1
    <3>2. e \in Int /\ e <= e
      BY <1>1, <1>4
    <3>3. Part(e, e) = <<>>
      BY <3>2, PartNone
    <3>5. QED
      BY <1>10, <3>1, <3>2, <3>3
  <2>2. CASE ~(e > src)
    <3>1. e = src /\ src <= s2
      BY <1>1, <1>3, <1>4, <1>11, <2>2
    <3>2. QED
      BY <1>10, <1>11, <2>2, <3>1
  <2>3. QED
    BY <2>1, <2>2
<1>13. found' = gs /\ out' = o2
  BY DEF m2
<1>14. gs = <<>> \/ Len(gs) <= c.max_s
  <2>1. Len(found) \in Nat /\ c.max_s \in Int
    BY <1>1, <1>3 DEF TypeOfCall, Sound
  <2>2. QED
    BY <1>9, <2>1
<1>15. s2 \in 1..EndOf(c) /\ s2 \in Int
  BY <1>1, <1>3, <1>11
<1> HIDE DEF gs, o2, s2
<1>16. GsubState(c, s2, gs, o2)
  BY <1>3, <1>9, <1>10, <1>12, <1>14, <1>15 DEF GsubState
<1>17. CASE at' = "rest"
  <2>1. LastIn(c) < NextFrom(c, gs)
    <3>1. CASE anchor
      <4>1. LastIn(c) = 1
        BY <1>1, <1>3, <3>1 DEF anchor, LastIn
      <4>2. QED
        BY <1>1, <1>3, <1>4, <1>9, <4>1
    <3>2. CASE src = E /\ ~(e > src)
      BY <1>1, <1>3, <1>4, <1>9, <3>2
    <3>3. QED
      BY <1>11, <1>17, <3>1, <3>2
  <2>2. NextFrom(c, gs) \in Int /\ LastIn(c) \in Int
    BY <1>1, <1>3, <1>4, <1>9
  <2>3. NoneIn(c, NextFrom(c, gs), LastIn(c))
    BY <2>1, <2>2, NothingBefore
  <2>4. StrInv(c, s2, "rest", gs, o2)
    BY <1>16, <2>3, GsubGoesOn
  <2>5. QED
    BY <1>13, <1>17, <2>4 DEF s2
<1>18. CASE at' = "gsub"
  <2>1. LastIn(c) = E
    BY <1>1, <1>11, <1>18 DEF anchor, LastIn
  <2>2. s2 = NextFrom(c, gs)
    BY <1>1, <1>3, <1>4, <1>9, <1>11, <1>18
  <2>3. NextFrom(c, gs) <= s2 /\ s2 <= LastIn(c) /\ NextFrom(c, gs) \in Int /\ s2 - 1 < NextFrom(c, gs)
        /\ s2 - 1 \in Int
    BY <1>1, <1>15, <2>1, <2>2
  <2>4. NoneIn(c, NextFrom(c, gs), s2 - 1)
    BY <2>3, NothingBefore
  <2>5. StrInv(c, s2, "gsub", gs, o2)
    BY <1>16, <2>3, <2>4, GsubGoesOn
  <2>6. QED
    BY <1>13, <1>18, <2>5 DEF s2
<1>19. QED
  BY <1>11, <1>17, <1>18

LEMMA Gsub_Inv ==
  ASSUME MatcherAgrees, Legal(call), StrInv(call, src, at, found, out), Gsub
  PROVE  StrInv(call, src', at', found', out')
<1> DEFINE c == call
           m == Finds(c, src)
<1>1. at = "gsub" /\ Len(found) < c.max_s
  BY DEF Gsub
<1>2. src \in 1..EndOf(c) /\ c.f = "gsub" /\ Sound(c, found)
  <2>1. GsubState(c, src, found, out)
    BY <1>1, GsubHas
  <2>2. QED
    BY <2>1 DEF GsubState
<1>3. Matcher(c.s, pattern, src) = m
  BY <1>2, WhatIsMeant DEF pattern
<1>4. \/ m.res = "fail"
      \/ m.res = "ok" /\ IsMatch(c, m) /\ m.captures \in Seq(Capture)
  BY <1>2, MatchMeant
<1>5. \/ /\ m.res = "ok"
         /\ \E v \in add_value(m) :
              \/ v = {} /\ at' = "error" /\ src' = src /\ found' = found /\ out' = out
              \/ \E put \in v :
                   /\ found' = Append(found, [m EXCEPT !.res = put])
                   /\ out' = (out \o put) \o Passed(m.to)
                   /\ Advance(m.to)
      \/ m.res = "fail" /\ out' = out \o Passed(0) /\ Advance(0) /\ found' = found
      \/ m.res = "error"
  <2> HIDE DEF m
  <2>1. QED
    BY <1>3 DEF Gsub
<1> HIDE DEF m
<1>6. CASE m.res = "ok"
  <2>1. PICK v \in add_value(m) :
          \/ v = {} /\ at' = "error" /\ src' = src /\ found' = found /\ out' = out
          \/ \E put \in v :
               /\ found' = Append(found, [m EXCEPT !.res = put])
               /\ out' = (out \o put) \o Passed(m.to)
               /\ Advance(m.to)
    BY <1>5, <1>6
  <2>2. CASE v = {} /\ at' = "error" /\ src' = src /\ found' = found /\ out' = out
    <3>1. RaisesIn(c)
      BY <1>2, <1>4, <1>6, <2>2, ValueType
    <3>2. Placed(c, src, "error", found)
      BY <1>1, <1>2, <3>1 DEF StrInv, Placed
    <3>3. Texts(c, src, "error", found, out)
      BY <1>2 DEF StrInv, Texts
    <3>4. QED
      BY <1>2, <2>2, <3>2, <3>3 DEF StrInv
  <2>3. ASSUME NEW put \in v, found' = Append(found, [m EXCEPT !.res = put]),
               out' = (out \o put) \o Passed(m.to), Advance(m.to)
        PROVE  StrInv(call, src', at', found', out')
    <3>1. m = Finds(call, src)
      BY DEF m
    <3>2. QED
      BY <1>1, <1>6, <2>3, <3>1, GsubPuts
  <2>4. QED
    BY <2>1, <2>2, <2>3
<1>7. CASE m.res = "fail"
  <2>1. Finds(call, src).res = "fail"
    BY <1>7 DEF m
  <2>2. QED
    BY <1>1, <1>5, <1>7, <2>1, GsubFails
<1>8. QED
  BY <1>4, <1>6, <1>7

StringInv == call \in Calls /\ (IsPattern(call.p) => StrInv(call, src, at, found, out))

THEOREM StringInvariance ==
  ASSUME MatcherAgrees
  PROVE  StrlibSpec => []StringInv
<1>1. StrlibInit => StringInv
  <2> SUFFICES ASSUME StrlibInit PROVE StringInv
    OBVIOUS
  <2>1. CASE IsPattern(call.p)
    <3>1. Legal(call)
      BY <2>1 DEF StrlibInit, Legal
    <3>2. StrInv(call, Start(call), IF call.f = "find" /\ ~call.caret /\ Plain(call.p) THEN "plain" ELSE call.f,
                 <<>>, <<>>)
      BY <3>1, Starts
    <3>3. StrInv(call, src, at, found, out)
      BY <3>2 DEF StrlibInit, StrlibStarts, Start
    <3>4. QED
      BY <3>3 DEF StrlibInit, StringInv
  <2>2. QED
    BY <2>1 DEF StrlibInit, StringInv
<1>2. StringInv /\ [StrlibNext]_stringvars => StringInv'
  <2> SUFFICES ASSUME StringInv, [StrlibNext]_stringvars PROVE StringInv'
    OBVIOUS
  <2>1. call' = call
    BY DEF StrlibNext, stringvars, FindPlain, FindPattern, Gmatch, GmatchEnd, Gsub, GsubEnd
  <2>2. SUFFICES ASSUME IsPattern(call.p) PROVE StrInv(call, src', at', found', out')
    BY <2>1 DEF StringInv
  <2>3. Legal(call) /\ StrInv(call, src, at, found, out)
    BY <2>2 DEF StringInv, Legal
  <2>4. CASE FindPlain
    BY <2>3, <2>4, FindPlain_Inv
  <2>5. CASE FindPattern
    BY <2>3, <2>5, FindPattern_Inv
  <2>6. CASE Gmatch
    BY <2>3, <2>6, Gmatch_Inv
  <2>7. CASE GmatchEnd
    BY <2>3, <2>7, GmatchEnd_Inv
  <2>8. CASE Gsub
    BY <2>3, <2>8, Gsub_Inv
  <2>9. CASE GsubEnd
    BY <2>3, <2>9, GsubEnd_Inv
  <2>10. CASE UNCHANGED stringvars
    BY <2>3, <2>10 DEF stringvars
  <2>11. QED
    BY <2>4, <2>5, <2>6, <2>7, <2>8, <2>9, <2>10 DEF StrlibNext
<1>3. QED
  BY <1>1, <1>2, PTL DEF StrlibSpec

THEOREM AlwaysAsManual ==
  ASSUME MatcherAgrees
  PROVE  StrlibSpec => []MatchesAsManual
<1>1. StringInv => MatchesAsManual
  <2> SUFFICES ASSUME StringInv, IsPattern(call.p)
               PROVE  MatchesMeant /\ (at = "done" => TextMeant) /\ (at = "error" => MayRaise)
    BY DEF MatchesAsManual
  <2> DEFINE c == call
  <2>1. Legal(c) /\ Sound(c, found) /\ Placed(c, src, at, found) /\ Texts(c, src, at, found, out)
    BY DEF StringInv, Legal, StrInv
  <2>2. EndOf(c) = src_end /\ \A i : From(i) = FromIn(c, found, i)
    BY DEF EndOf, src_end, From, FromIn, Start
  <2>3. LastPlace = LastIn(c) /\ \A x : Meant(x) = Finds(c, x)
    BY <2>2 DEF LastPlace, LastIn, anchor, From, Start, Meant, Finds, pattern
  <2>4. MatchesMeant
    <3>1. ASSUME NEW i \in 1..Len(found)
          PROVE  /\ LET m == Meant(found[i].from) IN
                    m.res = "ok" /\ m.to = found[i].to /\ m.captures = found[i].captures
                 /\ From(i - 1) <= found[i].from /\ found[i].from <= LastPlace
                 /\ \A s \in From(i - 1)..found[i].from - 1 : Meant(s).res = "fail"
      <4>1. /\ IsMatch(c, found[i])
            /\ FromIn(c, found, i - 1) <= found[i].from /\ found[i].from <= LastIn(c)
            /\ NoneIn(c, FromIn(c, found, i - 1), found[i].from - 1)
        BY <2>1 DEF Sound
      <4>2. QED
        BY <2>2, <2>3, <4>1 DEF IsMatch, NoneIn
    <3>2. NoneIn(c, NextFrom(c, found), Tried)
      <4>1. CASE at = "done"
        <5>1. Tried = TriedIn(c, found)
          BY <2>3, <4>1 DEF Tried, TriedIn
        <5>2. QED
          BY <2>1, <4>1, <5>1 DEF Placed
      <4>2. CASE at # "done"
        <5>1. Tried = 0
          BY <4>2 DEF Tried
        <5>2. QED
          BY <2>1, <5>1, FoundOne
      <4>3. QED
        BY <4>1, <4>2
    <3>3. \A s \in From(Len(found))..Tried : Meant(s).res = "fail"
      BY <2>2, <2>3, <3>2 DEF NoneIn, NextFrom
    <3>4. QED
      BY <2>1, <3>1, <3>3 DEF MatchesMeant, Placed
  <2>5. ASSUME at = "done" PROVE TextMeant
    <3>1. SUFFICES ASSUME c.f = "gsub"
                   PROVE  /\ out = FlattenSeq(Replaced) \o Between(Len(found) + 1)
                          /\ c.kind = "string" =>
                               \A i \in 1..Len(found) : {found[i].res} = add_s(found[i], c.repl)
      BY DEF TextMeant
    <3>2. /\ AllPut(c, found)
          /\ out = Made(c, found) \o Part(EndOfLast(found), EndOf(c))
      BY <2>1, <2>5, <3>1 DEF Texts
    <3>3. ReplacedIn(c, found) = Replaced
      BY <2>2 DEF ReplacedIn, Replaced, BetweenIn, Between
    <3>4. Between(Len(found) + 1) = Part(EndOfLast(found), EndOf(c))
      <4>1. Len(found) \in Nat
        BY <2>1 DEF Sound
      <4>2. (Len(found) + 1) - 1 = Len(found) /\ Len(found) + 1 > Len(found)
            /\ (Len(found) + 1 = 1 <=> Len(found) = 0)
        BY <4>1
      <4>3. QED
        BY <2>2, <4>2 DEF Between, EndOfLast
    <3>5. QED
      BY <3>2, <3>3, <3>4 DEF Made, AllPut, Puts
  <2>6. at = "error" => MayRaise
    BY <2>1 DEF Placed, RaisesIn, MayRaise
  <2>7. QED
    BY <2>4, <2>5, <2>6
<1>2. QED
  BY <1>1, StringInvariance, PTL

-----------------------------------------------------------------------------
(* require (LuaLoader), for any number of modules and of searchers, however *)
(* modules require each other and fail.                                    *)
(*                                                                         *)
(* A module whose code runs has its entry in package.loaded, so that no    *)
(* other call of require gets to its searchers (Running); the call that is *)
(* at its searchers is the last one, so that nothing gets between its test *)
(* of the entry and the sentinel.                                          *)

Entry    == {"nil", "false", "sentinel", "true", "value"}
CallType == [name : Name, loader : 0..Loaders + 1]

LEMMA Types ==
  ASSUME LoaderTypeOK
  PROVE  /\ calls \in Seq(CallType) /\ Len(calls) \in Nat
         /\ \A i \in 1..Len(calls) :
              calls[i] \in CallType /\ calls[i].name \in Name /\ calls[i].loader \in 0..Loaders + 1
         /\ calls # <<>> => Len(calls) \in 1..Len(calls) /\ top.name \in Name
<1>1. calls \in Seq(CallType)
  BY DEF LoaderTypeOK, CallType
<1>2. \A i \in 1..Len(calls) : calls[i] \in CallType
  BY <1>1
<1>3. Len(calls) \in Nat /\ (calls # <<>> => Len(calls) \in 1..Len(calls))
  BY <1>1
<1>4. QED
  BY <1>1, <1>2, <1>3 DEF CallType, top

LEMMA Prefix ==
  ASSUME NEW S, NEW s \in Seq(S), NEW k \in 0..Len(s)
  PROVE  /\ SubSeq(s, 1, k) \in Seq(S) /\ Len(SubSeq(s, 1, k)) = k
         /\ \A i \in 1..k : SubSeq(s, 1, k)[i] = s[i]
<1>1. Len(s) \in Nat /\ \A i \in 1..Len(s) : s[i] \in S
  OBVIOUS
<1>2. SubSeq(s, 1, k) = [i \in 1..k |-> s[i]]
  BY <1>1
<1>3. [i \in 1..k |-> s[i]] \in Seq(S) /\ Len([i \in 1..k |-> s[i]]) = k
  BY <1>1
<1>4. QED
  BY <1>2, <1>3

LEMMA Pushed ==
  ASSUME NEW S, NEW s \in Seq(S), NEW x \in S
  PROVE  /\ Append(s, x) \in Seq(S) /\ Len(Append(s, x)) = Len(s) + 1
         /\ Append(s, x)[Len(s) + 1] = x
         /\ \A i \in 1..Len(s) : Append(s, x)[i] = s[i]
OBVIOUS

\* The first k of the calls are left.
Left(k) ==
  /\ calls' \in Seq(CallType) /\ Len(calls') = k
  /\ \A i \in 1..k : calls'[i] = calls[i]

LEMMA Thrown ==
  ASSUME LoaderTypeOK
  PROVE  /\ Throw(calls) => \E k \in 0..Len(calls) : Left(k)
         /\ calls # <<>> /\ Throw(Pop) => \E k \in 0..Len(calls) : Left(k)
         /\ calls # <<>> /\ calls' = Pop => Left(Len(calls) - 1)
<1>1. calls \in Seq(CallType) /\ Len(calls) \in Nat
  BY Types
<1>2. ASSUME NEW k \in 0..Len(calls), calls' = SubSeq(calls, 1, k)
      PROVE  Left(k)
  BY <1>1, <1>2, Prefix DEF Left
<1>3. ASSUME calls # <<>>
      PROVE  /\ Pop \in Seq(CallType) /\ Len(Pop) = Len(calls) - 1 /\ Len(calls) - 1 \in 0..Len(calls)
             /\ \A i \in 1..Len(calls) - 1 : Pop[i] = calls[i]
  <2>1. Len(calls) - 1 \in 0..Len(calls)
    BY <1>1, <1>3
  <2>2. QED
    BY <1>1, <2>1, Prefix DEF Pop
<1>4. ASSUME calls # <<>>, NEW k \in 0..Len(Pop), calls' = SubSeq(Pop, 1, k)
      PROVE  Left(k) /\ k \in 0..Len(calls)
  <2>1. /\ calls' \in Seq(CallType) /\ Len(calls') = k
        /\ \A i \in 1..k : calls'[i] = Pop[i]
    BY <1>3, <1>4, Prefix
  <2>2. k \in 0..Len(calls) /\ \A i \in 1..k : Pop[i] = calls[i]
    BY <1>1, <1>3, <1>4
  <2>3. QED
    BY <2>1, <2>2 DEF Left
<1>5. QED
  BY <1>2, <1>3, <1>4 DEF Throw, Left

\* Calls that end do not matter to the others.
LEMMA Ends ==
  ASSUME LoaderInv, NEW k \in 0..Len(calls), Left(k), UNCHANGED <<loaded, ran>>,
         answer' \in {<<>>} \cup (Name \X Entry),
         answer' # <<>> => answer'[2] \notin {"nil", "sentinel"}
  PROVE  LoaderInv'
<1>1. Len(calls) \in Nat /\ Len(calls') = k
  BY Types DEF LoaderInv, Left
<1>2. \A i \in 1..k : i \in 1..Len(calls) /\ calls'[i] = calls[i]
  BY <1>1 DEF Left
<1>3. \A i \in 1..k - 1 : i \in 1..Len(calls) - 1 /\ i \in 1..k
  BY <1>1
<1>4. LoaderTypeOK'
  BY DEF LoaderInv, LoaderTypeOK, Left, CallType, Entry
<1>5. LoadsOnce'
  BY <1>1, <1>2 DEF LoaderInv, LoadsOnce
<1>6. Running'
  BY <1>1, <1>2, <1>3 DEF LoaderInv, Running
<1>7. QED
  BY <1>4, <1>5, <1>6 DEF LoaderInv

LEMMA InitInv == LoaderInit => LoaderInv
<1> SUFFICES ASSUME LoaderInit PROVE LoaderInv
  OBVIOUS
<1>1. Len(calls) = 0 /\ calls = <<>> /\ ran = {} /\ answer = <<>>
  BY DEF LoaderInit
<1>2. QED
  BY <1>1 DEF LoaderInit, LoaderInv, LoaderTypeOK, LoadsOnce, Running, toboolean

LEMMA NextInv == LoaderInv /\ [LoaderNext]_loadervars => LoaderInv'
<1> SUFFICES ASSUME LoaderInv, [LoaderNext]_loadervars PROVE LoaderInv'
  OBVIOUS
<1>1. /\ LoaderTypeOK /\ LoadsOnce /\ Running
      /\ calls \in Seq(CallType) /\ Len(calls) \in Nat
      /\ \A i \in 1..Len(calls) :
           calls[i] \in CallType /\ calls[i].name \in Name /\ calls[i].loader \in 0..Loaders + 1
      /\ calls # <<>> => Len(calls) \in 1..Len(calls) /\ top.name \in Name
  BY Types DEF LoaderInv
<1>2. /\ loaded \in [Name -> Entry] /\ ran \subseteq Name
      /\ answer \in {<<>>} \cup (Name \X Entry)
      /\ answer # <<>> => answer[2] \notin {"nil", "sentinel"}
  BY <1>1 DEF LoaderTypeOK, LoadsOnce, Entry
<1>3. ASSUME NEW name \in Name, RequireLoaded(name)
      PROVE  LoaderInv'
  <2>1. /\ answer' = <<name, loaded[name]>> /\ loaded[name] \notin {"nil", "sentinel"}
        /\ UNCHANGED <<loaded, calls, ran>>
    BY <1>3 DEF RequireLoaded, toboolean
  <2>2. Left(Len(calls)) /\ Len(calls) \in 0..Len(calls)
    BY <1>1, <2>1 DEF Left
  <2>3. QED
    BY <1>2, <2>1, <2>2, Ends
<1>4. ASSUME NEW name \in Name, RequireLoop(name)
      PROVE  LoaderInv'
  BY <1>1, <1>2, <1>4, Thrown, Ends DEF RequireLoop
<1>5. ASSUME NEW name \in Name, Require(name)
      PROVE  LoaderInv'
  <2> DEFINE new == [name |-> name, loader |-> 1]
  <2>1. new \in CallType
    BY LoadersAssumption DEF CallType
  <2>2. calls' = Append(calls, new) /\ UNCHANGED <<loaded, ran, answer>> /\ ~toboolean(loaded[name])
    BY <1>5 DEF Require
  <2> HIDE DEF new
  <2>3. /\ calls' \in Seq(CallType) /\ Len(calls') = Len(calls) + 1
        /\ calls'[Len(calls) + 1] = new
        /\ \A i \in 1..Len(calls) : calls'[i] = calls[i]
    BY <1>1, <2>1, <2>2, Pushed
  <2>4. \A i \in 1..Len(calls) : calls[i].loader = 0
    <3>1. \A i \in 1..Len(calls) - 1 : calls[i].loader = 0
      BY <1>1 DEF Running
    <3>2. calls # <<>> => calls[Len(calls)].loader = 0
      BY <1>5 DEF Require, InCode, top
    <3>3. \A i \in 1..Len(calls) : calls # <<>> /\ (i \in 1..Len(calls) - 1 \/ i = Len(calls))
      BY <1>1
    <3>4. QED
      BY <3>1, <3>2, <3>3
  <2>5. \A i \in 1..Len(calls) : calls[i].name # name
    BY <1>1, <2>2, <2>4 DEF Running, toboolean
  <2>6. \A i \in 1..Len(calls') : i \in 1..Len(calls) \/ i = Len(calls) + 1
    BY <1>1, <2>3
  <2>7. LoaderTypeOK'
    BY <1>1, <2>2, <2>3 DEF LoaderTypeOK, CallType
  <2>8. LoadsOnce'
    <3>1. new.name = name /\ new.loader = 1 /\ name \notin ran
      BY <1>1, <2>2 DEF new, LoadsOnce
    <3>2. \A i, j \in 1..Len(calls') : calls'[i].name = calls'[j].name => i = j
      BY <1>1, <2>3, <2>5, <2>6, <3>1 DEF LoadsOnce
    <3>3. \A i \in 1..Len(calls') : calls'[i].loader > 0 => calls'[i].name \notin ran
      BY <1>1, <2>3, <2>6, <3>1 DEF LoadsOnce
    <3>4. QED
      BY <1>1, <2>2, <3>2, <3>3 DEF LoadsOnce
  <2>9. Running'
    <3>1. new.loader # 0
      BY DEF new
    <3>2. \A i \in 1..Len(calls') - 1 : i \in 1..Len(calls)
      BY <1>1, <2>3
    <3>3. QED
      BY <1>1, <2>2, <2>3, <2>4, <2>6, <3>1, <3>2 DEF Running
  <2>10. QED
    BY <2>7, <2>8, <2>9 DEF LoaderInv
<1>6. CASE NotFound \/ Found
  <2>1. /\ Len(calls) \in 1..Len(calls) /\ top = calls[Len(calls)]
        /\ top.loader > 0 /\ top.loader <= Loaders /\ top.name \in Name
    BY <1>1, <1>6 DEF NotFound, Found, Searching, top
  <2>2. PICK x \in 0..Loaders + 1 :
          /\ calls' = [calls EXCEPT ![Len(calls)].loader = x]
          /\ \/ x > 0 /\ UNCHANGED <<loaded, ran>>
             \/ x = 0 /\ loaded' = [loaded EXCEPT ![top.name] = "sentinel"] /\ ran' = ran \cup {top.name}
    <3>1. CASE NotFound
      <4>1. calls' = [calls EXCEPT ![Len(calls)].loader = calls[Len(calls)].loader + 1]
        BY <3>1 DEF NotFound
      <4>2. calls[Len(calls)].loader + 1 \in 0..Loaders + 1 /\ calls[Len(calls)].loader + 1 > 0
        BY <1>1, <2>1, LoadersAssumption
      <4>3. QED
        BY <3>1, <4>1, <4>2 DEF NotFound
    <3>2. CASE Found
      <4>1. /\ calls' = [calls EXCEPT ![Len(calls)].loader = 0]
            /\ loaded' = [loaded EXCEPT ![top.name] = "sentinel"] /\ ran' = ran \cup {top.name}
        BY <3>2 DEF Found
      <4>2. 0 \in 0..Loaders + 1
        BY LoadersAssumption
      <4>3. QED
        BY <4>1, <4>2
    <3>3. QED
      BY <1>6, <3>1, <3>2
  <2>3. /\ calls' \in Seq(CallType) /\ Len(calls') = Len(calls)
        /\ \A i \in 1..Len(calls) : /\ calls'[i].name = calls[i].name
                                    /\ i # Len(calls) => calls'[i] = calls[i]
        /\ calls'[Len(calls)].loader = x
    <3>1. [calls[Len(calls)] EXCEPT !.loader = x] \in CallType
      BY <1>1, <2>1 DEF CallType
    <3> DEFINE y == [calls[Len(calls)] EXCEPT !.loader = x]
    <3>2. y.name = calls[Len(calls)].name /\ y.loader = x
      BY <1>1, <2>1 DEF CallType
    <3>3. calls' = [calls EXCEPT ![Len(calls)] = y]
      BY <2>2
    <3> HIDE DEF y
    <3>4. /\ calls' \in Seq(CallType) /\ Len(calls') = Len(calls)
          /\ \A i \in 1..Len(calls) : calls'[i] = IF i = Len(calls) THEN y ELSE calls[i]
      BY <1>1, <2>1, <3>1, <3>3 DEF y
    <3>5. QED
      BY <2>1, <3>2, <3>4
  <2>4. answer' = answer
    BY <1>6 DEF NotFound, Found
  <2>5. LoaderTypeOK'
    BY <1>1, <1>2, <2>1, <2>2, <2>3, <2>4 DEF LoaderTypeOK, CallType, Entry
  <2>6. top.name \notin ran /\ \A i \in 1..Len(calls) : i # Len(calls) => calls[i].name # top.name
    BY <1>1, <2>1 DEF LoadsOnce
  <2>7. \A i \in 1..Len(calls) : i # Len(calls) => calls[i].loader = 0
    BY <1>1 DEF Running
  <2>8. LoadsOnce'
    <3>1. \A i, j \in 1..Len(calls') : calls'[i].name = calls'[j].name => i = j
      BY <1>1, <2>3 DEF LoadsOnce
    <3>2. \A name \in Name : name \in ran' <=> toboolean(loaded'[name])
      BY <1>1, <1>2, <2>1, <2>2 DEF LoadsOnce, toboolean
    <3>3. \A i \in 1..Len(calls') : calls'[i].loader > 0 => calls'[i].name \notin ran'
      BY <2>1, <2>2, <2>3, <2>6, <2>7
    <3>4. QED
      BY <1>2, <2>4, <3>1, <3>2, <3>3 DEF LoadsOnce
  <2>9. Running'
    <3>1. \A i \in 1..Len(calls') :
            calls'[i].loader = 0 => loaded'[calls'[i].name] \in {"sentinel", "value"}
      BY <1>1, <1>2, <2>1, <2>2, <2>3, <2>6 DEF Running
    <3>2. QED
      BY <1>1, <2>3, <2>7, <3>1 DEF Running
  <2>10. QED
    BY <2>5, <2>8, <2>9 DEF LoaderInv
<1>7. CASE SearchFails
  BY <1>1, <1>2, <1>7, Thrown, Ends DEF SearchFails, Searching
<1>8. CASE SetsLoaded
  <2>1. /\ calls # <<>> /\ top.loader = 0 /\ top.name \in Name /\ top = calls[Len(calls)]
        /\ Len(calls) \in 1..Len(calls)
        /\ loaded' = [loaded EXCEPT ![top.name] = "value"] /\ UNCHANGED <<calls, ran, answer>>
    BY <1>1, <1>8 DEF SetsLoaded, top
  <2>2. toboolean(loaded[top.name])
    BY <1>1, <2>1 DEF Running, toboolean
  <2>3. LoaderTypeOK'
    BY <1>1, <1>2, <2>1 DEF LoaderTypeOK
  <2>4. LoadsOnce'
    BY <1>1, <1>2, <2>1, <2>2 DEF LoadsOnce, toboolean
  <2>5. Running'
    BY <1>1, <1>2, <2>1 DEF Running
  <2>6. QED
    BY <2>3, <2>4, <2>5 DEF LoaderInv
<1>9. ASSUME NEW v \in {"nil", "false", "value"}, Returns(v)
      PROVE  LoaderInv'
  <2> DEFINE entry == IF v # "nil" THEN v ELSE loaded[top.name]
             final == IF entry = "sentinel" THEN "true" ELSE entry
  <2>1. /\ calls # <<>> /\ top.loader = 0 /\ top.name \in Name /\ top = calls[Len(calls)]
        /\ Len(calls) \in 1..Len(calls)
    BY <1>1, <1>9 DEF Returns, top
  <2>2. /\ loaded' = [loaded EXCEPT ![top.name] = final] /\ answer' = <<top.name, final>>
        /\ ran' = (IF final = "false" THEN ran \ {top.name} ELSE ran) /\ calls' = Pop
    BY <1>9 DEF Returns
  <2>3. loaded[top.name] \in {"sentinel", "value"}
    BY <1>1, <2>1 DEF Running
  <2>4. final \in {"false", "true", "value"}
    BY <2>3
  <2> HIDE DEF final
  <2>5. Left(Len(calls) - 1)
    BY <1>1, <2>1, <2>2, Thrown
  <2>6. /\ calls' \in Seq(CallType) /\ Len(calls') = Len(calls) - 1
        /\ \A i \in 1..Len(calls') : i \in 1..Len(calls) - 1 /\ i \in 1..Len(calls) /\ calls'[i] = calls[i]
    BY <1>1, <2>1, <2>5 DEF Left
  <2>7. \A i \in 1..Len(calls') : calls[i].name # top.name /\ calls[i].loader = 0
    BY <1>1, <2>1, <2>6 DEF LoadsOnce, Running
  <2>8. LoaderTypeOK'
    BY <1>1, <1>2, <2>1, <2>2, <2>4, <2>6 DEF LoaderTypeOK, CallType, Entry
  <2>9. LoadsOnce'
    <3>1. \A i, j \in 1..Len(calls') : calls'[i].name = calls'[j].name => i = j
      BY <1>1, <2>6 DEF LoadsOnce
    <3>2. top.name \in ran
      BY <1>1, <2>1, <2>3 DEF LoadsOnce, toboolean
    <3>3. \A name \in Name : name \in ran' <=> toboolean(loaded'[name])
      BY <1>1, <1>2, <2>1, <2>2, <2>4, <3>2 DEF LoadsOnce, toboolean
    <3>4. \A i \in 1..Len(calls') : ~(calls'[i].loader > 0)
      BY <2>6, <2>7
    <3>5. answer'[2] \notin {"nil", "sentinel"}
      BY <2>2, <2>4
    <3>6. QED
      BY <3>1, <3>3, <3>4, <3>5 DEF LoadsOnce
  <2>10. Running'
    <3>1. \A i \in 1..Len(calls') : loaded'[calls'[i].name] \in {"sentinel", "value"}
      BY <1>1, <1>2, <2>2, <2>6, <2>7 DEF Running
    <3>2. \A i \in 1..Len(calls') - 1 : i \in 1..Len(calls')
      BY <2>1, <2>6
    <3>3. QED
      BY <2>6, <2>7, <3>1, <3>2 DEF Running
  <2>11. QED
    BY <2>8, <2>9, <2>10 DEF LoaderInv
<1>10. CASE Raises
  BY <1>1, <1>2, <1>10, Thrown, Ends DEF Raises
<1>11. CASE UNCHANGED loadervars
  <2>1. Left(Len(calls)) /\ Len(calls) \in 0..Len(calls)
    BY <1>1, <1>11 DEF Left, loadervars
  <2>2. QED
    BY <1>2, <1>11, <2>1, Ends DEF loadervars
<1>12. QED
  BY <1>3, <1>4, <1>5, <1>6, <1>7, <1>8, <1>9, <1>10, <1>11 DEF LoaderNext

\* The code of a module whose entry is not false is not called again, nor while
\* it runs, and require does not give the sentinel away.
THEOREM LoaderInvariance == LoaderSpec => []LoaderInv
BY InitInv, NextInv, PTL DEF LoaderSpec

THEOREM AlwaysLoadsOnce == LoaderSpec => []LoadsOnce
<1>1. LoaderInv => LoadsOnce
  BY DEF LoaderInv
<1>2. QED
  BY <1>1, LoaderInvariance, PTL

-----------------------------------------------------------------------------
(* References (LuaRef): the free list.                                     *)

\* A list without repetition has room in the registry.
LEMMA ListFits ==
  ASSUME NEW n \in Nat, NEW c \in [1..n -> Slots],
         \A i, j \in 1..n : c[i] = c[j] => i = j
  PROVE  n <= MaxRef
  <1> SUFFICES ASSUME n > MaxRef PROVE FALSE
    BY BoundAssumption
  <1>1. /\ IsFiniteSet(1..n) /\ Cardinality(1..n) = n
        /\ IsFiniteSet(Slots) /\ Cardinality(Slots) = MaxRef
    BY FS_Interval, BoundAssumption DEF Slots
  <1>2. PICK i, j \in 1..n : i # j /\ c[i] = c[j]
    BY <1>1, FS_PigeonHole, BoundAssumption
  <1> QED
    BY <1>2

\* What luaL_ref finds at the head.
LEMMA HeadFree ==
  ASSUME RefTypeOK, NEW last \in 0..MaxRef, NEW n \in 0..MaxRef,
         NEW c \in [1..n -> Slots], IsFreeList(registry, c, n) /\ IsPartition(registry, InUse, last, c, n)
  PROVE  /\ n = 0 => firstfree = 0
         /\ n > 0 => firstfree = c[1]
  <1>1. LUA_TNIL \notin Slots
    BY ValueAssumption, BoundAssumption DEF Slots
  <1>2. registry[FREELIST_REF] = IF n = 0 THEN LUA_TNIL ELSE c[1]
    BY DEF IsPartition, IsFreeList
  <1>3. n > 0 => c[1] \in Slots
    BY BoundAssumption
  <1> QED
    BY <1>1, <1>2, <1>3 DEF firstfree

-----------------------------------------------------------------------------
LEMMA RefInitInv == RefInit => RefInv
  <1> SUFFICES ASSUME RefInit PROVE RefInv
    OBVIOUS
  <1> USE ValueAssumption, BoundAssumption
  <1>1. Open = {} /\ InUse = {}
    BY DEF RefInit, Open, InUse
  <1>2. RefTypeOK
    BY DEF RefInit, RefTypeOK, Slots
  <1>3. RefsHold /\ NoSharing /\ InUseHeld
    BY <1>1 DEF RefsHold, NoSharing, InUseHeld
  <1>4. FreeListOK
    <2> DEFINE c == [i \in 1..0 |-> 1]
    <2>1. c \in [1..0 -> Slots]
      BY DEF Slots
    <2>2. IsFreeList(registry, c, 0) /\ IsPartition(registry, InUse, 0, c, 0)
      BY <1>1 DEF RefInit, IsPartition, IsFreeList, FREELIST_REF, Slots
    <2> HIDE DEF c
    <2>3. 0 \in 0..MaxRef
      OBVIOUS
    <2> QED
      BY <2>1, <2>2, <2>3 DEF FreeListOK
  <1> QED
    BY <1>2, <1>3, <1>4 DEF RefInv

\* Whatever slot luaL_ref returns, it was free.
LEMMA MakeFresh ==
  ASSUME RefInv, NEW h \in Holders, NEW r \in Slots, NEW v \in Obj, Make(h, r, v)
  PROVE  r \notin InUse /\ FreeListOK'
  <1> USE ValueAssumption, BoundAssumption
  <1>0. PICK last \in 0..MaxRef, n \in 0..MaxRef :
               \E c \in [1..n -> Slots] : IsFreeList(registry, c, n) /\ IsPartition(registry, InUse, last, c, n)
    BY DEF RefInv, FreeListOK
  <1>1. PICK c \in [1..n -> Slots] : IsFreeList(registry, c, n) /\ IsPartition(registry, InUse, last, c, n)
    BY <1>0
  <1>2. RefTypeOK /\ InUseHeld
    BY DEF RefInv
  <1>h. /\ n = 0 => firstfree = 0
        /\ n > 0 => firstfree = c[1]
    BY <1>1, <1>2, HeadFree
  <1>u. InUse' = InUse \cup {r}
    <2>1. Open' = Open \cup {h} /\ h \notin Open
      BY <1>2 DEF Make, Open, RefTypeOK
    <2>2. \A g \in Open : ref'[g] = ref[g]
      BY <1>2, <2>1 DEF Make, Open, RefTypeOK
    <2>3. ref'[h] = r /\ leaked' = leaked
      BY <1>2 DEF Make, RefTypeOK, Slots
    <2> QED
      BY <2>1, <2>2, <2>3 DEF InUse
  <1>3. CASE /\ r = firstfree
             /\ registry' = [registry EXCEPT ![FREELIST_REF] = registry[r], ![r] = v]
    <2> DEFINE d == [i \in 1..(n - 1) |-> c[i + 1]]
    <2>1. n > 0 /\ r = c[1]
      BY <1>3, <1>h DEF Slots
    <2>2. d \in [1..(n - 1) -> Slots] /\ n - 1 \in 0..MaxRef
      BY <2>1 DEF Slots
    <2>3. r \notin InUse
      BY <1>1, <2>1 DEF IsPartition, Slots
    <2>4. registry'[FREELIST_REF] = registry[r] /\ \A s \in Slots : s # r => registry'[s] = registry[s]
      BY <1>2, <1>3 DEF RefTypeOK, Slots, FREELIST_REF
    <2>5. \A i \in 1..(n - 1) : d[i] # r
      BY <1>1, <2>1 DEF IsPartition, IsFreeList
    <2>6. IsFreeList(registry', d, n - 1)
      <3>1. \A i, j \in 1..(n - 1) : d[i] = d[j] => i = j
        BY <1>1, <2>1 DEF IsPartition, IsFreeList
      <3>2. registry'[FREELIST_REF] = IF n - 1 = 0 THEN LUA_TNIL ELSE d[1]
        BY <1>1, <2>1, <2>4 DEF IsPartition, IsFreeList
      <3>3. ASSUME NEW i \in 1..(n - 1)
            PROVE  registry'[d[i]] = IF i = n - 1 THEN LUA_TNIL ELSE d[i + 1]
        <4>1. i + 1 \in 1..n /\ d[i] = c[i + 1] /\ (i # n - 1 => d[i + 1] = c[(i + 1) + 1])
          OBVIOUS
        <4>2. registry[c[i + 1]] = IF i + 1 = n THEN LUA_TNIL ELSE c[(i + 1) + 1]
          BY <1>1, <4>1 DEF IsFreeList
        <4>3. d[i] \in Slots /\ d[i] # r
          BY <2>2, <2>5
        <4> HIDE DEF d
        <4>4. registry'[d[i]] = registry[c[i + 1]]
          BY <2>4, <4>1, <4>3
        <4> QED
          BY <4>1, <4>2, <4>4
      <3> QED
        BY <3>1, <3>2, <3>3 DEF IsFreeList
    <2>7. \A s \in Slots : s \in InUse' <=> s <= last /\ \A i \in 1..(n - 1) : d[i] # s
      <3> SUFFICES ASSUME NEW s \in Slots
                   PROVE  s \in InUse' <=> s <= last /\ \A i \in 1..(n - 1) : d[i] # s
        OBVIOUS
      <3>1. (\A i \in 1..n : c[i] # s) <=> s # r /\ \A i \in 1..(n - 1) : d[i] # s
        <4>1. ASSUME s # r, \A i \in 1..(n - 1) : d[i] # s, NEW i \in 1..n
              PROVE  c[i] # s
          <5>1. CASE i = 1
            BY <5>1, <4>1, <2>1
          <5>2. CASE i # 1
            <6>1. i - 1 \in 1..(n - 1) /\ d[i - 1] = c[i]
              BY <5>2
            <6> QED
              BY <6>1, <4>1
          <5> QED
            BY <5>1, <5>2
        <4>2. ASSUME \A i \in 1..n : c[i] # s, NEW i \in 1..(n - 1)
              PROVE  d[i] # s
          BY <4>2
        <4> QED
          BY <4>1, <4>2, <2>1
      <3>2. r <= last
        BY <1>1, <2>1 DEF IsPartition
      <3>3. s \in InUse <=> s <= last /\ \A i \in 1..n : c[i] # s
        BY <1>1 DEF IsPartition
      <3>4. s \in InUse' <=> s \in InUse \/ s = r
        BY <1>u
      <3> HIDE DEF d
      <3>5. CASE s = r
        BY <2>5, <3>2, <3>4, <3>5
      <3>6. CASE s # r
        BY <3>1, <3>3, <3>4, <3>6
      <3> QED
        BY <3>5, <3>6
    <2>8. \A i \in 1..(n - 1) : d[i] <= last
      BY <1>1, <2>1 DEF IsPartition
    <2>9. ASSUME NEW s \in Slots, s > last PROVE registry'[s] = LUA_TNIL
      <3>1. r <= last
        BY <1>1, <2>1 DEF IsPartition
      <3>2. s # r
        BY <2>9, <3>1 DEF Slots
      <3>3. registry[s] = LUA_TNIL
        BY <1>1, <2>9 DEF IsPartition
      <3> QED
        BY <2>4, <3>2, <3>3
    <2>10. IsPartition(registry', InUse', last, d, n - 1)
      BY <2>7, <2>8, <2>9 DEF IsPartition
    <2> QED
      BY <2>2, <2>3, <2>6, <2>10 DEF FreeListOK
  <1>4. CASE /\ firstfree = 0 /\ isborder(r - 1)
             /\ registry' = [registry EXCEPT ![r] = v]
    <2>1. n = 0
      BY <1>4, <1>h DEF Slots
    <2>2. \A s \in Slots : s \in InUse <=> s <= last
      BY <1>1, <2>1 DEF IsPartition
    <2>3. registry[r] = LUA_TNIL /\ (r = 1 \/ registry[r - 1] # LUA_TNIL)
      BY <1>4 DEF isborder, Slots
    <2>4. r > last
      BY <2>2, <2>3, <1>2 DEF InUseHeld, Slots
    <2>5. r = last + 1
      BY <2>3, <2>4, <1>1 DEF IsPartition, Slots
    <2>6. registry'[FREELIST_REF] = registry[FREELIST_REF] /\ \A s \in Slots : s # r => registry'[s] = registry[s]
      BY <1>2, <1>4 DEF RefTypeOK, Slots, FREELIST_REF
    <2>7. IsFreeList(registry', c, 0) /\ IsPartition(registry', InUse', last + 1, c, 0)
      BY <1>1, <2>1, <2>2, <2>5, <2>6, <1>u DEF IsPartition, IsFreeList, Slots
    <2>8. last + 1 \in 0..MaxRef /\ c \in [1..0 -> Slots] /\ 0 \in 0..MaxRef
      BY <2>1, <2>5 DEF Slots
    <2>9. r \notin InUse
      BY <2>2, <2>4 DEF Slots
    <2>10. FreeListOK'
      <3> DEFINE m == 0
      <3>1. m \in 0..MaxRef /\ c \in [1..m -> Slots] /\ IsFreeList(registry', c, m)
            /\ IsPartition(registry', InUse', last + 1, c, m)
        BY <2>7, <2>8
      <3> HIDE DEF m
      <3> QED
        BY <2>8, <3>1 DEF FreeListOK
    <2> QED
      BY <2>9, <2>10
  <1> QED
    BY <1>3, <1>4 DEF Make, luaL_ref

\* Releasing a reference puts its slot at the head of the list.
LEMMA Released ==
  ASSUME RefInv, NEW h \in Open, luaL_unref(ref[h]),
         InUse' = InUse \ {ref[h]}
  PROVE  FreeListOK'
  <1> USE ValueAssumption, BoundAssumption
  <1> DEFINE r == ref[h]
  <1>0. PICK last \in 0..MaxRef, n \in 0..MaxRef :
               \E c \in [1..n -> Slots] : IsFreeList(registry, c, n) /\ IsPartition(registry, InUse, last, c, n)
    BY DEF RefInv, FreeListOK
  <1>1. PICK c \in [1..n -> Slots] : IsFreeList(registry, c, n) /\ IsPartition(registry, InUse, last, c, n)
    BY <1>0
  <1>2. r \in Slots /\ r \in InUse /\ RefTypeOK
    BY DEF RefInv, RefsHold, InUse
  <1> DEFINE d == [i \in 1..(n + 1) |-> IF i = 1 THEN r ELSE c[i - 1]]
  <1>3. \A i \in 1..n : c[i] # r
    BY <1>1, <1>2 DEF IsPartition
  <1>4. d \in [1..(n + 1) -> Slots] /\ n + 1 \in Nat
    <2>1. ASSUME NEW i \in 1..(n + 1) PROVE d[i] \in Slots
      <3>1. i = 1 \/ i - 1 \in 1..n
        OBVIOUS
      <3> QED
        BY <3>1, <1>2
    <2> QED
      BY <2>1
  <1>5. \A i, j \in 1..(n + 1) : d[i] = d[j] => i = j
    <2> SUFFICES ASSUME NEW i \in 1..(n + 1), NEW j \in 1..(n + 1), d[i] = d[j]
                 PROVE  i = j
      OBVIOUS
    <2>1. i = 1 \/ (i - 1 \in 1..n /\ d[i] = c[i - 1])
      OBVIOUS
    <2>2. j = 1 \/ (j - 1 \in 1..n /\ d[j] = c[j - 1])
      OBVIOUS
    <2>3. d[1] = r
      OBVIOUS
    <2>4. \A k, l \in 1..n : c[k] = c[l] => k = l
      BY <1>1 DEF IsPartition, IsFreeList
    <2>5. i # 1 /\ j # 1 => i - 1 = j - 1
      BY <2>1, <2>2, <2>4
    <2> HIDE DEF d
    <2> QED
      BY <2>1, <2>2, <2>3, <2>5, <1>3
  <1>6. n + 1 \in 0..MaxRef
    <2> HIDE DEF d
    <2> QED
      BY <1>4, <1>5, ListFits
  <1>7. /\ registry'[FREELIST_REF] = r /\ registry'[r] = registry[FREELIST_REF]
        /\ \A s \in Slots : s # r => registry'[s] = registry[s]
    BY <1>2 DEF RefTypeOK, luaL_unref, Slots, FREELIST_REF
  <1>8. IsFreeList(registry', d, n + 1)
    <2>1. registry'[FREELIST_REF] = IF n + 1 = 0 THEN LUA_TNIL ELSE d[1]
      BY <1>7
    <2>2. ASSUME NEW i \in 1..(n + 1)
          PROVE  registry'[d[i]] = IF i = n + 1 THEN LUA_TNIL ELSE d[i + 1]
      <3>1. CASE i = 1
        <4>1. registry[FREELIST_REF] = IF n = 0 THEN LUA_TNIL ELSE c[1]
          BY <1>1 DEF IsPartition, IsFreeList
        <4>2. d[1] = r /\ (n # 0 => d[2] = c[1])
          OBVIOUS
        <4> HIDE DEF d
        <4> QED
          BY <3>1, <4>1, <4>2, <1>7
      <3>2. CASE i # 1
        <4>1. i - 1 \in 1..n /\ d[i] = c[i - 1] /\ (i # n + 1 => d[i + 1] = c[i])
          BY <3>2
        <4>2. registry'[d[i]] = registry[c[i - 1]]
          BY <4>1, <1>3, <1>7
        <4>3. registry[c[i - 1]] = IF i - 1 = n THEN LUA_TNIL ELSE c[(i - 1) + 1]
          BY <1>1, <4>1 DEF IsPartition, IsFreeList
        <4> HIDE DEF d
        <4> QED
          BY <4>1, <4>2, <4>3
      <3> QED
        BY <3>1, <3>2
    <2> HIDE DEF d
    <2> QED
      BY <2>1, <2>2, <1>5 DEF IsFreeList
  <1>9. \A s \in Slots : s \in InUse' <=> s <= last /\ \A i \in 1..(n + 1) : d[i] # s
    <2> SUFFICES ASSUME NEW s \in Slots
                 PROVE  s \in InUse' <=> s <= last /\ \A i \in 1..(n + 1) : d[i] # s
      OBVIOUS
    <2>1. (\A i \in 1..(n + 1) : d[i] # s) <=> s # r /\ \A i \in 1..n : c[i] # s
      <3>1. d[1] = r /\ \A i \in 1..n : i + 1 \in 1..(n + 1) /\ d[i + 1] = c[i]
        OBVIOUS
      <3>2. \A i \in 1..(n + 1) : i = 1 \/ (i - 1 \in 1..n /\ d[i] = c[i - 1])
        OBVIOUS
      <3> HIDE DEF d
      <3>3. ASSUME \A i \in 1..(n + 1) : d[i] # s PROVE s # r /\ \A i \in 1..n : c[i] # s
        <4>1. 1 \in 1..(n + 1)
          OBVIOUS
        <4>2. s # r
          BY <3>1, <3>3, <4>1, Zenon
        <4>3. ASSUME NEW i \in 1..n PROVE c[i] # s
          BY <3>1, <3>3, Zenon
        <4> QED
          BY <4>2, <4>3
      <3>4. ASSUME s # r, \A i \in 1..n : c[i] # s, NEW i \in 1..(n + 1) PROVE d[i] # s
        <4>1. d[1] = r
          BY <3>1
        <4> QED
          BY <3>2, <3>4, <4>1, Zenon
      <3> QED
        BY <3>3, <3>4
    <2> HIDE DEF d
    <2> QED
      BY <2>1, <1>1, <1>2 DEF IsPartition
  <1>10. \A i \in 1..(n + 1) : d[i] <= last
    <2>1. r <= last
      BY <1>1, <1>2 DEF IsPartition
    <2>2. \A i \in 1..(n + 1) : i = 1 \/ (i - 1 \in 1..n /\ d[i] = c[i - 1])
      OBVIOUS
    <2>3. d[1] = r
      OBVIOUS
    <2> HIDE DEF d
    <2> QED
      BY <2>1, <2>2, <2>3, <1>1 DEF IsPartition
  <1>11. \A s \in Slots : s > last => registry'[s] = LUA_TNIL
    BY <1>1, <1>2, <1>7 DEF IsPartition, Slots
  <1> HIDE DEF d
  <1>12. IsPartition(registry', InUse', last, d, n + 1)
    BY <1>9, <1>10, <1>11 DEF IsPartition
  <1> QED
    BY <1>4, <1>6, <1>8, <1>12 DEF FreeListOK

-----------------------------------------------------------------------------
(* The inductive invariant.                                                *)

\* A step that makes, releases or abandons a holder.
LEMMA MakeInv ==
  ASSUME RefInv, NEW h \in Holders, NEW r \in Slots, NEW v \in Obj, Make(h, r, v)
  PROVE  RefInv'
  <1> USE ValueAssumption, BoundAssumption
  <1>1. r \notin InUse /\ FreeListOK'
    BY MakeFresh
  <1>2. RefTypeOK /\ RefsHold /\ NoSharing /\ InUseHeld
    BY DEF RefInv
  <1>3. Open' = Open \cup {h} /\ h \notin Open
    BY <1>2 DEF Make, Open, RefTypeOK
  <1>4. /\ \A g \in Open : ref'[g] = ref[g] /\ object'[g] = object[g]
        /\ ref'[h] = r /\ object'[h] = v /\ leaked' = leaked
    BY <1>2, <1>3 DEF Make, Open, RefTypeOK, Slots
  <1>5. registry'[r] = v /\ \A s \in Slots \ {r} : registry'[s] = registry[s]
    BY <1>2 DEF Make, luaL_ref, RefTypeOK, Slots, FREELIST_REF
  <1>6. InUse' = InUse \cup {r} /\ InUse \subseteq Slots
    BY <1>2, <1>3, <1>4 DEF InUse, RefsHold, RefTypeOK
  <1>7. RefTypeOK'
    <2>1. registry' \in [0..MaxRef -> Obj \cup 0..MaxRef \cup {LUA_TNIL}]
      BY <1>2 DEF Make, luaL_ref, RefTypeOK, Slots, FREELIST_REF
    <2> QED
      BY <2>1, <1>2 DEF Make, RefTypeOK, Slots
  <1>8. RefsHold'
    BY <1>1, <1>2, <1>3, <1>4, <1>5 DEF RefsHold, InUse
  <1>9. NoSharing'
    BY <1>1, <1>2, <1>3, <1>4 DEF NoSharing, InUse
  <1>10. InUseHeld'
    BY <1>1, <1>2, <1>5, <1>6 DEF InUseHeld
  <1> QED
    BY <1>1, <1>7, <1>8, <1>9, <1>10 DEF RefInv

LEMMA ReleaseInv ==
  ASSUME RefInv, NEW h \in Open, luaL_unref(ref[h]),
         state' = [state EXCEPT ![h] = "disposed"],
         UNCHANGED <<ref, leaked, object>>
  PROVE  RefInv' /\ InUse' = InUse \ {ref[h]}
  <1> USE ValueAssumption, BoundAssumption
  <1>1. RefTypeOK /\ RefsHold /\ NoSharing /\ InUseHeld
    BY DEF RefInv
  <1>2. Open' = Open \ {h} /\ h \in Holders
    BY <1>1 DEF Open, RefTypeOK
  <1>3. InUse' = InUse \ {ref[h]}
    BY <1>1, <1>2 DEF InUse, NoSharing
  <1>4. FreeListOK'
    BY <1>3, Released
  <1>5. ref[h] \in Slots /\ InUse \subseteq Slots
    BY <1>1 DEF RefsHold, InUse, RefTypeOK
  <1>6. \A s \in Slots \ {ref[h]} : registry'[s] = registry[s]
    BY <1>1, <1>5 DEF luaL_unref, RefTypeOK, Slots, FREELIST_REF
  <1>7. RefTypeOK'
    <2>1. registry' \in [0..MaxRef -> Obj \cup 0..MaxRef \cup {LUA_TNIL}]
      BY <1>1, <1>5 DEF luaL_unref, RefTypeOK, Slots, FREELIST_REF
    <2> QED
      BY <1>1, <1>2, <2>1 DEF RefTypeOK
  <1>8. RefsHold'
    BY <1>1, <1>2, <1>6 DEF RefsHold, NoSharing, Open
  <1>9. NoSharing'
    BY <1>1, <1>2 DEF NoSharing
  <1>10. InUseHeld'
    BY <1>1, <1>3, <1>5, <1>6 DEF InUseHeld
  <1> QED
    BY <1>3, <1>4, <1>7, <1>8, <1>9, <1>10 DEF RefInv

LEMMA CollectInv ==
  ASSUME RefInv, NEW h \in Holders, Collect(h)
  PROVE  RefInv' /\ InUse' = InUse
  <1>1. RefTypeOK /\ RefsHold /\ NoSharing /\ InUseHeld /\ FreeListOK
    BY DEF RefInv
  <1>2. Open' = Open \ {h}
    BY <1>1 DEF Collect, Open, RefTypeOK
  <1>3. InUse' = InUse
    <2>1. CASE h \in Open
      BY <1>1, <1>2, <2>1 DEF Collect, InUse, Open
    <2>2. CASE h \notin Open
      BY <1>1, <1>2, <2>2 DEF Collect, InUse, Open
    <2> QED
      BY <2>1, <2>2
  <1>4. RefTypeOK'
    BY <1>1 DEF Collect, RefTypeOK, RefsHold, Open
  <1>5. RefsHold' /\ NoSharing'
    BY <1>1, <1>2 DEF Collect, RefsHold, NoSharing, Open
  <1>6. InUseHeld'
    BY <1>1, <1>3 DEF Collect, InUseHeld
  <1>7. FreeListOK'
    BY <1>1, <1>3 DEF Collect, FreeListOK
  <1> QED
    BY <1>3, <1>4, <1>5, <1>6, <1>7 DEF RefInv

LEMMA StepInv == ~Twice /\ RefInv /\ [RefNext]_refvars => RefInv'
  <1> SUFFICES ASSUME ~Twice, RefInv, [RefNext]_refvars PROVE RefInv'
    OBVIOUS
  <1>1. ASSUME NEW h \in Holders, NEW r \in Slots, NEW v \in Obj, Make(h, r, v)
        PROVE  RefInv'
    BY <1>1, MakeInv
  <1>2. ASSUME NEW h \in Bases, Dispose(h) PROVE RefInv'
    BY <1>2, ReleaseInv DEF Dispose, Holders, Open
  <1>3. ASSUME NEW h \in Threads, DisposeThread(h) PROVE RefInv'
    BY <1>3, ReleaseInv DEF DisposeThread, Holders, Open
  <1>4. ASSUME NEW h \in Holders, Collect(h) PROVE RefInv'
    BY <1>4, CollectInv
  <1>5. CASE UNCHANGED refvars
    <2>1. Open' = Open /\ InUse' = InUse
      BY <1>5 DEF refvars, Open, InUse
    <2>2. RefTypeOK' /\ RefsHold' /\ NoSharing' /\ InUseHeld'
      BY <1>5, <2>1 DEF refvars, RefInv, RefTypeOK, RefsHold, NoSharing, InUseHeld
    <2>3. FreeListOK'
      BY <1>5, <2>1 DEF refvars, RefInv, FreeListOK
    <2> QED
      BY <2>2, <2>3 DEF RefInv
  <1> QED
    BY <1>1, <1>2, <1>3, <1>4, <1>5 DEF RefNext

\* Every reachable registry has its free slots, and they only, in the list.
THEOREM RefInvariance ==
  ASSUME ~Twice PROVE RefSpec => []RefInv
  <1>1. RefInv /\ [RefNext]_refvars => RefInv'
    BY StepInv
  <1> QED
    BY <1>1, RefInitInv, PTL DEF RefSpec

\* As long as it was not disposed of, a holder gets the object it was made
\* for: luaL_ref gives no slot in use to another.
THEOREM RefsAlwaysHold ==
  ASSUME ~Twice PROVE RefSpec => []RefsHold
  <1>1. RefInv => RefsHold
    BY DEF RefInv
  <1> QED
    BY <1>1, RefInvariance, PTL

\* The free list of the registry is well formed.
THEOREM FreeListAlwaysOK ==
  ASSUME ~Twice PROVE RefSpec => []FreeListOK
  <1>1. RefInv => FreeListOK
    BY DEF RefInv
  <1> QED
    BY <1>1, RefInvariance, PTL

-----------------------------------------------------------------------------
(* Refinement.                                                             *)

\* What the references stand for, as RefTable sees it.
mapped == [r \in InUse |-> registry[r]]

LEMMA StepRefines ==
  ASSUME ~Twice, RefInv, [RefNext]_refvars
  PROVE  Table!Next \/ UNCHANGED mapped
  <1>0. RefTypeOK /\ RefsHold /\ NoSharing /\ InUseHeld
    BY DEF RefInv
  <1>1. ASSUME NEW h \in Holders, NEW r \in Slots, NEW v \in Obj, Make(h, r, v)
        PROVE  Table!Next
    <2>1. r \notin InUse
      BY <1>1, MakeFresh
    <2>2. Open' = Open \cup {h} /\ h \notin Open
      BY <1>0, <1>1 DEF Make, Open, RefTypeOK
    <2>3. InUse' = InUse \cup {r} /\ InUse \subseteq Slots
      <3>1. /\ \A g \in Open : ref'[g] = ref[g]
            /\ ref'[h] = r /\ leaked' = leaked
        BY <1>0, <1>1, <2>2 DEF Make, Open, RefTypeOK, Slots
      <3> QED
        BY <1>0, <2>2, <3>1 DEF InUse, RefsHold, RefTypeOK
    <2>4. registry'[r] = v /\ \A s \in Slots \ {r} : registry'[s] = registry[s]
      BY <1>0, <1>1, BoundAssumption DEF Make, luaL_ref, RefTypeOK, Slots, FREELIST_REF
    <2>5. mapped' = [s \in DOMAIN mapped \cup {r} |-> IF s = r THEN v ELSE mapped[s]]
      BY <2>1, <2>3, <2>4 DEF mapped
    <2>6. Table!Ref(r, v)
      BY <2>1, <2>5 DEF Table!Ref, mapped
    <2> QED
      BY <2>6 DEF Table!Next, Slots
  <1>2. ASSUME NEW h \in Open, luaL_unref(ref[h]),
               state' = [state EXCEPT ![h] = "disposed"],
               UNCHANGED <<ref, leaked, object>>
        PROVE  Table!Next
    <2>1. InUse' = InUse \ {ref[h]}
      BY <1>2, ReleaseInv
    <2>2. ref[h] \in InUse /\ InUse \subseteq Slots
      BY <1>0 DEF InUse, RefsHold, RefTypeOK
    <2>3. PICK r \in InUse : r = ref[h]
      BY <2>2
    <2>4. \A s \in Slots \ {r} : registry'[s] = registry[s]
      BY <1>0, <1>2, <2>2, <2>3, BoundAssumption
      DEF luaL_unref, RefTypeOK, Slots, FREELIST_REF
    <2>5. mapped' = [s \in DOMAIN mapped \ {r} |-> mapped[s]]
      BY <2>1, <2>2, <2>3, <2>4 DEF mapped
    <2>6. Table!Unref(r)
      BY <2>5 DEF Table!Unref, mapped
    <2> QED
      BY <2>6 DEF Table!Next
  <1>3. ASSUME NEW h \in Bases, Dispose(h) PROVE Table!Next
    BY <1>2, <1>3 DEF Dispose, Holders, Open
  <1>4. ASSUME NEW h \in Threads, DisposeThread(h) PROVE Table!Next
    BY <1>2, <1>4 DEF DisposeThread, Holders, Open
  <1>5. ASSUME NEW h \in Holders, Collect(h) PROVE UNCHANGED mapped
    <2>1. InUse' = InUse /\ registry' = registry
      BY <1>5, CollectInv DEF Collect
    <2> QED
      BY <2>1 DEF mapped
  <1>6. CASE UNCHANGED refvars
    BY <1>6 DEF refvars, mapped, InUse, Open
  <1> QED
    BY <1>1, <1>3, <1>4, <1>5, <1>6 DEF RefNext

\* The registry, its free list and the Dispose methods implement RefTable.
THEOREM ImplementsTable ==
  ASSUME ~Twice PROVE RefSpec => ImplementsRefTable
  <1>1. RefInit => Table!Init
    <2> SUFFICES ASSUME RefInit PROVE mapped = [r \in {} |-> {}]
      BY DEF Table!Init, mapped
    <2>1. InUse = {}
      BY DEF RefInit, InUse, Open
    <2> QED
      BY <2>1 DEF mapped
  <1>2. RefInv /\ [RefNext]_refvars => [Table!Next]_mapped
    BY StepRefines
  <1>3. UNCHANGED mapped => UNCHANGED [r \in InUse |-> registry[r]]
    BY DEF mapped
  <1>4. RefInv /\ [RefNext]_refvars => [Table!Next]_([r \in InUse |-> registry[r]])
    BY <1>2, <1>3
  <1> QED
    BY <1>1, <1>4, RefInvariance, PTL DEF RefSpec, ImplementsRefTable, Table!Spec
=============================================================================

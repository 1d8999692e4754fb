---------------------------- MODULE LuaVM_proofs ----------------------------
(***************************************************************************)
(* The virtual machine, whatever code it runs: the flags of a metatable    *)
(* are right (FlagsAlwaysSound).                                           *)
(***************************************************************************)
EXTENDS LuaVM, TLAPS

\* What every operation keeps of a table, of the tables, and of a state.
SoundTable(x) ==
  /\ x = [h |-> x.h, mt |-> x.mt, flags |-> x.flags]
  /\ x.h = [k \in DOMAIN x.h |-> x.h[k]]
  /\ \A k \in DOMAIN x.h : x.h[k] # Nil
  /\ \A e \in x.flags : String(e) \notin DOMAIN x.h

SoundTables(ts) ==
  /\ \E T : ts \in Seq(T)
  /\ \A t \in DOMAIN ts : SoundTable(ts[t])

SoundHeap(g) ==
  /\ g = [closures |-> g.closures, upvals |-> g.upvals, tables |-> g.tables, out |-> g.out]
  /\ SoundTables(g.tables)

Sound(m) == m = [l |-> m.l, g |-> m.g] /\ SoundHeap(m.g)

-----------------------------------------------------------------------------
(* Tables.                                                                 *)

\* One table changes.
LEMMA TableChanges ==
  ASSUME NEW ts, SoundTables(ts), NEW t, NEW x, t \in DOMAIN ts => SoundTable(x)
  PROVE  SoundTables([ts EXCEPT ![t] = x])
<1>1. PICK T : ts \in Seq(T)
  BY DEF SoundTables
<1> DEFINE us == [ts EXCEPT ![t] = x]
<1>2. us \in Seq(T \cup {x}) /\ DOMAIN us = DOMAIN ts
  <2> DEFINE n == Len(ts)
             U == T \cup {x}
  <2>1. n \in Nat /\ ts \in [1..n -> T] /\ DOMAIN ts = 1..n
    BY <1>1
  <2>2. us \in [1..n -> U]
    BY <2>1
  <2> HIDE DEF us, U, n
  <2>3. us \in Seq(U)
    BY <2>1, <2>2
  <2>4. QED
    BY <2>1, <2>2, <2>3 DEF U
<1>3. ASSUME NEW i \in DOMAIN us PROVE SoundTable(us[i])
  <2>1. CASE i = t
    BY <1>2, <2>1
  <2>2. CASE i # t
    BY <1>2, <2>2 DEF SoundTables
  <2>3. QED
    BY <2>1, <2>2
<1>4. QED
  BY <1>2, <1>3 DEF SoundTables

\* The fields.
LEMMA FieldsNoNil ==
  ASSUME NEW h, NEW new
  PROVE  LET f == Fields(h, new) IN
         /\ f = [k \in DOMAIN f |-> f[k]]
         /\ \A k \in DOMAIN f : f[k] # Nil
         /\ DOMAIN f \subseteq DOMAIN h \cup DOMAIN new
BY DEF Fields

\* A table whose flags are all cleared, or that gets fields which are no events.
LEMMA TableStores ==
  ASSUME NEW x, SoundTable(x), NEW new, NEW flags,
         \/ flags = {}
         \/ flags = x.flags /\ \A e \in flags : String(e) \notin DOMAIN new
  PROVE  SoundTable([h |-> Fields(x.h, new), mt |-> x.mt, flags |-> flags])
<1> DEFINE f == Fields(x.h, new)
<1>1. f = [k \in DOMAIN f |-> f[k]] /\ (\A k \in DOMAIN f : f[k] # Nil) /\ DOMAIN f \subseteq DOMAIN x.h \cup DOMAIN new
  BY FieldsNoNil
<1> HIDE DEF f
<1>2. \A e \in flags : String(e) \notin DOMAIN f
  BY <1>1 DEF SoundTable
<1> DEFINE y == [h |-> f, mt |-> x.mt, flags |-> flags]
<1>3. y.h = f /\ y.mt = x.mt /\ y.flags = flags
  OBVIOUS
<1>4. SoundTable(y)
  BY <1>1, <1>2, <1>3 DEF SoundTable
<1>5. QED
  BY <1>4 DEF f

-----------------------------------------------------------------------------
(* States and heaps.                                                       *)

\* What changes the thread only.
LEMMA ThreadChanges ==
  ASSUME NEW m, Sound(m), NEW l
  PROVE  Sound([m EXCEPT !.l = l])
BY DEF Sound

LEMMA QuietOps ==
  ASSUME NEW m, Sound(m), NEW a, NEW b
  PROVE  /\ Sound(Top(m, a)) /\ Sound(Later(m, a))
         /\ Sound(Put(m, a, b)) /\ Sound(PutAll(m, a, b))
         /\ Sound([m EXCEPT !.l.ci = a]) /\ Sound([m EXCEPT !.l.status = a])
<1>1. Sound(Top(m, a))
  BY ThreadChanges DEF Top
<1>2. Sound(Later(m, a))
  BY ThreadChanges DEF Later
<1>3. ASSUME NEW vs PROVE Sound(PutAll(m, a, vs))
  BY ThreadChanges DEF PutAll
<1>4. Sound(Put(m, a, b))
  BY <1>3 DEF Put
<1>5. Sound([m EXCEPT !.l.ci = a]) /\ Sound([m EXCEPT !.l.status = a])
  BY ThreadChanges
<1>6. QED
  BY <1>1, <1>2, <1>3, <1>4, <1>5

LEMMA Jumps ==
  ASSUME NEW m, Sound(m), NEW a
  PROVE  Sound(dojump(m, a)) /\ Sound(CondJump(m, a))
<1>1. ASSUME NEW x PROVE Sound(dojump(m, x))
  BY ThreadChanges DEF dojump
<1>2. QED
  BY <1>1 DEF CondJump

LEMMA EnterSound ==
  ASSUME NEW m, Sound(m), NEW func, NEW base, NEW sz, NEW nresults, NEW cont, NEW c
  PROVE  Sound(Enter(m, func, base, sz, nresults, cont, c))
BY ThreadChanges DEF Enter

\* What changes closures, upvalues and the output only.
LEMMA HeapOps ==
  ASSUME NEW g, SoundHeap(g), NEW x
  PROVE  /\ SoundHeap([g EXCEPT !.closures = x])
         /\ SoundHeap([g EXCEPT !.upvals = x])
         /\ SoundHeap([g EXCEPT !.out = x])
BY DEF SoundHeap

LEMMA HeapChanges ==
  ASSUME NEW m, Sound(m), NEW g, SoundHeap(g)
  PROVE  Sound([m EXCEPT !.g = g])
BY DEF Sound

LEMMA TablesChange ==
  ASSUME NEW g, SoundHeap(g), NEW ts, SoundTables(ts)
  PROVE  SoundHeap([g EXCEPT !.tables = ts])
BY DEF SoundHeap

LEMMA UpvalsChange ==
  ASSUME NEW m, Sound(m), NEW x
  PROVE  Sound([m EXCEPT !.g.upvals = x]) /\ Sound([m EXCEPT !.g.closures = x]) /\ Sound([m EXCEPT !.g.out = x])
<1>1. SoundHeap(m.g)
  BY DEF Sound
<1>2. Sound([m EXCEPT !.g.upvals = x])
  BY <1>1, HeapOps, HeapChanges
<1>3. Sound([m EXCEPT !.g.closures = x])
  BY <1>1, HeapOps, HeapChanges
<1>4. Sound([m EXCEPT !.g.out = x])
  BY <1>1, HeapOps, HeapChanges
<1>5. QED
  BY <1>2, <1>3, <1>4

LEMMA UpvalOps ==
  ASSUME NEW m, Sound(m), NEW a
  PROVE  Sound(luaF_close(m, a)) /\ Sound(luaF_findupval(m, a))
<1>1. Sound(luaF_close(m, a))
  BY UpvalsChange DEF luaF_close
<1>2. Sound(luaF_findupval(m, a))
  BY UpvalsChange DEF luaF_findupval
<1>3. QED
  BY <1>1, <1>2

\* A table is written to and its flags are cleared, or its fields are no events.
LEMMA SetSound ==
  ASSUME NEW g, SoundHeap(g), NEW t, NEW k, NEW v
  PROVE  SoundHeap([luaH_set(g, t, k, v) EXCEPT !.tables[t[2]].flags = {}])
<1> DEFINE i == t[2]
           ts == g.tables
           new == [x \in {k} |-> v]
           y == [h |-> Fields(ts[i].h, new), mt |-> ts[i].mt, flags |-> {}]
           us == [ts EXCEPT ![i] = y]
<1>1. SoundTables(ts) /\ g = [closures |-> g.closures, upvals |-> g.upvals, tables |-> ts, out |-> g.out]
  BY DEF SoundHeap
<1>2. i \in DOMAIN ts => SoundTable(y)
  <2>1. i \in DOMAIN ts => SoundTable(ts[i])
    BY <1>1 DEF SoundTables
  <2> HIDE DEF new
  <2>2. QED
    BY <2>1, TableStores
<1>3. SoundTables(us)
  <2> HIDE DEF y
  <2>1. QED BY <1>1, <1>2, TableChanges
<1>4. SoundHeap([g EXCEPT !.tables = us])
  <2> HIDE DEF us
  <2>1. QED BY <1>3, TablesChange
<1>5. [luaH_set(g, t, k, v) EXCEPT !.tables[t[2]].flags = {}] = [g EXCEPT !.tables = us]
  <2>1. i \in DOMAIN ts => ts[i] = [h |-> ts[i].h, mt |-> ts[i].mt, flags |-> ts[i].flags]
    BY <1>1 DEF SoundTables, SoundTable
  <2>2. ts = [x \in DOMAIN ts |-> ts[x]]
    BY <1>1 DEF SoundTables
  <2> HIDE DEF new
  <2>3. [[ts EXCEPT ![i].h = Fields(@, new)] EXCEPT ![i].flags = {}] = us
    BY <2>1, <2>2
  <2>4. QED
    BY <1>1, <2>3 DEF luaH_set, new
<1>6. QED
  BY <1>4, <1>5

\* New tables.
LEMMA NewSound ==
  ASSUME NEW g, SoundHeap(g)
  PROVE  /\ SoundHeap(luaH_new(g))
         /\ Len(g.tables) \in Nat
         /\ luaH_new(g).tables = Append(g.tables, [h |-> <<>>, mt |-> 0, flags |-> FastEvents])
<1> DEFINE ts == g.tables
           y == [h |-> <<>>, mt |-> 0, flags |-> FastEvents]
<1>1. SoundTable(y)
  <2>1. y.h = <<>> /\ DOMAIN <<>> = {} /\ y.h = [k \in DOMAIN y.h |-> y.h[k]]
    OBVIOUS
  <2>2. y = [h |-> y.h, mt |-> y.mt, flags |-> y.flags]
    OBVIOUS
  <2>3. QED
    BY <2>1, <2>2 DEF SoundTable
<1>2. SoundTables(ts)
  BY DEF SoundHeap
<1>3. PICK T : ts \in Seq(T)
  BY <1>2 DEF SoundTables
<1> DEFINE us == Append(ts, y)
<1>4. us \in Seq(T \cup {y}) /\ Len(ts) \in Nat /\ DOMAIN us = 1..Len(ts) + 1
      /\ DOMAIN ts = 1..Len(ts)
      /\ (\A i \in 1..Len(ts) : us[i] = ts[i]) /\ us[Len(ts) + 1] = y
  <2> HIDE DEF y
  <2>1. ts \in Seq(T \cup {y})
    BY <1>3
  <2>2. QED
    BY <1>3, <2>1
<1>5. ASSUME NEW i \in DOMAIN us PROVE SoundTable(us[i])
  <2>1. CASE i \in 1..Len(ts)
    BY <1>2, <1>4, <2>1 DEF SoundTables
  <2>2. CASE i = Len(ts) + 1
    BY <1>1, <1>4, <2>2
  <2>3. QED
    BY <1>4, <2>1, <2>2
<1>6. SoundTables(us)
  BY <1>4, <1>5 DEF SoundTables
<1>7. luaH_new(g) = [g EXCEPT !.tables = us]
  BY DEF luaH_new
<1>8. SoundHeap(luaH_new(g))
  <2> HIDE DEF us
  <2>1. QED BY <1>6, <1>7, TablesChange
<1>9. g = [closures |-> g.closures, upvals |-> g.upvals, tables |-> g.tables, out |-> g.out]
  BY DEF SoundHeap
<1>10. luaH_new(g).tables = us
  <2> HIDE DEF us
  <2>1. QED BY <1>7, <1>9
<1>11. QED
  BY <1>4, <1>8, <1>10

\* Fields that are no events.
LEMMA FieldsSound ==
  ASSUME NEW g, SoundHeap(g), NEW i, NEW new,
         i \in DOMAIN g.tables => \A e \in g.tables[i].flags : String(e) \notin DOMAIN new
  PROVE  SoundHeap([g EXCEPT !.tables[i].h = Fields(@, new)])
<1> DEFINE ts == g.tables
           y == [h |-> Fields(ts[i].h, new), mt |-> ts[i].mt, flags |-> ts[i].flags]
           us == [ts EXCEPT ![i] = y]
<1>1. SoundTables(ts) /\ g = [closures |-> g.closures, upvals |-> g.upvals, tables |-> ts, out |-> g.out]
  BY DEF SoundHeap
<1>2. i \in DOMAIN ts => SoundTable(y)
  <2>1. i \in DOMAIN ts => SoundTable(ts[i])
    BY <1>1 DEF SoundTables
  <2>2. QED
    BY <2>1, TableStores
<1>3. SoundTables(us)
  <2> HIDE DEF y
  <2>1. QED BY <1>1, <1>2, TableChanges
<1>4. SoundHeap([g EXCEPT !.tables = us])
  <2> HIDE DEF us
  <2>1. QED BY <1>3, TablesChange
<1>5. [ts EXCEPT ![i].h = Fields(@, new)] = us
  <2>1. i \in DOMAIN ts => ts[i] = [h |-> ts[i].h, mt |-> ts[i].mt, flags |-> ts[i].flags]
    BY <1>1 DEF SoundTables, SoundTable
  <2>2. ts = [x \in DOMAIN ts |-> ts[x]]
    BY <1>1 DEF SoundTables
  <2>3. QED
    BY <2>1, <2>2
<1>6. QED
  BY <1>4, <1>5

\* setmetatable.
LEMMA MetatableSound ==
  ASSUME NEW g, SoundHeap(g), NEW i, NEW mt
  PROVE  SoundHeap([g EXCEPT !.tables[i].mt = mt])
<1> DEFINE ts == g.tables
           y == [h |-> ts[i].h, mt |-> mt, flags |-> ts[i].flags]
           us == [ts EXCEPT ![i] = y]
<1>1. SoundTables(ts)
  BY DEF SoundHeap
<1>2. i \in DOMAIN ts => SoundTable(y)
  BY <1>1 DEF SoundTables, SoundTable
<1>3. SoundTables(us)
  <2> HIDE DEF y
  <2>1. QED BY <1>1, <1>2, TableChanges
<1>4. SoundHeap([g EXCEPT !.tables = us])
  <2> HIDE DEF us
  <2>1. QED BY <1>3, TablesChange
<1>5. [ts EXCEPT ![i].mt = mt] = us
  <2>1. i \in DOMAIN ts => ts[i] = [h |-> ts[i].h, mt |-> ts[i].mt, flags |-> ts[i].flags]
    BY <1>1 DEF SoundTables, SoundTable
  <2>2. ts = [x \in DOMAIN ts |-> ts[x]]
    BY <1>1 DEF SoundTables
  <2>3. QED
    BY <2>1, <2>2
<1>6. QED
  BY <1>4, <1>5

\* A search that finds nothing leaves a flag that is right.
LEMMA FastSound ==
  ASSUME NEW g, SoundHeap(g), NEW mt, NEW event
  PROVE  SoundHeap(fasttm(g, mt, event).g)
<1> DEFINE ts == g.tables
           y == [h |-> ts[mt].h, mt |-> ts[mt].mt, flags |-> ts[mt].flags \cup {event}]
           us == [ts EXCEPT ![mt] = y]
           tm == luaH_get(g, <<"table", mt>>, String(event))
<1>1. SoundTables(ts)
  BY DEF SoundHeap
<1>2. CASE tm = Nil
  <2>1. mt \in DOMAIN ts => SoundTable(y)
    <3> SUFFICES ASSUME mt \in DOMAIN ts PROVE SoundTable(y)
      OBVIOUS
    <3>1. SoundTable(ts[mt])
      BY <1>1 DEF SoundTables
    <3>2. String(event) \notin DOMAIN ts[mt].h
      BY <1>2, <3>1 DEF SoundTable, luaH_get
    <3>3. y.h = ts[mt].h /\ y.mt = ts[mt].mt /\ y.flags = ts[mt].flags \cup {event}
      OBVIOUS
    <3>4. QED
      BY <3>1, <3>2, <3>3 DEF SoundTable
  <2>2. SoundTables(us)
    <3> HIDE DEF y
    <3>1. QED BY <1>1, <2>1, TableChanges
  <2>3. SoundHeap([g EXCEPT !.tables = us])
    <3> HIDE DEF us
    <3>1. QED BY <2>2, TablesChange
  <2>4. [ts EXCEPT ![mt].flags = @ \cup {event}] = us
    <3>1. mt \in DOMAIN ts => ts[mt] = [h |-> ts[mt].h, mt |-> ts[mt].mt, flags |-> ts[mt].flags]
      BY <1>1 DEF SoundTables, SoundTable
    <3>2. ts = [x \in DOMAIN ts |-> ts[x]]
      BY <1>1 DEF SoundTables
    <3>3. QED
      BY <3>1, <3>2
  <2>5. SoundHeap([g EXCEPT !.tables[mt].flags = @ \cup {event}])
    BY <2>3, <2>4
  <2>6. QED
    BY <2>5 DEF fasttm
<1>3. CASE tm # Nil
  BY <1>3 DEF fasttm
<1>4. QED
  BY <1>2, <1>3

-----------------------------------------------------------------------------
(* Calls and returns.                                                      *)

\* The table that a vararg function of Lua 5.0 has for its arguments.
LEMMA VarargsSound ==
  ASSUME NEW m, Sound(m), NEW p, NEW actual
  PROVE  Sound(adjust_varargs(m, p, actual).m)
<1> DEFINE nfix  == p.numparams
           n0    == PutAll(m, m.l.top, Nils(nfix - actual))
           got   == IF actual < nfix THEN nfix ELSE actual
           topp  == m.l.top + got - actual
           nvar  == got - nfix
           arg   == [k \in {Number(i) : i \in 1..nvar} \cup {String("n")} |->
                       IF k = String("n") THEN Number(nvar) ELSE m.l.stack[topp - nvar + k[2] - 1]]
           fixed == Values(n0, topp - got, nfix)
           n1    == PutAll(PutAll(n0, topp, fixed), topp - got, Nils(nfix))
           htab  == Len(m.g.tables) + 1
           g     == luaH_new(m.g)
           n2    == [n1 EXCEPT !.g = [g EXCEPT !.tables[htab].h = Fields(@, arg)]]
           n3    == Put(n2, topp + nfix, <<"table", htab>>)
           r     == IF "NEEDSARG" \in p.is_vararg THEN Top(n3, topp + nfix + 1) ELSE Top(n1, topp + nfix)
<1>1. adjust_varargs(m, p, actual).m = r
  BY DEF adjust_varargs
<1>2. Sound(n1) /\ n1.g = m.g
  <2>1. ASSUME NEW n, Sound(n), NEW at, NEW vs PROVE Sound(PutAll(n, at, vs)) /\ PutAll(n, at, vs).g = n.g
    <3>1. Sound(PutAll(n, at, vs))
      BY <2>1, QuietOps
    <3>2. PutAll(n, at, vs).g = n.g
      BY <2>1 DEF PutAll, Sound
    <3>3. QED
      BY <3>1, <3>2
  <2>2. Sound(n0) /\ n0.g = m.g
    BY <2>1
  <2> HIDE DEF n0
  <2>3. QED
    BY <2>1, <2>2
<1>3. SoundHeap(luaH_new(m.g)) /\ luaH_new(m.g).tables[htab].flags = FastEvents
  <2>1. SoundHeap(m.g)
    BY DEF Sound
  <2>2. /\ SoundHeap(luaH_new(m.g)) /\ Len(m.g.tables) \in Nat
        /\ luaH_new(m.g).tables = Append(m.g.tables, [h |-> <<>>, mt |-> 0, flags |-> FastEvents])
    BY <2>1, NewSound
  <2>3. PICK T : m.g.tables \in Seq(T)
    BY <2>1 DEF SoundHeap, SoundTables
  <2> DEFINE y == [h |-> <<>>, mt |-> 0, flags |-> FastEvents]
             ts == m.g.tables
  <2>4. Append(ts, y)[htab] = y /\ y.flags = FastEvents
    <3>1. y.flags = FastEvents
      OBVIOUS
    <3>2. ts \in Seq(T \cup {y})
      BY <2>3
    <3> HIDE DEF y
    <3>3. QED
      BY <2>2, <3>1, <3>2
  <2>5. QED
    BY <2>2, <2>4
<1>4. \A e \in FastEvents : String(e) \notin DOMAIN arg
  <2>1. DOMAIN arg = {Number(i) : i \in 1..nvar} \cup {String("n")}
    OBVIOUS
  <2>2. ASSUME NEW e \in FastEvents PROVE String(e) # String("n") /\ \A i : String(e) # Number(i)
    BY DEF FastEvents, String, Number
  <2> HIDE DEF arg
  <2>3. QED
    BY <2>1, <2>2
<1>5. Sound(n2)
  <2> HIDE DEF arg, htab, n1, g
  <2>1. SoundHeap([g EXCEPT !.tables[htab].h = Fields(@, arg)])
    BY <1>3, <1>4, FieldsSound DEF g
  <2>2. QED
    BY <1>2, <2>1, HeapChanges
<1> HIDE DEF n2, n1
<1>6. Sound(n3)
  BY <1>5, QuietOps
<1> HIDE DEF n3
<1>7. Sound(r)
  BY <1>2, <1>6, QuietOps
<1>8. QED
  BY <1>1, <1>7

LEMMA PoscallSound ==
  ASSUME NEW m, Sound(m), NEW first
  PROVE  Sound(poscall(m, first))
<1>1. Sound([m EXCEPT !.l.ci = Front(@)])
  BY ThreadChanges
<1> DEFINE n == [m EXCEPT !.l.ci = Front(@)]
<1> HIDE DEF n
<1>2. ASSUME NEW at, NEW vs, NEW a PROVE Sound(Top(PutAll(n, at, vs), a))
  BY <1>1, QuietOps DEF n
<1>3. QED
  BY <1>2 DEF poscall, n

LEMMA ContinueSound ==
  ASSUME NEW m, Sound(m), NEW cont, NEW wanted
  PROVE  Sound(Continue(m, cont, wanted))
<1>1. Sound(AfterCall(m, wanted))
  BY QuietOps DEF AfterCall
<1>2. ASSUME NEW a, NEW b, NEW c, NEW d, NEW vs
      PROVE  /\ Sound(CondJump(Top(m, a), b)) /\ Sound(CondJump(Put(Top(m, a), c, d), b))
             /\ Sound(Later(PutAll(Top(m, a), b, vs), c)) /\ Sound(Later(Put(Top(m, a), b, c), d))
             /\ Sound(Put(Top(m, a), b, c))
  <2>1. Sound(Top(m, a))
    BY QuietOps
  <2>2. Sound(Put(Top(m, a), c, d)) /\ Sound(Put(Top(m, a), b, c)) /\ Sound(PutAll(Top(m, a), b, vs))
    BY <2>1, QuietOps
  <2>3. QED
    BY <2>1, <2>2, QuietOps, Jumps
<1>3. QED
  BY <1>1, <1>2 DEF Continue

LEMMA ReturnSound ==
  ASSUME NEW m, Sound(m), NEW first
  PROVE  Sound(Return(m, first))
<1> DEFINE n == poscall(m, first)
<1>1. Sound(n)
  BY PoscallSound
<1> HIDE DEF n
<1>2. ASSUME NEW out PROVE Sound([n EXCEPT !.l.status = "done", !.g.out = out])
  <2>1. Sound([n EXCEPT !.l.status = "done"])
    BY <1>1, QuietOps
  <2>2. QED
    BY <2>1, UpvalsChange
<1>3. \A cont, wanted : Sound(Continue(n, cont, wanted))
  BY <1>1, ContinueSound
<1>4. CASE Len(m.l.ci) = 1
  BY <1>2, <1>4 DEF Return, n
<1>5. CASE Len(m.l.ci) # 1
  BY <1>3, <1>5 DEF Return, n
<1>6. QED
  BY <1>4, <1>5

LEMMA ErrorSound ==
  ASSUME NEW m, Sound(m), NEW v
  PROVE  Sound(luaG_runerror(m, v)) /\ Sound(Error(m, v))
<1>1. ASSUME NEW x PROVE Sound(luaG_runerror(m, x))
  <2>1. ASSUME NEW st, NEW out PROVE Sound([m EXCEPT !.l.status = st, !.g.out = out])
    <3>1. Sound([m EXCEPT !.l.status = st])
      BY QuietOps
    <3>2. QED
      BY <3>1, UpvalsChange
  <2>2. ASSUME NEW frames, NEW a, NEW b, NEW c, NEW vs, NEW d
        PROVE  Sound(Return(PutAll(Top(Put(luaF_close([m EXCEPT !.l.ci = frames], a), a, b), c), a, vs), d))
    <3>1. Sound([m EXCEPT !.l.ci = frames])
      BY QuietOps
    <3>2. Sound(luaF_close([m EXCEPT !.l.ci = frames], a))
      BY <3>1, UpvalOps
    <3>3. Sound(Put(luaF_close([m EXCEPT !.l.ci = frames], a), a, b))
      BY <3>2, QuietOps
    <3>4. Sound(Top(Put(luaF_close([m EXCEPT !.l.ci = frames], a), a, b), c))
      BY <3>3, QuietOps
    <3>5. Sound(PutAll(Top(Put(luaF_close([m EXCEPT !.l.ci = frames], a), a, b), c), a, vs))
      BY <3>4, QuietOps
    <3>6. QED
      BY <3>5, ReturnSound
  <2>3. QED
    BY <2>1, <2>2 DEF luaG_runerror
<1>2. QED
  BY <1>1 DEF Error

LEMMA CfunctionSound ==
  ASSUME NEW g, SoundHeap(g), NEW name, NEW args
  PROVE  SoundHeap(cfunction(g, name, args).g)
<1>1. ASSUME NEW out PROVE SoundHeap([g EXCEPT !.out = out])
  BY HeapOps
<1>2. ASSUME NEW a, NEW b, NEW c PROVE SoundHeap([luaH_set(g, a, b, c) EXCEPT !.tables[a[2]].flags = {}])
  BY SetSound
<1>3. ASSUME NEW a, NEW mt PROVE SoundHeap([g EXCEPT !.tables[a[2]].mt = mt])
  BY MetatableSound
<1> DEFINE a == IF Len(args) > 0 THEN args[1] ELSE Nil
           b == IF Len(args) > 1 THEN args[2] ELSE Nil
           c == IF Len(args) > 2 THEN args[3] ELSE Nil
<1>4. CASE name = "emit"
  BY <1>1, <1>4 DEF cfunction
<1>5. CASE name = "rawget"
  BY <1>5 DEF cfunction
<1>6. CASE name = "rawset"
  <2>1. cfunction(g, name, args).g = [luaH_set(g, a, b, c) EXCEPT !.tables[a[2]].flags = {}]
    BY <1>6 DEF cfunction
  <2> HIDE DEF a, b, c
  <2>2. QED
    BY <1>2, <2>1
<1>7. CASE name \notin {"emit", "rawget", "rawset"}
  <2>1. cfunction(g, name, args).g = [g EXCEPT !.tables[a[2]].mt = IF b = Nil THEN 0 ELSE b[2]]
    BY <1>7 DEF cfunction
  <2> HIDE DEF a, b, c
  <2>2. QED
    BY <1>3, <2>1
<1>8. QED
  BY <1>4, <1>5, <1>6, <1>7

LEMMA PutUnderSound ==
  ASSUME NEW m, Sound(m)
  PROVE  Sound(PutUnder(m))
<1>1. ASSUME NEW a, NEW b, NEW vs, NEW frames, NEW t
      PROVE  Sound([PutAll(luaF_close(m, a), b, vs) EXCEPT !.l.ci = frames, !.l.top = t])
  <2> DEFINE n == PutAll(luaF_close(m, a), b, vs)
  <2>1. Sound(luaF_close(m, a))
    BY UpvalOps
  <2>2. Sound(n)
    BY <2>1, QuietOps
  <2> HIDE DEF n
  <2>3. Sound([n EXCEPT !.l.ci = frames])
    BY <2>2, QuietOps
  <2>4. Sound([n EXCEPT !.l.ci = frames, !.l.top = t])
    BY <2>3, ThreadChanges
  <2>5. QED
    BY <2>4 DEF n
<1>2. QED
  BY <1>1 DEF PutUnder

LEMMA PrecallSound ==
  ASSUME NEW m, Sound(m), NEW func, NEW nresults, NEW cont
  PROVE  Sound(precall(m, func, nresults, cont))
<1> DEFINE f     == m.l.stack[func]
           p     == m.g.closures[f[2]].p
           fixed == [m |-> IF m.l.top > func + 1 + p.numparams THEN Top(m, func + 1 + p.numparams) ELSE m,
                     base |-> func + 1]
           x     == IF p.is_vararg = {} THEN fixed ELSE adjust_varargs(m, p, m.l.top - func - 1)
           size  == p.maxstacksize
           n     == Enter(x.m, func, x.base, size, nresults, cont, "Lua")
           lua   == Top(PutAll(n, x.m.l.top, Nils(x.base + size - x.m.l.top)), x.base + size)
           c     == cfunction(m.g, f[2], Values(m, func + 1, m.l.top - func - 1))
           nc    == Enter(m, func, func + 1, m.l.top - func, nresults, cont, f[2])
           back  == [PutAll(nc, m.l.top, c.r) EXCEPT !.g = c.g, !.l.top = @ + Len(c.r)]
<1>1. Sound(lua)
  <2>1. Sound(fixed.m)
    BY QuietOps
  <2>2. Sound(x.m)
    <3> HIDE DEF fixed
    <3>1. QED BY <2>1, VarargsSound
  <2> HIDE DEF x
  <2>3. Sound(n)
    BY <2>2, EnterSound
  <2> HIDE DEF n
  <2>4. ASSUME NEW a, NEW vs, NEW b PROVE Sound(Top(PutAll(n, a, vs), b))
    <3>1. Sound(PutAll(n, a, vs))
      BY <2>3, QuietOps
    <3>2. QED
      BY <3>1, QuietOps
  <2>5. QED
    BY <2>4
<1>2. Sound(nc)
  BY EnterSound
<1>3. Sound(Return(back, m.l.top))
  <2> DEFINE put == PutAll(nc, m.l.top, c.r)
  <2>1. SoundHeap(c.g)
    BY CfunctionSound DEF Sound
  <2> HIDE DEF nc, c
  <2>2. Sound(put)
    BY <1>2, QuietOps
  <2> HIDE DEF put
  <2>3. Sound([put EXCEPT !.g = c.g])
    BY <2>1, <2>2, HeapChanges
  <2>4. ASSUME NEW t PROVE Sound([put EXCEPT !.g = c.g, !.l.top = t])
    BY <2>3, ThreadChanges
  <2>5. Sound(back)
    BY <2>4 DEF put
  <2> HIDE DEF back
  <2>6. QED
    BY <2>5, ReturnSound
<1>4. \A a : Sound(Later(nc, a)) /\ Sound(luaG_runerror(nc, a))
  <2> HIDE DEF nc
  <2>1. QED BY <1>2, QuietOps, ErrorSound
<1>5. Sound(PutUnder(lua))
  <2> HIDE DEF lua
  <2>1. QED BY <1>1, PutUnderSound
<1>6. Sound(Error(m, "call")) /\ \A a : Sound(Later(tryfuncTM(m, func), a))
  <2>1. Sound(tryfuncTM(m, func))
    <3>1. \A a, b, vs : Sound(PutAll(Top(m, a), b, vs))
      <4>1. \A a : Sound(Top(m, a))
        BY QuietOps
      <4>2. QED
        BY <4>1, QuietOps
    <3>2. QED
      BY <3>1 DEF tryfuncTM
  <2>2. QED
    BY <2>1, QuietOps, ErrorSound
<1> DEFINE called == f[1] = "function"
           host   == f[1] = "cfunction"
<1>7. CASE called
  <2>1. precall(m, func, nresults, cont) = IF cont.k = "tail" THEN PutUnder(lua) ELSE lua
    BY <1>7 DEF precall
  <2> HIDE DEF lua
  <2>2. QED
    BY <1>1, <1>5, <2>1
<1>8. CASE host /\ f[2] = "pcall"
  <2>1. precall(m, func, nresults, cont) =
          Later(nc, [k |-> "call", func |-> func + 1, nresults |-> LUA_MULTRET, cont |-> Cont("pcall")])
    BY <1>8 DEF precall
  <2> HIDE DEF nc
  <2>2. QED
    BY <1>4, <2>1
<1>9. CASE host /\ f[2] = "error"
  <2>1. precall(m, func, nresults, cont) = luaG_runerror(nc, m.l.stack[func + 1])
    BY <1>9 DEF precall
  <2> HIDE DEF nc
  <2>2. QED
    BY <1>4, <2>1
<1>10. CASE host /\ f[2] \notin {"pcall", "error"}
  <2>1. precall(m, func, nresults, cont) = Return(back, m.l.top)
    BY <1>10 DEF precall
  <2> HIDE DEF back
  <2>2. QED
    BY <1>3, <2>1
<1>11. CASE ~called /\ ~host
  <2>1. precall(m, func, nresults, cont) =
          IF ttisfunction(luaT_gettmbyobj(m.g, f, "__call"))
          THEN Later(tryfuncTM(m, func), [k |-> "call", func |-> func, nresults |-> nresults, cont |-> cont])
          ELSE Error(m, "call")
    BY <1>11 DEF precall
  <2>2. QED
    BY <1>6, <2>1
<1>12. QED
  <2> HIDE DEF f
  <2>1. QED BY <1>7, <1>8, <1>9, <1>10, <1>11

LEMMA CallTMSound ==
  ASSUME NEW m, Sound(m), NEW f, NEW args, NEW nresults, NEW cont
  PROVE  Sound(callTM(m, f, args, nresults, cont))
<1>1. ASSUME NEW a, NEW vs, NEW b PROVE Sound(Top(PutAll(m, a, vs), b))
  <2>1. Sound(PutAll(m, a, vs))
    BY QuietOps
  <2>2. QED
    BY <2>1, QuietOps
<1>2. QED
  BY <1>1, PrecallSound DEF callTM

-----------------------------------------------------------------------------
(* Metamethods.                                                            *)

LEMMA GettableSound ==
  ASSUME NEW m, Sound(m), NEW t, NEW key, NEW val, NEW loop
  PROVE  Sound(gettable(m, t, key, val, loop))
<1> DEFINE raw  == luaH_get(m.g, t, key)
           fast == fasttm(m.g, m.g.tables[t[2]].mt, "__index")
           n    == [m EXCEPT !.g = fast.g]
<1>1. Sound(n)
  <2>1. SoundHeap(fast.g)
    BY FastSound DEF Sound
  <2> HIDE DEF fast
  <2>2. QED
    BY <2>1, HeapChanges
<1>2. gettable(m, t, key, val, loop) =
        CASE loop = MAXTAGLOOP -> Error(m, "loop")
          [] loop # MAXTAGLOOP /\ ~ttistable(t) -> Error(m, "index")
          [] OTHER ->
               IF raw # Nil THEN Put(m, val, raw)
               ELSE IF fast.tm = Nil THEN Put(n, val, Nil)
               ELSE IF ttisfunction(fast.tm) THEN callTMres(n, val, fast.tm, t, key)
               ELSE Later(n, [k |-> "gettable", t |-> fast.tm, key |-> key, val |-> val, loop |-> loop + 1])
  BY DEF gettable
<1>3. \A e : Sound(Error(m, e))
  BY ErrorSound
<1>4. Sound(Put(m, val, raw))
  BY QuietOps
<1> HIDE DEF n
<1>5. Sound(Put(n, val, Nil)) /\ \A a : Sound(Later(n, a))
  BY <1>1, QuietOps
<1>6. Sound(callTMres(n, val, fast.tm, t, key))
  BY <1>1, CallTMSound DEF callTMres
<1> HIDE DEF fast, raw
<1>7. CASE loop = MAXTAGLOOP
  BY <1>2, <1>3, <1>7
<1>8. CASE loop # MAXTAGLOOP /\ ~ttistable(t)
  BY <1>2, <1>3, <1>8
<1>9. CASE loop # MAXTAGLOOP /\ ttistable(t)
  BY <1>2, <1>4, <1>5, <1>6, <1>9
<1>10. QED
  BY <1>7, <1>8, <1>9

\* The flags of a table are cleared.
LEMMA ClearSound ==
  ASSUME NEW g, SoundHeap(g), NEW i
  PROVE  SoundHeap([g EXCEPT !.tables[i].flags = {}])
<1> DEFINE none == {}
           ts == g.tables
           y == [h |-> ts[i].h, mt |-> ts[i].mt, flags |-> none]
           us == [ts EXCEPT ![i] = y]
<1>1. SoundTables(ts)
  BY DEF SoundHeap
<1>2. i \in DOMAIN ts => SoundTable(y)
  BY <1>1 DEF SoundTables, SoundTable
<1>3. SoundTables(us)
  <2> HIDE DEF y
  <2>1. QED BY <1>1, <1>2, TableChanges
<1>4. SoundHeap([g EXCEPT !.tables = us])
  <2> HIDE DEF us
  <2>1. QED BY <1>3, TablesChange
<1>5. [ts EXCEPT ![i].flags = none] = us
  <2>1. i \in DOMAIN ts => ts[i] = [h |-> ts[i].h, mt |-> ts[i].mt, flags |-> ts[i].flags]
    BY <1>1 DEF SoundTables, SoundTable
  <2>2. ts = [x \in DOMAIN ts |-> ts[x]]
    BY <1>1 DEF SoundTables
  <2> HIDE DEF none
  <2>3. QED
    BY <2>1, <2>2
<1>6. QED
  BY <1>4, <1>5

LEMMA SettableSound ==
  ASSUME NEW m, Sound(m), NEW t, NEW key, NEW val, NEW loop
  PROVE  Sound(settable(m, t, key, val, loop))
<1> DEFINE clean  == [m EXCEPT !.g.tables[t[2]].flags = {}]
           fast   == fasttm(clean.g, m.g.tables[t[2]].mt, "__newindex")
           n      == [m EXCEPT !.g = fast.g]
           set(x) == [x EXCEPT !.g = [luaH_set(x.g, t, key, val) EXCEPT !.tables[t[2]].flags = {}]]
<1>1. Sound(clean)
  <2>1. SoundHeap([m.g EXCEPT !.tables[t[2]].flags = {}])
    BY ClearSound DEF Sound
  <2>2. QED
    BY <2>1, HeapChanges
<1>2. settable(m, t, key, val, loop) =
        CASE loop = MAXTAGLOOP -> Error(m, "loop")
          [] loop # MAXTAGLOOP /\ ~ttistable(t) -> Error(m, "index")
          [] loop # MAXTAGLOOP /\ ttistable(t) /\ key \in {Nil, Number(NaN)} -> Error(clean, "key")
          [] OTHER ->
               IF luaH_get(m.g, t, key) # Nil THEN set(m)
               ELSE IF fast.tm = Nil THEN set(n)
               ELSE IF ttisfunction(fast.tm) THEN callTM(n, fast.tm, <<t, key, val>>, 0, Cont("none"))
               ELSE Later(n, [k |-> "settable", t |-> fast.tm, key |-> key, val |-> val, loop |-> loop + 1])
  BY DEF settable
<1> HIDE DEF clean
<1>3. Sound(n)
  <2>1. SoundHeap(fast.g)
    BY <1>1, FastSound DEF Sound
  <2> HIDE DEF fast
  <2>2. QED
    BY <2>1, HeapChanges
<1> HIDE DEF n
<1>4. ASSUME NEW x, Sound(x) PROVE Sound(set(x))
  <2>1. SoundHeap([luaH_set(x.g, t, key, val) EXCEPT !.tables[t[2]].flags = {}])
    BY <1>4, SetSound DEF Sound
  <2>2. QED
    BY <1>4, <2>1, HeapChanges
<1>5. \A a : Sound(Later(n, a))
  BY <1>3, QuietOps
<1>6. \A e : Sound(Error(m, e)) /\ Sound(Error(clean, e))
  BY <1>1, ErrorSound
<1> HIDE DEF fast, set
<1>7. Sound(callTM(n, fast.tm, <<t, key, val>>, 0, Cont("none")))
  BY <1>3, CallTMSound
<1>8. CASE loop = MAXTAGLOOP
  BY <1>2, <1>6, <1>8
<1>9. CASE loop # MAXTAGLOOP /\ ~ttistable(t)
  BY <1>2, <1>6, <1>9
<1>10. CASE loop # MAXTAGLOOP /\ ttistable(t) /\ key \in {Nil, Number(NaN)}
  BY <1>2, <1>6, <1>10
<1>11. CASE loop # MAXTAGLOOP /\ ttistable(t) /\ key \notin {Nil, Number(NaN)}
  BY <1>2, <1>3, <1>4, <1>5, <1>7, <1>11
<1>12. QED
  BY <1>8, <1>9, <1>10, <1>11

LEMMA BinTMSound ==
  ASSUME NEW m, Sound(m), NEW p1, NEW p2, NEW res, NEW event
  PROVE  Sound(call_binTM(m, p1, p2, res, event))
BY ErrorSound, CallTMSound DEF call_binTM, callTMres

LEMMA ConcatSound ==
  ASSUME NEW m, Sound(m), NEW total, NEW last
  PROVE  Sound(concat(m, total, last))
<1>1. ASSUME NEW a, NEW b PROVE Sound(Put(m, a, b))
  BY QuietOps
<1>2. ASSUME NEW a, NEW b, NEW c PROVE Sound(Later(Put(m, a, b), c))
  BY <1>1, QuietOps
<1>3. Sound(Error(m, "__concat"))
  BY ErrorSound
<1>4. \A f, args, cont : Sound(callTM(m, f, args, 1, cont))
  BY CallTMSound
<1>5. QED
  BY <1>1, <1>2, <1>3, <1>4 DEF concat

-----------------------------------------------------------------------------
(* Instructions.                                                           *)

LEMMA StartOfStep ==
  ASSUME SoundHeap(G)
  PROVE  Sound(M) /\ Sound(N)
<1>1. Sound([l |-> L, g |-> G])
  BY DEF Sound
<1>2. Sound(M)
  BY <1>1, Jumps DEF M
<1>3. Sound(N)
  BY DEF N, Sound
<1>4. QED
  BY <1>2, <1>3

\* Registers, upvalues and jumps.
LEMMA QuietSteps ==
  ASSUME SoundHeap(G),
         Move \/ LoadK \/ LoadBool \/ LoadNil \/ GetUpval \/ SetUpval \/ Not \/ Jmp
         \/ Test \/ TestSet \/ ForLoop \/ Close \/ VarArg
  PROVE  SoundHeap(G')
<1>1. Sound(M)
  BY StartOfStep
<1> HIDE DEF M
<1>2. ASSUME NEW m, Sound(m), Do(m) PROVE SoundHeap(G')
  BY <1>2 DEF Do, Sound
<1>3. ASSUME NEW a, NEW b PROVE Sound(Put(M, a, b)) /\ Sound(PutAll(M, a, b))
  BY <1>1, QuietOps
<1>4. \A a : Sound(dojump(M, a)) /\ Sound(CondJump(M, a))
  BY <1>1, Jumps
<1>5. CASE Move \/ LoadK \/ LoadBool \/ LoadNil \/ Not
  <2>1. \A a, b, c : Sound(dojump(Put(M, a, b), c))
    BY <1>3, Jumps
  <2>2. QED
    BY <1>2, <1>3, <1>5, <2>1 DEF Move, LoadK, LoadBool, LoadNil, Not
<1>6. CASE GetUpval
  BY <1>2, <1>3, <1>6 DEF GetUpval
<1>7. CASE SetUpval
  <2>1. \A u, v : Sound([M EXCEPT !.g.upvals[u].v = v])
    BY <1>1, UpvalsChange
  <2>2. QED
    BY <1>2, <1>3, <1>7, <2>1 DEF SetUpval
<1>8. CASE Jmp \/ Test
  BY <1>2, <1>4, <1>8 DEF Jmp, Test
<1>9. CASE TestSet
  <2>1. \A a, b, c : Sound(CondJump(Put(M, a, b), c))
    BY <1>3, Jumps
  <2>2. QED
    BY <1>2, <1>4, <1>9, <2>1 DEF TestSet
<1>10. CASE ForLoop
  <2>1. \A a, b, c, d : Sound(Put(Put(M, a, b), c, d))
    BY <1>3, QuietOps
  <2>2. \A a, b, c, d, e : Sound(dojump(Put(Put(M, a, b), c, d), e))
    BY <2>1, Jumps
  <2>3. QED
    BY <1>1, <1>2, <1>10, <2>2 DEF ForLoop
<1>11. CASE Close
  <2>1. \A a : Sound(luaF_close(M, a))
    BY <1>1, UpvalOps
  <2>2. QED
    BY <1>2, <1>11, <2>1 DEF Close
<1>12. CASE VarArg
  <2>1. \A a, vs, b : Sound(Top(PutAll(M, a, vs), b))
    BY <1>3, QuietOps
  <2>2. QED
    BY <1>2, <1>3, <1>12, <2>1 DEF VarArg
<1>13. QED
  BY <1>5, <1>6, <1>7, <1>8, <1>9, <1>10, <1>11, <1>12

\* What reads tables and calls metamethods.
LEMMA MetamethodSteps ==
  ASSUME SoundHeap(G),
         GetGlobal \/ SetGlobal \/ GetTable \/ SetTable \/ Self \/ Arith \/ Length \/ Concat \/ Order
  PROVE  SoundHeap(G')
<1>1. Sound(M)
  BY StartOfStep
<1> HIDE DEF M
<1>2. ASSUME NEW m, Sound(m), Do(m) PROVE SoundHeap(G')
  BY <1>2 DEF Do, Sound
<1>3. \A t, k, a, n : Sound(gettable(M, t, k, a, n)) /\ Sound(settable(M, t, k, a, n))
  BY <1>1, GettableSound, SettableSound
<1>4. \A a, b : Sound(Put(M, a, b))
  BY <1>1, QuietOps
<1>5. \A a, b, c, e : Sound(call_binTM(M, a, b, c, e))
  BY <1>1, BinTMSound
<1>6. CASE GetGlobal \/ SetGlobal \/ GetTable \/ SetTable
  BY <1>2, <1>3, <1>6 DEF GetGlobal, SetGlobal, GetTable, SetTable
<1>7. CASE Self
  <2>1. \A a, b, t, k, c, n : Sound(gettable(Put(M, a, b), t, k, c, n))
    BY <1>4, GettableSound
  <2>2. QED
    BY <1>2, <1>7, <2>1 DEF Self
<1>8. CASE Arith
  BY <1>2, <1>4, <1>5, <1>8 DEF Arith
<1>9. CASE Length
  BY <1>2, <1>4, <1>5, <1>9 DEF Length
<1>10. CASE Concat
  <2>1. \A a, b : Sound(concat(M, a, b))
    BY <1>1, ConcatSound
  <2>2. QED
    BY <1>2, <1>10, <2>1 DEF Concat
<1>11. CASE Order
  <2>1. \A a : Sound(CondJump(M, a))
    BY <1>1, Jumps
  <2>2. \A f, args, cont : Sound(callTM(M, f, args, 1, cont))
    BY <1>1, CallTMSound
  <2>3. Sound(Error(M, "compare"))
    BY <1>1, ErrorSound
  <2>4. QED
    BY <1>2, <1>11, <2>1, <2>2, <2>3 DEF Order
<1>12. QED
  BY <1>6, <1>7, <1>8, <1>9, <1>10, <1>11

LEMMA EqualStep ==
  ASSUME SoundHeap(G), Equal
  PROVE  SoundHeap(G')
<1> DEFINE rb == KRK(I.b)
           rc == KRK(I.c)
           t1 == fasttm(G, Mt(rb), "__eq")
           t2 == fasttm(t1.g, Mt(rc), "__eq")
           x  == get_compTM(rb, rc)
           m  == [M EXCEPT !.g = x.g]
<1>1. Sound(M)
  BY StartOfStep
<1> HIDE DEF M
<1>2. Sound(m)
  <2>1. SoundHeap(t1.g)
    BY FastSound
  <2>2. SoundHeap(t2.g)
    <3> HIDE DEF t1
    <3>1. QED BY <2>1, FastSound
  <2>3. x.g \in {t1.g, t2.g}
    <3>1. x = CASE t1.tm = Nil -> t1
                [] t1.tm # Nil /\ Mt(rb) = Mt(rc) -> t1
                [] OTHER -> [tm |-> IF t1.tm = t2.tm THEN t1.tm ELSE Nil, g |-> t2.g]
      BY DEF get_compTM
    <3> HIDE DEF x, t1, t2
    <3>2. QED
      BY <3>1
  <2> HIDE DEF x, t1, t2
  <2>4. SoundHeap(x.g)
    BY <2>1, <2>2, <2>3
  <2>5. QED
    BY <1>1, <2>4, HeapChanges
<1>3. Do(IF ~Tables(rb, rc) THEN CondJump(M, rawequal(rb, rc) <=> I.a = 1)
         ELSE IF rb = rc THEN CondJump(M, I.a = 1)
         ELSE IF x.tm = Nil THEN CondJump(m, I.a = 0)
         ELSE callTM(m, x.tm, <<rb, rc>>, 1, ContAt("test", I.a)))
  BY DEF Equal
<1> HIDE DEF m, rb, rc, x
<1>4. \A a : Sound(CondJump(M, a)) /\ Sound(CondJump(m, a))
  BY <1>1, <1>2, Jumps
<1>5. \A f, args, cont : Sound(callTM(m, f, args, 1, cont))
  BY <1>2, CallTMSound
<1>6. ASSUME NEW n, Sound(n), Do(n) PROVE SoundHeap(G')
  BY <1>6 DEF Do, Sound
<1>7. QED
  BY <1>3, <1>4, <1>5, <1>6

\* What makes tables and closures.
LEMMA MakingSteps ==
  ASSUME SoundHeap(G), NewTable \/ SetList \/ Closure
  PROVE  SoundHeap(G')
<1>1. Sound(M)
  BY StartOfStep
<1> HIDE DEF M
<1>2. ASSUME NEW m, Sound(m), Do(m) PROVE SoundHeap(G')
  BY <1>2 DEF Do, Sound
<1>3. CASE NewTable
  <2> DEFINE m == [M EXCEPT !.g = luaH_new(@)]
  <2>1. SoundHeap(luaH_new(M.g))
    BY <1>1, NewSound DEF Sound
  <2>2. Sound(m)
    BY <1>1, <2>1, HeapChanges
  <2>3. Do(Put(m, RA, <<"table", Len(G.tables) + 1>>))
    BY <1>3 DEF NewTable
  <2> HIDE DEF m
  <2>4. QED
    BY <1>2, <2>2, <2>3, QuietOps
<1>4. CASE SetList
  <2> DEFINE n    == IF I.b = 0 THEN L.top - RA - 1 ELSE I.b
             m    == IF I.b = 0 THEN Top(M, ci.top) ELSE M
             from == (I.c - 1) * LFIELDS_PER_FLUSH
             new  == [k \in {Number(from + j) : j \in 1..n} |-> L.stack[RA + k[2] - from]]
             i    == L.stack[RA][2]
  <2>1. Sound(m)
    BY <1>1, QuietOps
  <2>2. \A e : String(e) \notin DOMAIN new
    <3>1. DOMAIN new = {Number(from + j) : j \in 1..n}
      OBVIOUS
    <3>2. \A e, j : String(e) # Number(j)
      BY DEF String, Number
    <3> HIDE DEF new
    <3>3. QED
      BY <3>1, <3>2
  <2>3. Do([m EXCEPT !.g.tables[i].h = Fields(@, new)])
    BY <1>4 DEF SetList
  <2> HIDE DEF m, new, i
  <2>4. SoundHeap([m.g EXCEPT !.tables[i].h = Fields(@, new)])
    BY <2>1, <2>2, FieldsSound DEF Sound
  <2>5. Sound([m EXCEPT !.g.tables[i].h = Fields(@, new)])
    BY <2>1, <2>4, HeapChanges
  <2>6. QED
    BY <1>2, <2>3, <2>5
<1>5. CASE Closure
  <2>1. \A a : Sound(luaF_findupval(M, a))
    BY <1>1, UpvalOps
  <2>2. \A a, b : Sound([luaF_findupval(M, a) EXCEPT !.g.closures = Append(@, b)])
    BY <2>1, UpvalsChange
  <2>3. \A a, b, c, d : Sound(Put([luaF_findupval(M, a) EXCEPT !.g.closures = Append(@, b)], c, d))
    BY <2>2, QuietOps
  <2>4. \A a, b, c, d, e : Sound(dojump(Put([luaF_findupval(M, a) EXCEPT !.g.closures = Append(@, b)], c, d), e))
    BY <2>3, Jumps
  <2>5. QED
    BY <1>2, <1>5, <2>4 DEF Closure
<1>6. QED
  BY <1>3, <1>4, <1>5

\* Calls and returns.
LEMMA CallSteps ==
  ASSUME SoundHeap(G), Call \/ TailCall \/ ReturnOp \/ ForPrep \/ TForLoop
  PROVE  SoundHeap(G')
<1>1. Sound(M)
  BY StartOfStep
<1> HIDE DEF M
<1>2. ASSUME NEW m, Sound(m), Do(m) PROVE SoundHeap(G')
  BY <1>2 DEF Do, Sound
<1>3. CASE Call \/ TailCall
  <2>1. Sound(OpenTop)
    BY <1>1, QuietOps DEF OpenTop
  <2>2. \A a, b, c : Sound(precall(OpenTop, a, b, c))
    BY <2>1, PrecallSound
  <2>3. QED
    BY <1>2, <1>3, <2>2 DEF Call, TailCall
<1>4. CASE ReturnOp
  <2> DEFINE m == IF I.b # 0 THEN Top(M, RA + I.b - 1) ELSE M
  <2>1. Sound(m)
    BY <1>1, QuietOps
  <2>2. Do(Return(luaF_close(m, ci.base), RA))
    BY <1>4 DEF ReturnOp
  <2> HIDE DEF m
  <2>3. Sound(luaF_close(m, ci.base))
    BY <2>1, UpvalOps
  <2>4. Sound(Return(luaF_close(m, ci.base), RA))
    BY <2>3, ReturnSound
  <2>5. QED
    BY <1>2, <2>2, <2>4
<1>5. CASE ForPrep
  <2>1. \A a, vs : Sound(PutAll(M, a, vs))
    BY <1>1, QuietOps
  <2>2. \A a, vs, b : Sound(dojump(PutAll(M, a, vs), b))
    BY <2>1, Jumps
  <2>3. Sound(Error(M, "for"))
    BY <1>1, ErrorSound
  <2>4. QED
    BY <1>2, <1>5, <2>2, <2>3 DEF ForPrep
<1>6. CASE TForLoop
  <2>1. \A a, vs : Sound(PutAll(M, a, vs))
    BY <1>1, QuietOps
  <2>2. \A a, vs, b : Sound(Top(PutAll(M, a, vs), b))
    BY <2>1, QuietOps
  <2>3. \A a, vs, b, c, d, e : Sound(precall(Top(PutAll(M, a, vs), b), c, d, e))
    BY <2>2, PrecallSound
  <2>4. QED
    BY <1>2, <1>6, <2>3 DEF TForLoop
<1>7. QED
  BY <1>3, <1>4, <1>5, <1>6

\* What C code does next.
LEMMA NextSteps ==
  ASSUME SoundHeap(G), CallNext \/ ReturnNext \/ ConcatNext \/ GetNext \/ SetNext
  PROVE  SoundHeap(G')
<1>1. Sound(N)
  BY StartOfStep
<1> HIDE DEF N
<1>2. ASSUME NEW m, Sound(m), Do(m) PROVE SoundHeap(G')
  BY <1>2 DEF Do, Sound
<1>3. \A a, b, c : Sound(precall(N, a, b, c))
  BY <1>1, PrecallSound
<1>4. \A a, b : Sound(Return(N, a)) /\ Sound(concat(N, a, b))
  BY <1>1, ReturnSound, ConcatSound
<1>5. \A t, k, a, n : Sound(gettable(N, t, k, a, n)) /\ Sound(settable(N, t, k, a, n))
  BY <1>1, GettableSound, SettableSound
<1>6. QED
  BY <1>2, <1>3, <1>4, <1>5 DEF CallNext, ReturnNext, ConcatNext, GetNext, SetNext

\* The heap that the host's call starts with.
LEMMA HostStep ==
  ASSUME NEW p, NEW cfunctions, NEW args, Host(p, cfunctions, args)
  PROVE  SoundHeap(G')
<1> DEFINE m  == Loaded(p, cfunctions, args)
           x  == [h |-> [k \in {String(c) : c \in cfunctions} |-> <<"cfunction", k[2]>>],
                  mt |-> 0, flags |-> {}]
<1>1. m = [l |-> m.l, g |-> m.g]
      /\ m.g = [closures |-> m.g.closures, upvals |-> m.g.upvals, tables |-> m.g.tables, out |-> m.g.out]
      /\ m.g.tables = <<x>>
  BY DEF Loaded
<1>2. SoundTable(x)
  <2>1. x.flags = {} /\ x = [h |-> x.h, mt |-> x.mt, flags |-> x.flags] /\ x.h = [k \in DOMAIN x.h |-> x.h[k]]
    OBVIOUS
  <2>2. \A k \in DOMAIN x.h : x.h[k] # Nil
    BY DEF Nil
  <2> HIDE DEF x
  <2>3. QED
    BY <2>1, <2>2 DEF SoundTable
<1> HIDE DEF x, m
<1>3. SoundTables(<<x>>)
  <2>1. <<x>> \in Seq({x}) /\ DOMAIN <<x>> = 1..1 /\ <<x>>[1] = x
    OBVIOUS
  <2> DEFINE ts == <<x>>
  <2>2. \E T : ts \in Seq(T)
    BY <2>1
  <2>3. \A t \in DOMAIN ts : SoundTable(ts[t])
    BY <1>2, <2>1
  <2> HIDE DEF ts
  <2>4. SoundTables(ts)
    BY <2>2, <2>3 DEF SoundTables
  <2>5. QED
    BY <2>4 DEF ts
<1>4. Sound(m)
  BY <1>1, <1>3 DEF Sound, SoundHeap
<1>5. Sound(precall(m, 1, LUA_MULTRET, Cont("host")))
  BY <1>4, PrecallSound
<1>6. Do(precall(m, 1, LUA_MULTRET, Cont("host")))
  BY DEF Host, m
<1>7. QED
  BY <1>5, <1>6 DEF Do, Sound

-----------------------------------------------------------------------------
(* The invariant.                                                          *)

\* The tables of a thread that has started: nil is not stored, and the flags of a
\* table are events that it has no field for.
HeapInv == L.status # "idle" => SoundHeap(G)

\* HeapInv is an invariant of the virtual machine, whatever code it runs: every
\* instruction, call, return and error keeps it (lvm.c, ldo.c, ltm.c, lfunc.c).
THEOREM HeapInvariance == VMSpec => []HeapInv
<1>1. VMInit => HeapInv
  BY DEF VMInit, HeapInv
<1>2. HeapInv /\ [VMNext]_vmVars => HeapInv'
  <2>1. ASSUME SoundHeap(G), VMNext PROVE SoundHeap(G')
    <3>1. CASE \E p, cfunctions, args : Host(p, cfunctions, args)
      BY <3>1, HostStep
    <3>2. CASE Move \/ LoadK \/ LoadBool \/ LoadNil \/ GetUpval \/ SetUpval \/ Not \/ Jmp
               \/ Test \/ TestSet \/ ForLoop \/ Close \/ VarArg
      BY <2>1, <3>2, QuietSteps
    <3>3. CASE GetGlobal \/ SetGlobal \/ GetTable \/ SetTable \/ Self \/ Arith \/ Length \/ Concat \/ Order
      BY <2>1, <3>3, MetamethodSteps
    <3>4. CASE Equal
      BY <2>1, <3>4, EqualStep
    <3>5. CASE NewTable \/ SetList \/ Closure
      BY <2>1, <3>5, MakingSteps
    <3>6. CASE Call \/ TailCall \/ ReturnOp \/ ForPrep \/ TForLoop
      BY <2>1, <3>6, CallSteps
    <3>7. CASE CallNext \/ ReturnNext \/ ConcatNext \/ GetNext \/ SetNext
      BY <2>1, <3>7, NextSteps
    <3>8. QED
      BY <2>1, <3>1, <3>2, <3>3, <3>4, <3>5, <3>6, <3>7 DEF VMNext
  <2>2. ASSUME L.status = "idle", VMNext PROVE SoundHeap(G')
    <3>1. \E p, cfunctions, args : Host(p, cfunctions, args)
      BY <2>2 DEF VMNext, Move, LoadK, LoadBool, LoadNil, GetUpval, SetUpval, GetGlobal, SetGlobal,
                  GetTable, SetTable, NewTable, Self, Arith, Not, Length, Concat, Jmp, Equal, Order,
                  Test, TestSet, Call, TailCall, ReturnOp, ForPrep, ForLoop, TForLoop, SetList, Close,
                  Closure, VarArg, CallNext, ReturnNext, ConcatNext, GetNext, SetNext, At, Running, Todo
    <3>2. QED
      BY <3>1, HostStep
  <2>3. ASSUME HeapInv, UNCHANGED vmVars PROVE HeapInv'
    BY <2>3 DEF HeapInv, vmVars, SoundHeap
  <2>4. QED
    BY <2>1, <2>2, <2>3 DEF HeapInv
<1>3. QED
  BY <1>1, <1>2, PTL DEF VMSpec

\* A flag of a metatable is an event that it has no metamethod for: no store, call
\* or search leaves a flag that hides one (luaT_gettm, luaH_set, luaV_settable,
\* OP_SETLIST, lua_rawset).
THEOREM FlagsAlwaysSound == VMSpec => []FlagsSound
<1>1. HeapInv => FlagsSound
  BY DEF HeapInv, FlagsSound, SoundHeap, SoundTables, SoundTable
<1>2. QED
  BY <1>1, HeapInvariance, PTL
=============================================================================

-------------------------------- MODULE LuaVM --------------------------------
(***************************************************************************)
(* The virtual machine: luaV_execute (lvm.c) with calls and errors         *)
(* (ldo.c), upvalues (lfunc.c) and metamethods (ltm.c), for one thread.    *)
(* L is the lua_State, whose stack keeps the values that are left in it,   *)
(* and G what all threads share.  m, a record of both, is what a C         *)
(* function takes and leaves.                                              *)
(*                                                                         *)
(* A call that C code makes runs a luaV_execute of its own: the frame's    *)
(* cont says what the C code does with the results.  What C code does      *)
(* after a step, before the next instruction, is in todo.                  *)
(***************************************************************************)
EXTENDS LuaOpcodes, LuaValue, Sequences, SequencesExt

VARIABLES L, G
vmVars == <<L, G>>

MAXTAGLOOP == 100

Garbage == <<"garbage", 0>>

Nothing == [k |-> "nothing"]

\* The state in which the host calls the function p with the arguments args.
Loaded(p, cfunctions, args) ==
  [l |-> [stack  |-> << <<"function", 1>> >> \o args
                       \o [i \in 1..p.maxstacksize + Len(args) + 1 |-> Garbage],
          top    |-> Len(args) + 2,
          ci     |-> <<>>,
          todo   |-> Nothing,
          status |-> "run"],
   g |-> [closures |-> << [p |-> p, upvals |-> <<>>] >>,
          upvals   |-> <<>>,
          tables   |-> << [h  |-> [k \in {String(c) : c \in cfunctions} |-> <<"cfunction", k[2]>>],
                           mt |-> 0, flags |-> {}] >>,
          out      |-> <<>>]]

-----------------------------------------------------------------------------
(* The stack and the heap.                                                 *)

\* A stack with the values vs from a position on.
Written(stack, at, vs) ==
  LET last == at + Len(vs) - 1 IN
  [j \in 1..IF last < Len(stack) THEN Len(stack) ELSE last |->
     IF at <= j /\ j <= last THEN vs[j - at + 1]
     ELSE IF j <= Len(stack) THEN stack[j] ELSE Garbage]

PutAll(m, at, vs)  == [m EXCEPT !.l.stack = Written(@, at, vs)]
Put(m, at, v)      == PutAll(m, at, <<v>>)
Values(m, from, n) == [j \in 1..n |-> m.l.stack[from + j - 1]]
Top(m, t)          == [m EXCEPT !.l.top = t]
Nils(n)            == IF n <= 0 THEN <<>> ELSE [j \in 1..n |-> Nil]
Frame(m)           == Last(m.l.ci)
Later(m, todo)     == [m EXCEPT !.l.todo = todo]

luaH_get(g, t, k) == LET h == g.tables[t[2]].h IN IF k \in DOMAIN h THEN h[k] ELSE Nil

\* The fields h with those of new, of which nil is stored by dropping the key.
Fields(h, new) ==
  LET value(k) == IF k \in DOMAIN new THEN new[k] ELSE h[k]
  IN  [k \in {x \in DOMAIN h \cup DOMAIN new : value(x) # Nil} |-> value(k)]

luaH_set(g, t, k, v) == [g EXCEPT !.tables[t[2]].h = Fields(@, [x \in {k} |-> v])]

\* A table that is new has no metamethods.
FastEvents == {"__index", "__newindex", "__gc", "__mode", "__eq"}
luaH_new(g) == [g EXCEPT !.tables = Append(@, [h |-> <<>>, mt |-> 0, flags |-> FastEvents])]

\* The border that a list without holes has.
luaH_getn(g, t) == CHOOSE n \in 0..Cardinality(DOMAIN g.tables[t[2]].h) :
                     /\ n > 0 => luaH_get(g, t, Number(n)) # Nil
                     /\ luaH_get(g, t, Number(n + 1)) = Nil

\* An open upvalue is the stack slot that it is at.  The list of the thread
\* holds the open ones, to which those of these slots are added.
IsOpen(g, level)   == \E u \in DOMAIN g.upvals : g.upvals[u].open /\ g.upvals[u].at = level
UpvalAt(g, level)  == CHOOSE u \in DOMAIN g.upvals : g.upvals[u].open /\ g.upvals[u].at = level
luaF_findupval(m, levels) ==
  [m EXCEPT !.g.upvals = @ \o SetToSeq({[open |-> TRUE, at |-> x, v |-> Nil] :
                                          x \in {y \in levels : ~IsOpen(m.g, y)}})]

\* Mutant: the lowest upvalue stays open.
luaF_close_Above(m, level) ==
  [m EXCEPT !.g.upvals = [u \in DOMAIN @ |->
     IF @[u].open /\ @[u].at > level THEN [open |-> FALSE, at |-> 0, v |-> m.l.stack[@[u].at]]
     ELSE @[u]]]

luaF_close(m, level) ==
  [m EXCEPT !.g.upvals = [u \in DOMAIN @ |->
     IF @[u].open /\ @[u].at >= level THEN [open |-> FALSE, at |-> 0, v |-> m.l.stack[@[u].at]]
     ELSE @[u]]]

-----------------------------------------------------------------------------
(* Metamethods: flags are the events that a metatable is known to lack.    *)

luaT_gettmbyobj(g, o, event) ==
  IF ttistable(o) /\ (IF ttistable(o) THEN g.tables[o[2]].mt # 0 ELSE FALSE)
  THEN luaH_get(g, <<"table", g.tables[o[2]].mt>>, String(event)) ELSE Nil

\* The metamethod of a table, and the flag that a search leaves.
fasttm(g, mt, event) ==
  IF mt = 0 \/ (IF mt = 0 THEN TRUE ELSE event \in g.tables[mt].flags) THEN [tm |-> Nil, g |-> g]
  ELSE LET tm == luaH_get(g, <<"table", mt>>, String(event)) IN
       [tm |-> tm, g |-> IF tm = Nil THEN [g EXCEPT !.tables[mt].flags = @ \cup {event}] ELSE g]

rawequal(a, b) == a = b /\ a # Number(NaN)

-----------------------------------------------------------------------------
(* Calls.                                                                  *)

Cont(k)      == [k |-> k, at |-> 0]
ContAt(k, x) == [k |-> k, at |-> x]

adjust_varargs(m, p, actual) ==
  LET nfix  == p.numparams
      n0    == PutAll(m, m.l.top, Nils(nfix - actual))
      got   == IF actual < nfix THEN nfix ELSE actual
      top   == m.l.top + got - actual
      nvar  == got - nfix
      arg   == [k \in {Number(i) : i \in 1..nvar} \cup {String("n")} |->
                  IF k = String("n") THEN Number(nvar) ELSE m.l.stack[top - nvar + k[2] - 1]]
      fixed == Values(n0, top - got, nfix)
      n1    == PutAll(PutAll(n0, top, fixed), top - got, Nils(nfix))
      g     == luaH_new(m.g)
      htab  == Len(m.g.tables) + 1
      n2    == Put([n1 EXCEPT !.g = [g EXCEPT !.tables[htab].h = Fields(@, arg)]], top + nfix, <<"table", htab>>)
  IN  [m |-> IF "NEEDSARG" \in p.is_vararg THEN Top(n2, top + nfix + 1) ELSE Top(n1, top + nfix),
       base |-> top]

poscall(m, firstResult) ==
  LET ci     == Frame(m)
      wanted == ci.nresults
      n      == m.l.top - firstResult
      count  == IF wanted = LUA_MULTRET THEN n ELSE wanted
      vs     == [j \in 1..count |-> IF j <= n THEN m.l.stack[firstResult + j - 1] ELSE Nil]
  IN  Top(PutAll([m EXCEPT !.l.ci = Front(@)], ci.func, vs), ci.func + count)

\* A jump of the current function, by the instruction that comes next.
dojump(m, n) == [m EXCEPT !.l.ci[Len(m.l.ci)].pc = @ + n]

Code(m) == m.g.closures[m.l.stack[Frame(m).func][2]].p.code
CondJump(m, cond) ==
  dojump(m, 1 + (IF cond THEN Code(m)[Frame(m).pc + 1].b ELSE 0))

\* Mutant: the stack stays cut after the results that were asked for.
AfterCall_KeepsTop(m, wanted) == m

\* An open number of results is left for the next instruction.
AfterCall(m, wanted) == IF wanted = LUA_MULTRET THEN m ELSE Top(m, Frame(m).top)

\* What follows a call whose results are on the stack.
Continue(m, cont, wanted) ==
  LET ci   == Frame(m)
      i    == Code(m)[ci.pc]
      cb   == ci.base + i.a + 3
      res  == m.l.stack[m.l.top - 1]
      n    == Top(m, m.l.top - 1)
  IN CASE cont.k \in {"call", "tail"} -> AfterCall(m, wanted)
       [] cont.k = "tfor"   -> LET t == Top(m, ci.top) IN
                               IF m.l.stack[cb] = Nil THEN CondJump(t, FALSE)
                               ELSE CondJump(Put(t, cb - 1, m.l.stack[cb]), TRUE)
       [] cont.k = "pcall"  -> LET vs == Values(m, ci.base, m.l.top - ci.base) IN
                               Later(PutAll(Top(m, m.l.top + 1), ci.base, <<Bool(TRUE)>> \o vs),
                                     [k |-> "return", first |-> ci.base])
       [] cont.k = "res"    -> Put(n, cont.at, res)
       [] cont.k = "test"   -> CondJump(n, (IF l_isfalse(res) THEN 0 ELSE 1) = cont.at)
       [] cont.k = "concat" -> Later(Put(n, ci.base + cont.at, res),
                                     [k |-> "concat", total |-> cont.at - i.b + 1, last |-> cont.at])
       [] OTHER             -> m

Return(m, firstResult) ==
  IF Len(m.l.ci) = 1 THEN [poscall(m, firstResult) EXCEPT !.l.status = "done",
                              !.g.out = Append(@, Values(m, firstResult, m.l.top - firstResult))]
  ELSE Continue(poscall(m, firstResult), Frame(m).cont, Frame(m).nresults)

\* An error goes to the last lua_pcall, which closes what was called in it.
luaG_runerror(m, v) ==
  LET S   == {j \in DOMAIN m.l.ci : m.l.ci[j].c = "pcall"}
      j   == Max(S)
      old == m.l.ci[j].base
      n   == Put(luaF_close([m EXCEPT !.l.ci = SubSeq(@, 1, j)], old), old, v)
  IN  IF S = {} THEN [m EXCEPT !.l.status = "error", !.g.out = Append(@, << <<"error", 0>>, v>>)]
      ELSE Return(PutAll(Top(n, old + 2), old, <<Bool(FALSE), v>>), old)

Error(m, what) == luaG_runerror(m, String(what))

\* Functions of the host and of the basic library, setmetatable the last one: the
\* results and the state.
cfunction(g, name, args) ==
  LET a == IF Len(args) > 0 THEN args[1] ELSE Nil
      b == IF Len(args) > 1 THEN args[2] ELSE Nil
      c == IF Len(args) > 2 THEN args[3] ELSE Nil
  IN CASE name = "emit"         -> [g |-> [g EXCEPT !.out = Append(@, args)], r |-> args]
       [] name = "rawget"       -> [g |-> g, r |-> <<luaH_get(g, a, b)>>]
       [] name = "rawset"       -> [g |-> [luaH_set(g, a, b, c) EXCEPT !.tables[a[2]].flags = {}],
                                    r |-> <<a>>]
       [] OTHER                 -> [g |-> [g EXCEPT !.tables[a[2]].mt = IF b = Nil THEN 0 ELSE b[2]],
                                    r |-> <<a>>]

Enter(m, func, base, size, nresults, cont, c) ==
  [m EXCEPT !.l.ci = Append(@, [func |-> func, base |-> base, top |-> base + size, pc |-> 0,
                                nresults |-> nresults, cont |-> cont, c |-> c])]

\* A metamethod of a value that is called goes below it.
tryfuncTM(m, func) ==
  LET tm == luaT_gettmbyobj(m.g, m.l.stack[func], "__call") IN
  PutAll(Top(m, m.l.top + 1), func, <<tm>> \o Values(m, func, m.l.top - func))

\* A tail call: the frame of the called function replaces the caller's.
PutUnder(m) ==
  LET f    == Frame(m)
      prev == m.l.ci[Len(m.l.ci) - 1]
      size == m.l.top - f.func
      top  == [prev EXCEPT !.base = prev.func + (f.base - f.func), !.top = prev.func + size, !.pc = 0]
  IN  [PutAll(luaF_close(m, prev.base), prev.func, Values(m, f.func, size))
         EXCEPT !.l.ci = Append(SubSeq(@, 1, Len(@) - 2), top), !.l.top = prev.func + size]

precall(m, func, nresults, cont) ==
  LET f     == m.l.stack[func]
      p     == m.g.closures[f[2]].p
      fixed == [m |-> IF m.l.top > func + 1 + p.numparams THEN Top(m, func + 1 + p.numparams) ELSE m,
                base |-> func + 1]
      x     == IF p.is_vararg = {} THEN fixed ELSE adjust_varargs(m, p, m.l.top - func - 1)
      size  == p.maxstacksize
      n     == Enter(x.m, func, x.base, size, nresults, cont, "Lua")
      lua   == Top(PutAll(n, x.m.l.top, Nils(x.base + size - x.m.l.top)), x.base + size)
      c     == cfunction(m.g, f[2], Values(m, func + 1, m.l.top - func - 1))
      nc    == Enter(m, func, func + 1, m.l.top - func, nresults, cont, f[2])
  IN CASE f[1] = "function" -> IF cont.k = "tail" THEN PutUnder(lua) ELSE lua
       [] f[1] = "cfunction" /\ f[2] = "pcall" ->
            Later(nc, [k |-> "call", func |-> func + 1, nresults |-> LUA_MULTRET, cont |-> Cont("pcall")])
       [] f[1] = "cfunction" /\ f[2] = "error" -> luaG_runerror(nc, m.l.stack[func + 1])
       [] f[1] = "cfunction" /\ f[2] \notin {"pcall", "error"} ->
            Return([PutAll(nc, m.l.top, c.r) EXCEPT !.g = c.g, !.l.top = @ + Len(c.r)], m.l.top)
       [] OTHER ->
            IF ttisfunction(luaT_gettmbyobj(m.g, f, "__call"))
            THEN Later(tryfuncTM(m, func), [k |-> "call", func |-> func, nresults |-> nresults, cont |-> cont])
            ELSE Error(m, "call")

callTM(m, f, args, nresults, cont) ==
  precall(Top(PutAll(m, m.l.top, <<f>> \o args), m.l.top + 1 + Len(args)), m.l.top, nresults, cont)

callTMres(m, res, f, p1, p2) == callTM(m, f, <<p1, p2>>, 1, ContAt("res", res))

gettable(m, t, key, val, loop) ==
  LET raw  == luaH_get(m.g, t, key)
      fast == fasttm(m.g, m.g.tables[t[2]].mt, "__index")
      n    == [m EXCEPT !.g = fast.g]
  IN CASE loop = MAXTAGLOOP -> Error(m, "loop")
       [] loop # MAXTAGLOOP /\ ~ttistable(t) -> Error(m, "index")
       [] OTHER ->
            IF raw # Nil THEN Put(m, val, raw)
            ELSE IF fast.tm = Nil THEN Put(n, val, Nil)
            ELSE IF ttisfunction(fast.tm) THEN callTMres(n, val, fast.tm, t, key)
            ELSE Later(n, [k |-> "gettable", t |-> fast.tm, key |-> key, val |-> val, loop |-> loop + 1])

\* Mutant: the flags of the table stay as they are.
settable_KeepsFlags(m, t, key, val, loop) ==
  IF ttistable(t) THEN [m EXCEPT !.g = luaH_set(@, t, key, val)] ELSE Error(m, "index")

settable(m, t, key, val, loop) ==
  LET clean == [m EXCEPT !.g.tables[t[2]].flags = {}]
      fast  == fasttm(clean.g, m.g.tables[t[2]].mt, "__newindex")
      n     == [m EXCEPT !.g = fast.g]
      set(x) == [x EXCEPT !.g = [luaH_set(x.g, t, key, val) EXCEPT !.tables[t[2]].flags = {}]]
  IN CASE loop = MAXTAGLOOP -> Error(m, "loop")
       [] loop # MAXTAGLOOP /\ ~ttistable(t) -> Error(m, "index")
       [] loop # MAXTAGLOOP /\ ttistable(t) /\ key \in {Nil, Number(NaN)} -> Error(clean, "key")
       [] OTHER ->
            IF luaH_get(m.g, t, key) # Nil THEN set(m)
            ELSE IF fast.tm = Nil THEN set(n)
            ELSE IF ttisfunction(fast.tm) THEN callTM(n, fast.tm, <<t, key, val>>, 0, Cont("none"))
            ELSE Later(n, [k |-> "settable", t |-> fast.tm, key |-> key, val |-> val, loop |-> loop + 1])

call_binTM(m, p1, p2, res, event) ==
  LET t1 == luaT_gettmbyobj(m.g, p1, event)
      tm == IF t1 = Nil THEN luaT_gettmbyobj(m.g, p2, event) ELSE t1
  IN  IF tm = Nil THEN Error(m, event) ELSE callTMres(m, res, tm, p1, p2)

-----------------------------------------------------------------------------
(* The current instruction.                                                *)

Running == L.status = "run" /\ L.todo = Nothing
ci      == Last(L.ci)
cl      == G.closures[L.stack[ci.func][2]]
I       == cl.p.code[ci.pc + 1]
RA      == ci.base + I.a
R(r)    == L.stack[ci.base + r]
KRK(x)  == IF ISK(x) THEN cl.p.k[INDEXK(x) + 1] ELSE R(x)
K       == cl.p.k[I.b + 1]

\* The state in which the instruction runs.
M == dojump([l |-> L, g |-> G], 1)

At(ops) == Running /\ I.op \in ops
Do(m)   == L' = m.l /\ G' = m.g

Move     == At({"MOVE"}) /\ Do(Put(M, RA, R(I.b)))
LoadK    == At({"LOADK"}) /\ Do(Put(M, RA, K))
LoadBool == At({"LOADBOOL"}) /\ Do(dojump(Put(M, RA, Bool(I.b = 1)), I.c))
LoadNil  == At({"LOADNIL"}) /\ Do(PutAll(M, RA, Nils(I.b - I.a + 1)))

GetUpval == LET u == G.upvals[cl.upvals[I.b + 1]] IN
            At({"GETUPVAL"}) /\ Do(Put(M, RA, IF u.open THEN L.stack[u.at] ELSE u.v))

SetUpval == LET u == cl.upvals[I.b + 1] IN
            /\ At({"SETUPVAL"})
            /\ Do(IF G.upvals[u].open THEN Put(M, G.upvals[u].at, L.stack[RA])
                  ELSE [M EXCEPT !.g.upvals[u].v = L.stack[RA]])

Globals   == <<"table", 1>>
GetGlobal == At({"GETGLOBAL"}) /\ Do(gettable(M, Globals, K, RA, 0))
SetGlobal == At({"SETGLOBAL"}) /\ Do(settable(M, Globals, K, L.stack[RA], 0))
GetTable  == At({"GETTABLE"}) /\ Do(gettable(M, R(I.b), KRK(I.c), RA, 0))
SetTable  == At({"SETTABLE"}) /\ Do(settable(M, L.stack[RA], KRK(I.b), KRK(I.c), 0))
NewTable  == At({"NEWTABLE"}) /\ Do(Put([M EXCEPT !.g = luaH_new(@)], RA, <<"table", Len(G.tables) + 1>>))
Self      == At({"SELF"}) /\ Do(gettable(Put(M, RA + 1, R(I.b)), R(I.b), KRK(I.c), RA, 0))

Event(op) == CASE op = "ADD" -> "__add" [] op = "SUB" -> "__sub" [] op = "MUL" -> "__mul"
               [] op = "MOD" -> "__mod" [] op = "UNM" -> "__unm"

Arith == LET rb == IF I.op = "UNM" THEN R(I.b) ELSE KRK(I.b)
             rc == IF I.op = "UNM" THEN R(I.b) ELSE KRK(I.c)
             nb == luaV_tonumber(rb)
             nc == luaV_tonumber(rc)
         IN  /\ At(Arithmetic \cup {"UNM"})
             /\ Do(IF ttisnumber(nb) /\ ttisnumber(nc) THEN Put(M, RA, Number(luai_num(I.op, nb[2], nc[2])))
                   ELSE call_binTM(M, rb, rc, RA, Event(I.op)))

Not == At({"NOT"}) /\ Do(Put(M, RA, Bool(l_isfalse(R(I.b)))))

Length == LET v == R(I.b) IN
          /\ At({"LEN"})
          /\ Do(CASE ttistable(v)  -> Put(M, RA, Number(luaH_getn(G, v)))
                  [] ttisstring(v) -> Put(M, RA, Number(Len(v[2])))
                  [] OTHER         -> call_binTM(M, v, Nil, RA, "__len"))

\* luaV_concat, from the right: the strings that end at last, total of them.
\* The values that are not strings wait for a metamethod.
concat(m, total, last) ==
  LET base == Frame(m).base
      i    == Code(m)[Frame(m).pc]
      v(j) == m.l.stack[base + last - j]
      ok(j) == ttisstring(v(j)) \/ ttisnumber(v(j))
      n    == Max({k \in 1..total : \A j \in 0..k - 1 : ok(j)})
      s    == FoldLeft(LAMBDA acc, j : tostring(v(j))[2] \o acc, "", [j \in 1..n |-> j - 1])
  IN  IF total <= 1 THEN Put(m, base + i.a, m.l.stack[base + i.b])
      ELSE IF ok(0) /\ ok(1)
      THEN Later(Put(m, base + last - n + 1, String(s)),
                 [k |-> "concat", total |-> total - n + 1, last |-> last - n + 1])
      ELSE LET t1 == luaT_gettmbyobj(m.g, v(1), "__concat")
               tm == IF t1 = Nil THEN luaT_gettmbyobj(m.g, v(0), "__concat") ELSE t1
           IN  IF tm = Nil THEN Error(m, "__concat")
               ELSE callTM(m, tm, <<v(1), v(0)>>, 1, ContAt("concat", last - 1))

Concat == At({"CONCAT"}) /\ Do(concat(M, I.c - I.b + 1, I.c))

Jmp == At({"JMP"}) /\ Do(dojump(M, I.b))

-----------------------------------------------------------------------------
(* Comparisons, which skip the jump that comes next unless they succeed.   *)

Tables(rb, rc) == ttistable(rb) /\ ttistable(rc)

Mt(v) == G.tables[v[2]].mt

\* Both operands must have the metamethod, or the same metatable.
get_compTM(rb, rc) ==
  LET t1 == fasttm(G, Mt(rb), "__eq")
      t2 == fasttm(t1.g, Mt(rc), "__eq")
  IN CASE t1.tm = Nil -> t1
       [] t1.tm # Nil /\ Mt(rb) = Mt(rc) -> t1
       [] OTHER -> [tm |-> IF t1.tm = t2.tm THEN t1.tm ELSE Nil, g |-> t2.g]

Equal == LET rb == KRK(I.b)
             rc == KRK(I.c)
             x  == get_compTM(rb, rc)
             m  == [M EXCEPT !.g = x.g]
         IN  /\ At({"EQ"})
             /\ Do(IF ~Tables(rb, rc) THEN CondJump(M, rawequal(rb, rc) <=> I.a = 1)
                   ELSE IF rb = rc THEN CondJump(M, I.a = 1)
                   ELSE IF x.tm = Nil THEN CondJump(m, I.a = 0)
                   ELSE callTM(m, x.tm, <<rb, rc>>, 1, ContAt("test", I.a)))

\* call_orderTM: the metamethod that both have, or Nil.
OrderTM(rb, rc, event) ==
  LET tm == luaT_gettmbyobj(G, rb, event) IN IF tm = luaT_gettmbyobj(G, rc, event) THEN tm ELSE Nil

Order == LET rb == KRK(I.b)
             rc == KRK(I.c)
             lt == I.op = "LT"
             tm == OrderTM(rb, rc, IF lt THEN "__lt" ELSE "__le")
             tl == OrderTM(rc, rb, "__lt")
         IN  /\ At({"LT", "LE"})
             /\ Do(CASE ttisnumber(rb) /\ ttisnumber(rc) ->
                          CondJump(M, (IF lt THEN luai_numlt(rb[2], rc[2]) ELSE luai_numle(rb[2], rc[2]))
                                      <=> I.a = 1)
                     [] ttisstring(rb) /\ ttisstring(rc) ->
                          CondJump(M, (IF lt THEN strcoll(rb[2], rc[2]) < 0 ELSE strcoll(rb[2], rc[2]) <= 0)
                                      <=> I.a = 1)
                     [] tm # Nil -> callTM(M, tm, <<rb, rc>>, 1, ContAt("test", I.a))
                     [] tm = Nil /\ ~lt /\ tl # Nil -> callTM(M, tl, <<rc, rb>>, 1, ContAt("test", 1 - I.a))
                     [] OTHER -> Error(M, "compare"))

Test    == At({"TEST"}) /\ Do(CondJump(M, l_isfalse(L.stack[RA]) # (I.c = 1)))
TestSet == /\ At({"TESTSET"})
           /\ Do(IF l_isfalse(R(I.b)) # (I.c = 1) THEN CondJump(Put(M, RA, R(I.b)), TRUE)
                 ELSE CondJump(M, FALSE))

-----------------------------------------------------------------------------
(* Calls and loops.                                                        *)

\* An instruction that takes all values up to top has b = 0.
OpenTop == IF I.b # 0 THEN Top(M, RA + I.b) ELSE M

Call == At({"CALL"}) /\ Do(precall(OpenTop, RA, I.c - 1, Cont("call")))

TailCall == At({"TAILCALL"}) /\ Do(precall(OpenTop, RA, LUA_MULTRET, Cont("tail")))

ReturnOp ==
  LET m == IF I.b # 0 THEN Top(M, RA + I.b - 1) ELSE M IN
  At({"RETURN"}) /\ Do(Return(luaF_close(m, ci.base), RA))

ForPrep ==
  LET v == [j \in 0..2 |-> luaV_tonumber(L.stack[RA + j])] IN
  /\ At({"FORPREP"})
  /\ Do(IF \E j \in 0..2 : ~ttisnumber(v[j]) THEN Error(M, "for")
        ELSE dojump(PutAll(M, RA, <<Number(luai_num("SUB", v[0][2], v[2][2])), v[1], v[2]>>), I.b))

ForLoop ==
  LET step  == L.stack[RA + 2][2]
      idx   == luai_num("ADD", L.stack[RA][2], step)
      limit == L.stack[RA + 1][2]
  IN  /\ At({"FORLOOP"})
      /\ Do(IF IF luai_numlt(0, step) THEN luai_numle(idx, limit) ELSE luai_numle(limit, idx)
            THEN dojump(Put(Put(M, RA, Number(idx)), RA + 3, Number(idx)), I.b) ELSE M)

TForLoop ==
  /\ At({"TFORLOOP"})
  /\ Do(precall(Top(PutAll(M, RA + 3, Values(M, RA, 3)), RA + 6), RA + 3, I.c, Cont("tfor")))

SetList ==
  LET n    == IF I.b = 0 THEN L.top - RA - 1 ELSE I.b
      m    == IF I.b = 0 THEN Top(M, ci.top) ELSE M
      from == (I.c - 1) * LFIELDS_PER_FLUSH
      new  == [k \in {Number(from + j) : j \in 1..n} |-> L.stack[RA + k[2] - from]]
  IN  At({"SETLIST"}) /\ Do([m EXCEPT !.g.tables[L.stack[RA][2]].h = Fields(@, new)])

Close == At({"CLOSE"}) /\ Do(luaF_close(M, RA))

\* The pseudo-instructions say where the upvalues are.
Closure ==
  LET p  == cl.p.p[I.b + 1]
      ps == SubSeq(cl.p.code, ci.pc + 2, ci.pc + 1 + p.nups)
      m  == luaF_findupval(M, {ci.base + ps[j].b : j \in {i \in 1..p.nups : ps[i].op = "MOVE"}})
      us == [j \in 1..p.nups |-> IF ps[j].op = "GETUPVAL" THEN cl.upvals[ps[j].b + 1]
                                 ELSE UpvalAt(m.g, ci.base + ps[j].b)]
  IN  /\ At({"CLOSURE"})
      /\ Do(dojump(Put([m EXCEPT !.g.closures = Append(@, [p |-> p, upvals |-> us])], RA,
                       <<"function", Len(G.closures) + 1>>), p.nups))

VarArg ==
  LET n  == ci.base - ci.func - cl.p.numparams - 1
      b  == IF I.b = 0 THEN n ELSE I.b - 1
      vs == [j \in 1..b |-> IF j <= n THEN L.stack[ci.base - n + j - 1] ELSE Nil]
      m  == PutAll(M, RA, vs)
  IN  At({"VARARG"}) /\ Do(IF I.b = 0 THEN Top(m, RA + n) ELSE m)

-----------------------------------------------------------------------------
(* What C code does next: luaD_call for what it calls, the end of pcall,    *)
(* the loops of luaV_concat, luaV_gettable and luaV_settable.               *)

N == [l |-> [L EXCEPT !.todo = Nothing], g |-> G]

Todo(k) == L.status = "run" /\ L.todo.k = k

CallNext   == Todo("call") /\ Do(precall(N, L.todo.func, L.todo.nresults, L.todo.cont))
ReturnNext == Todo("return") /\ Do(Return(N, L.todo.first))
ConcatNext == Todo("concat") /\ Do(concat(N, L.todo.total, L.todo.last))
GetNext    == Todo("gettable") /\ Do(gettable(N, L.todo.t, L.todo.key, L.todo.val, L.todo.loop))
SetNext    == Todo("settable") /\ Do(settable(N, L.todo.t, L.todo.key, L.todo.val, L.todo.loop))

\* The host's call.
Host(p, cfunctions, args) ==
  L.status = "idle" /\ Do(precall(Loaded(p, cfunctions, args), 1, LUA_MULTRET, Cont("host")))

VMInit == L = [status |-> "idle"] /\ G = <<>>

VMNext ==
  \/ \E p, cfunctions, args : Host(p, cfunctions, args)
  \/ Move \/ LoadK \/ LoadBool \/ LoadNil \/ GetUpval \/ SetUpval \/ GetGlobal \/ SetGlobal
  \/ GetTable \/ SetTable \/ NewTable \/ Self \/ Arith \/ Not \/ Length \/ Concat \/ Jmp
  \/ Equal \/ Order \/ Test \/ TestSet \/ Call \/ TailCall \/ ReturnOp \/ ForPrep \/ ForLoop
  \/ TForLoop \/ SetList \/ Close \/ Closure \/ VarArg
  \/ CallNext \/ ReturnNext \/ ConcatNext \/ GetNext \/ SetNext

VMSpec == VMInit /\ [][VMNext]_vmVars

-----------------------------------------------------------------------------
(* Properties.                                                             *)

\* An open upvalue is in a frame that is running, and the only one of its slot
\* (luaF_findupval, luaF_close).
OpenUpvaluesLive ==
  L.status = "run" =>
    \A u \in DOMAIN G.upvals : G.upvals[u].open =>
      /\ \E j \in DOMAIN L.ci : L.ci[j].base <= G.upvals[u].at /\ G.upvals[u].at < L.ci[j].top
      /\ \A w \in DOMAIN G.upvals \ {u} : ~G.upvals[w].open \/ G.upvals[w].at # G.upvals[u].at

\* The flags of a metatable are events that it has no metamethod for (luaT_gettm
\* sets them, and all that store into a table have to clear them).
FlagsSound ==
  L.status # "idle" =>
    \A t \in DOMAIN G.tables : \A e \in G.tables[t].flags : String(e) \notin DOMAIN G.tables[t].h
=============================================================================

---------------------------- MODULE LuaReference ----------------------------
(***************************************************************************)
(* What a program means (the reference manual), by evaluation of its tree. *)
(* A store s has the cells of the variables, the tables, the functions,    *)
(* the output and whether the program failed; nothing that is evaluated    *)
(* after a failure has an effect.  An environment env has the cell of each *)
(* name in scope and the values of ... .                                   *)
(***************************************************************************)
EXTENDS LuaSyntax, LuaValue

-----------------------------------------------------------------------------
(* Stores.                                                                 *)

Fail(s, v) == IF s.err THEN s ELSE [s EXCEPT !.err = TRUE, !.out = Append(@, << <<"error", 0>>, v>>)]
FailWith(s, what) == Fail(s, String(what))

NewCells(s, vs) == [s EXCEPT !.cells = @ \o vs]
SetCell(s, c, v) == IF s.err THEN s ELSE [s EXCEPT !.cells[c] = v]
Bind(env, xs, s) == [env EXCEPT !.vars = [x \in ToSet(xs) |->
                       Len(s.cells) + (CHOOSE i \in DOMAIN xs : xs[i] = x /\ \A j \in i + 1..Len(xs) : xs[j] # x)] @@ @]

Nth(vs, i)    == IF i <= Len(vs) THEN vs[i] ELSE Nil
Adjust(vs, n) == [i \in 1..n |-> Nth(vs, i)]

RawGet(s, t, k) == LET h == s.tables[t[2]].h IN IF k \in DOMAIN h THEN h[k] ELSE Nil
RawSet(s, t, k, v) ==
  IF s.err THEN s
  ELSE [s EXCEPT !.tables[t[2]].h = IF v = Nil THEN [x \in DOMAIN @ \ {k} |-> @[x]] ELSE (k :> v) @@ @]
NewTable(s, h) == [s EXCEPT !.tables = Append(@, [h |-> h, mt |-> Nil])]
Border(s, t)   == CHOOSE n \in 0..Cardinality(DOMAIN s.tables[t[2]].h) :
                    (n > 0 => RawGet(s, t, Number(n)) # Nil) /\ RawGet(s, t, Number(n + 1)) = Nil

Meta(s, v, event) == IF v[1] = "table" THEN LET mt == s.tables[v[2]].mt IN
                       IF mt = Nil THEN Nil ELSE RawGet(s, mt, String(event)) ELSE Nil
Handler(s, a, b, event) == IF Meta(s, a, event) # Nil THEN Meta(s, a, event) ELSE Meta(s, b, event)
Callable(v) == v[1] \in {"function", "cfunction"}

-----------------------------------------------------------------------------
(* Evaluation.                                                             *)

RECURSIVE Eval(_, _, _), EvalList(_, _, _), Exec(_, _, _), Block(_, _, _), Call(_, _, _),
          GetPast(_, _, _, _), SetPast(_, _, _, _, _), While_(_, _, _), For_(_, _, _, _, _), ForIn_(_, _, _, _)

Truth(v)     == v \notin {Nil, Bool(FALSE)}
First(r)     == Nth(r.v, 1)
Val(s, v)    == [s |-> s, v |-> <<v>>]
Bad(s, what) == Val(FailWith(s, what), Nil)

\* A table without the key passes it on; the tables that have are in past.
GetPast(s, t, k, past) ==
  LET h == Meta(s, t, "__index") IN
  IF s.err THEN Val(s, Nil)
  ELSE IF t \in past THEN Bad(s, "loop")
  ELSE IF t[1] # "table" THEN Bad(s, "index")
  ELSE IF RawGet(s, t, k) # Nil \/ h = Nil THEN Val(s, RawGet(s, t, k))
  ELSE IF Callable(h) THEN LET r == Call(s, h, <<t, k>>) IN Val(r.s, First(r))
  ELSE GetPast(s, h, k, past \cup {t})

SetPast(s, t, k, v, past) ==
  LET h == Meta(s, t, "__newindex") IN
  IF s.err THEN s
  ELSE IF t \in past THEN FailWith(s, "loop")
  ELSE IF t[1] # "table" THEN FailWith(s, "index")
  ELSE IF k \in {Nil, Number(NaN)} THEN FailWith(s, "key")
  ELSE IF RawGet(s, t, k) # Nil \/ h = Nil THEN RawSet(s, t, k, v)
  ELSE IF Callable(h) THEN Call(s, h, <<t, k, v>>).s
  ELSE SetPast(s, h, k, v, past \cup {t})

Get(s, t, k)    == GetPast(s, t, k, {})
Set(s, t, k, v) == SetPast(s, t, k, v, {})

CFunction(s, name, as) ==
  CASE name = "emit"         -> [s |-> [s EXCEPT !.out = Append(@, as)], v |-> as]
    [] name = "rawget"       -> Val(s, RawGet(s, as[1], as[2]))
    [] name = "rawset"       -> Val(RawSet(s, as[1], as[2], as[3]), as[1])
    [] name = "setmetatable" -> Val([s EXCEPT !.tables[as[1][2]].mt = as[2]], as[1])
    [] name = "error"        -> Val(Fail(s, Nth(as, 1)), Nil)
    [] name = "pcall"        ->
         LET r == Call(s, as[1], Tail(as)) IN
         IF r.s.err THEN [s |-> [r.s EXCEPT !.err = FALSE, !.out = Front(@)],
                          v |-> <<Bool(FALSE), Last(r.s.out)[2]>>]
         ELSE [s |-> r.s, v |-> <<Bool(TRUE)>> \o r.v]

Call(s, f, as) ==
  LET d    == s.funs[f[2]]
      n    == Len(d.ps)
      more == SubSeq(as, n + 1, Len(as))
      arg  == [k \in {i \in 1..Len(more) : more[i] # Nil} |-> more[k]]
      argt == [k \in {Number(i) : i \in DOMAIN arg} \cup {String("n")} |->
                 IF k = String("n") THEN Number(Len(more)) ELSE arg[k[2]]]
      ps   == IF d.old THEN Append(d.ps, "arg") ELSE d.ps
      s0   == IF d.old THEN NewTable(s, argt) ELSE s
      vs   == Adjust(as, n) \o (IF d.old THEN << <<"table", Len(s0.tables)>> >> ELSE <<>>)
      env  == [Bind(d.env, ps, s) EXCEPT !.va = IF d.va THEN more ELSE <<>>]
      r    == Block(NewCells(s0, vs), env, d.b)
  IN CASE s.err -> [s |-> s, v |-> <<>>]
       [] ~s.err /\ f[1] = "cfunction" -> CFunction(s, f[2], as)
       [] ~s.err /\ f[1] = "function"  -> [s |-> r.s, v |-> IF r.sig = "return" THEN r.v ELSE <<>>]
       [] OTHER -> IF Callable(Meta(s, f, "__call")) THEN Call(s, Meta(s, f, "__call"), <<f>> \o as)
                   ELSE [s |-> FailWith(s, "call"), v |-> <<>>]

Arith_(o, a, b) ==
  CASE NaN \in {a, b}                 -> NaN
    [] NaN \notin {a, b} /\ o = "+"   -> a + b
    [] NaN \notin {a, b} /\ o = "-"   -> a - b
    [] NaN \notin {a, b} /\ o = "*"   -> a * b
    [] OTHER                          -> luai_nummod(a, b)

EventOf(o) == CASE o = "+" -> "__add" [] o = "-" -> "__sub" [] o = "*" -> "__mul" [] o = "%" -> "__mod"
                [] o = ".." -> "__concat" [] o = "un-" -> "__unm" [] o = "#" -> "__len"

\* The result of a metamethod for two operands.
ByHandler(s, a, b, event) ==
  LET r == Call(s, Handler(s, a, b, event), <<a, b>>) IN
  IF Handler(s, a, b, event) = Nil THEN Bad(s, event) ELSE Val(r.s, First(r))

Same(s, a, b, event) == IF Meta(s, a, event) = Meta(s, b, event) THEN Meta(s, a, event) ELSE Nil

Equal_(s, a, b) ==
  LET r == Call(s, Same(s, a, b, "__eq"), <<a, b>>) IN
  IF a = b \/ a[1] # "table" \/ b[1] # "table" \/ Same(s, a, b, "__eq") = Nil
  THEN Val(s, Bool(a = b /\ a # Number(NaN))) ELSE Val(r.s, Bool(Truth(First(r))))

Less(s, a, b, le) ==
  LET h == Same(s, a, b, IF le THEN "__le" ELSE "__lt")
      r == Call(s, h, <<a, b>>)
      q == Call(s, Same(s, b, a, "__lt"), <<b, a>>)
  IN CASE a[1] = "number" /\ b[1] = "number" ->
            Val(s, Bool(NaN \notin {a[2], b[2]} /\ (IF le THEN a[2] <= b[2] ELSE a[2] < b[2])))
       [] a[1] = "string" /\ b[1] = "string" ->
            Val(s, Bool(IF le THEN strcoll(a[2], b[2]) <= 0 ELSE strcoll(a[2], b[2]) < 0))
       [] OTHER -> IF h # Nil THEN Val(r.s, Bool(Truth(First(r))))
                   ELSE IF le /\ Same(s, b, a, "__lt") # Nil THEN Val(q.s, Bool(~Truth(First(q))))
                   ELSE Bad(s, "compare")

Binary(s, o, a, b) ==
  LET na == luaV_tonumber(a)
      nb == luaV_tonumber(b)
      cat(v) == v[1] \in {"string", "number"}
  IN CASE s.err -> Val(s, Nil)
       [] ~s.err /\ o \in {"+", "-", "*", "%"} ->
            IF na[1] = "number" /\ nb[1] = "number" THEN Val(s, Number(Arith_(o, na[2], nb[2])))
            ELSE ByHandler(s, a, b, EventOf(o))
       [] ~s.err /\ o = ".." -> IF cat(a) /\ cat(b) THEN Val(s, String(tostring(a)[2] \o tostring(b)[2]))
                      ELSE ByHandler(s, a, b, "__concat")
       [] ~s.err /\ o = "==" -> Equal_(s, a, b)
       [] ~s.err /\ o = "~=" -> LET r == Equal_(s, a, b) IN Val(r.s, Bool(~Truth(First(r))))
       [] ~s.err /\ o = "<"  -> Less(s, a, b, FALSE)
       [] ~s.err /\ o = "<=" -> Less(s, a, b, TRUE)
       [] ~s.err /\ o = ">"  -> Less(s, b, a, FALSE)
       [] ~s.err /\ o = ">=" -> Less(s, b, a, TRUE)

Unary(s, o, a) ==
  LET na == luaV_tonumber(a) IN
  CASE s.err -> Val(s, Nil)
    [] ~s.err /\ o = "not" -> Val(s, Bool(~Truth(a)))
    [] ~s.err /\ o = "-"   -> IF na[1] = "number" THEN Val(s, Number(Arith_("*", na[2], -1)))
                    ELSE ByHandler(s, a, a, "__unm")
    [] ~s.err /\ o = "#"   -> IF a[1] = "string" THEN Val(s, Number(Len(a[2])))
                    ELSE IF a[1] = "table" THEN Val(s, Number(Border(s, a))) ELSE Bad(s, "__len")

\* A global variable is a field of the table 1.
Eval(s, env, e) ==
  LET l == Eval(s, env, e.l)
      r == Eval(l.s, env, e.r)
      o == Eval(s, env, e.e)
      k == Eval(o.s, env, e.k)
      f == Eval(s, env, e.f)
      m == Get(o.s, First(o), String(e.x))
      as == EvalList(IF e.t = "call" THEN f.s ELSE m.s, env, e.as)
      nt == NewTable(s, <<>>)
      last == Last(e.is)
      lv   == EvalList(s, env, <<last.e>>)
      \* The items in order, and the last one's values when it has no key.
      items == FoldLeft(LAMBDA a, i :
                 LET key == Eval(a.s, env, e.is[i].k)
                     val == EvalList(IF e.is[i].k.t = "none" THEN a.s ELSE key.s, env, <<e.is[i].e>>)
                     vs  == IF i = Len(e.is) THEN val.v ELSE <<First(val)>>
                 IN  IF e.is[i].k.t = "none"
                     THEN [s |-> FoldLeft(LAMBDA st, j : RawSet(st, a.t, Number(a.n + j), vs[j]), val.s,
                                          [j \in 1..Len(vs) |-> j]),
                           t |-> a.t, n |-> a.n + Len(vs)]
                     ELSE [s |-> Set(val.s, a.t, First(key), First(val)), t |-> a.t, n |-> a.n],
                 [s |-> nt, t |-> <<"table", Len(nt.tables)>>, n |-> 0], [i \in 1..Len(e.is) |-> i])
  IN CASE e.t = "num"   -> Val(s, Number(e.n))
       [] e.t = "str"   -> Val(s, String(e.s))
       [] e.t = "nil"   -> Val(s, Nil)
       [] e.t = "true"  -> Val(s, Bool(TRUE))
       [] e.t = "false" -> Val(s, Bool(FALSE))
       [] e.t = "..."   -> [s |-> s, v |-> env.va]
       [] e.t = "var"   -> IF e.x \in DOMAIN env.vars THEN Val(s, s.cells[env.vars[e.x]])
                           ELSE Get(s, <<"table", 1>>, String(e.x))
       [] e.t = "paren" -> Val(o.s, First(o))
       [] e.t = "index" -> Get(k.s, First(o), First(k))
       [] e.t = "call"  -> Call(as.s, First(f), as.v)
       [] e.t = "method" -> Call(as.s, First(m), <<First(o)>> \o as.v)
       [] e.t = "function" ->
            [s |-> [s EXCEPT !.funs = Append(@, [ps |-> e.ps, va |-> e.va = "...", b |-> e.b, env |-> env,
                                                 old |-> e.va = "arg"])],
             v |-> << <<"function", Len(s.funs) + 1>> >>]
       [] e.t = "table" -> Val(items.s, items.t)
       [] e.t = "un"    -> Unary(o.s, e.o, First(o))
       [] e.t = "bin"   -> IF e.o \in {"and", "or"}
                           THEN IF Truth(First(l)) = (e.o = "and") THEN Val(r.s, First(r)) ELSE Val(l.s, First(l))
                           ELSE Binary(r.s, e.o, First(l), First(r))

\* All values of the last expression, and one of each other.
EvalList(s, env, es) ==
  LET h == Eval(s, env, Head(es))
      t == EvalList(h.s, env, Tail(es))
  IN  IF es = <<>> THEN [s |-> s, v |-> <<>>]
      ELSE IF Len(es) = 1 THEN h ELSE [s |-> t.s, v |-> <<First(h)>> \o t.v]

-----------------------------------------------------------------------------
(* Statements: sig is what the block goes on with.                         *)

Go(s, env)        == [s |-> s, env |-> env, sig |-> "next", v |-> <<>>]
Stop(s, sig, v)   == [s |-> s, sig |-> sig, v |-> v, env |-> [vars |-> <<>>, va |-> <<>>]]
AfterLoop(r, env) == IF r.sig = "return" THEN r ELSE Go(r.s, env)
Declare(s, env, xs, vs) == Go(NewCells(s, vs), Bind(env, xs, s))

\* The places that are assigned to, then the values, then the assignments.
Place(s, env, v) ==
  LET o == Eval(s, env, v.e)
      k == Eval(o.s, env, v.k)
  IN  IF v.t = "var" THEN [s |-> s, p |-> IF v.x \in DOMAIN env.vars
                                          THEN [c |-> env.vars[v.x], t |-> Nil, k |-> Nil]
                                          ELSE [c |-> 0, t |-> <<"table", 1>>, k |-> String(v.x)]]
      ELSE [s |-> k.s, p |-> [c |-> 0, t |-> First(o), k |-> First(k)]]

SetPlace(s, p, v) == IF p.c > 0 THEN SetCell(s, p.c, v) ELSE Set(s, p.t, p.k, v)

Assign_(s, env, vs, es) ==
  LET ps == FoldLeft(LAMBDA a, v : LET x == Place(a.s, env, v) IN [s |-> x.s, ps |-> Append(a.ps, x.p)],
                     [s |-> s, ps |-> <<>>], vs)
      r  == EvalList(ps.s, env, es)
  IN  FoldLeft(LAMBDA st, i : SetPlace(st, ps.ps[i], Nth(r.v, i)), r.s,
               [i \in 1..Len(vs) |-> Len(vs) + 1 - i])

While_(s, env, d) ==
  LET c == Eval(s, env, d.e)
      b == Block(c.s, env, d.b)
  IN  IF ~Truth(First(c)) \/ c.s.err THEN Go(c.s, env)
      ELSE IF b.sig # "next" \/ b.s.err THEN AfterLoop(b, env) ELSE While_(b.s, env, d)

\* The condition sees the variables of the block.
RECURSIVE Repeat_(_, _, _)
Repeat_(s, env, d) ==
  LET b == Block(s, env, d.b)
      c == Eval(b.s, b.env, d.e)
  IN  IF b.sig # "next" THEN AfterLoop(b, env)
      ELSE IF Truth(First(c)) \/ c.s.err THEN Go(c.s, env) ELSE Repeat_(c.s, env, d)

For_(s, env, d, i, w) ==
  LET x == Declare(s, env, <<d.x>>, <<Number(i)>>)
      b == Block(x.s, x.env, d.b)
  IN  IF NaN \in {i, w.limit, w.step} \/ (IF w.step > 0 THEN i > w.limit ELSE i < w.limit) THEN Go(s, env)
      ELSE IF b.sig # "next" \/ b.s.err THEN AfterLoop(b, env) ELSE For_(b.s, env, d, i + w.step, w)

ForIn_(s, env, d, vs) ==
  LET r == Call(s, vs[1], <<vs[2], vs[3]>>)
      x == Declare(r.s, env, d.xs, Adjust(r.v, Len(d.xs)))
      b == Block(x.s, x.env, d.b)
  IN  IF First(r) = Nil \/ r.s.err THEN Go(r.s, env)
      ELSE IF b.sig # "next" \/ b.s.err THEN AfterLoop(b, env)
      ELSE ForIn_(b.s, env, d, <<vs[1], vs[2], First(r)>>)

RECURSIVE Clauses(_, _, _, _)
Clauses(s, env, cs, b) ==
  LET c == Eval(s, env, Head(cs)[1]) IN
  IF cs = <<>> THEN Block(s, env, b)
  ELSE IF Truth(First(c)) THEN Block(c.s, env, Head(cs)[2]) ELSE Clauses(c.s, env, Tail(cs), b)

Exec(s, env, d) ==
  LET es   == EvalList(s, env, d.es)
      call == Eval(s, env, d)
      b    == Block(s, env, d.b)
      ifs  == Clauses(s, env, d.cs, d.b)
      ns   == [i \in 1..3 |-> luaV_tonumber(IF i = 3 /\ Len(d.es) = 2 THEN Number(1) ELSE Nth(es.v, i))]
      self == Declare(s, env, <<d.x>>, <<Nil>>)
      lf   == Eval(self.s, self.env, d.f)
      ff   == IF d.m = "" THEN d.f ELSE [d.f EXCEPT !.ps = <<"self">> \o @]
      path == d.path \o (IF d.m = "" THEN <<>> ELSE <<d.m>>)
      into == FoldLeft(LAMBDA e, x : Index(e, Str(x)), Var(d.x), path)
  IN CASE s.err                -> Go(s, env)
       [] ~s.err /\ d.t = "local"  -> Declare(es.s, env, d.xs, Adjust(es.v, Len(d.xs)))
       [] ~s.err /\ d.t = "assign" -> Go(Assign_(s, env, d.vs, d.es), env)
       [] ~s.err /\ d.t \in {"call", "method"} -> Go(call.s, env)
       [] ~s.err /\ d.t = "do"     -> [b EXCEPT !.env = env]
       [] ~s.err /\ d.t = "while"  -> While_(s, env, d)
       [] ~s.err /\ d.t = "repeat" -> Repeat_(s, env, d)
       [] ~s.err /\ d.t = "if"     -> [ifs EXCEPT !.env = env]
       [] ~s.err /\ d.t = "fornum" ->
            IF es.s.err THEN Go(es.s, env)
            ELSE IF \E i \in 1..3 : ns[i][1] # "number" THEN Go(FailWith(es.s, "for"), env)
            ELSE For_(es.s, env, d, ns[1][2], [limit |-> ns[2][2], step |-> ns[3][2]])
       [] ~s.err /\ d.t = "forin"  -> ForIn_(es.s, env, d, Adjust(es.v, 3))
       [] ~s.err /\ d.t = "localfunction" -> Go(SetCell(lf.s, self.env.vars[d.x], First(lf)), self.env)
       [] ~s.err /\ d.t = "funstat" -> Go(Assign_(s, env, <<into>>, <<ff>>), env)
       [] ~s.err /\ d.t = "return" -> Stop(es.s, "return", es.v)
       [] ~s.err /\ d.t = "break"  -> Stop(s, "break", <<>>)

\* Leaves the environment of the end of the block, for repeat.
Block(s, env, b) ==
  LET x == Exec(s, env, Head(b)) IN
  IF b = <<>> THEN Go(s, env) ELSE IF x.sig # "next" THEN x ELSE Block(x.s, x.env, Tail(b))

\* What the host sees of the program b, called with the arguments args.
Meaning(b, cfunctions, args) ==
  LET s == [cells |-> <<>>, funs |-> <<>>, out |-> <<>>, err |-> FALSE,
            tables |-> << [h |-> [k \in {String(c) : c \in cfunctions} |-> <<"cfunction", k[2]>>],
                           mt |-> Nil] >>]
      r == Block(s, [vars |-> <<>>, va |-> args], b)
  IN  IF r.s.err THEN r.s.out ELSE Append(r.s.out, r.v)

=============================================================================

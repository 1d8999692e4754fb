------------------------------ MODULE LuaParser ------------------------------
(***************************************************************************)
(* The parser (lparser.c): one operator per function of the grammar.  ls   *)
(* is the LexState: tok, the tokens that are left; fs, the functions that  *)
(* are open, the innermost last; e, the expression that was read last, and *)
(* n, the length of its list.  A syntax error, which is a longjmp, drops   *)
(* the rest of the tokens.                                                 *)
(*                                                                         *)
(* Left out: lines, limits on sizes and levels, and debug information.     *)
(***************************************************************************)
EXTENDS LuaCode

Fs(ls)       == Last(ls.fs)
With(ls, f)  == [ls EXCEPT !.fs[Len(ls.fs)] = f]
Leave(ls, x) == [With(ls, x.f) EXCEPT !.e = x.e]

Is(ls, t)      == Head(ls.tok).t = t
luaX_next(ls)  == IF Len(ls.tok) = 1 THEN ls ELSE [ls EXCEPT !.tok = Tail(@)]
syntaxerror(ls) == [ls EXCEPT !.tok = <<Last(@)>>, !.error = TRUE, !.e = init_exp("NIL", 0)]

testnext(ls, t)  == IF Is(ls, t) THEN luaX_next(ls) ELSE ls
checknext(ls, t) == IF Is(ls, t) THEN luaX_next(ls) ELSE syntaxerror(ls)

block_follow(ls) == Head(ls.tok).t \in {"else", "elseif", "end", "until", "EOS"}

codestring(ls, s) ==
  LET g == addk(Fs(ls), String(s)) IN Leave(ls, Both(g, init_exp("K", Kindex(g, String(s)))))

checkname(ls) == IF Is(ls, "NAME") THEN luaX_next(codestring(ls, Head(ls.tok).v)) ELSE syntaxerror(ls)

-----------------------------------------------------------------------------
(* Local variables and upvalues.  actvar also holds the variables that are *)
(* declared but not active yet.                                            *)

new_localvar(f, name, n)  == [f EXCEPT !.actvar = Append(SubSeq(@, 1, f.nactvar + n), name)]
adjustlocalvars(f, nvars) == [f EXCEPT !.nactvar = @ + nvars]

newlocals(f, names) == [f EXCEPT !.actvar = SubSeq(@, 1, f.nactvar) \o names]

searchvar(f, n) == LET S == {i \in 1..f.nactvar : f.actvar[i] = n} IN
                   IF S = {} THEN -1 ELSE Max(S) - 1

\* The block that declares the variable must close it.
markupval(f, level) ==
  LET S == {i \in DOMAIN f.bl : f.bl[i].nactvar <= level} IN
  IF S = {} THEN f ELSE [f EXCEPT !.bl[Max(S)].upval = TRUE]

addupvalue(f, v) == LET u == [k |-> v.k, info |-> v.info] IN
                    IF Contains(f.upvalues, u) THEN f ELSE [f EXCEPT !.upvalues = Append(@, u)]

indexupvalue(f, v) ==
  (CHOOSE i \in DOMAIN f.upvalues : f.upvalues[i] = [k |-> v.k, info |-> v.info]) - 1

\* The variable n seen from the function at depth d.
RECURSIVE singlevaraux(_, _, _, _)
singlevaraux(fs, d, n, base) ==
  LET v  == searchvar(fs[d], n)
      up == singlevaraux(fs, d - 1, n, FALSE)
      g  == addupvalue(up.fs[d], up.e)
  IN CASE d = 0 -> [fs |-> fs, e |-> init_exp("GLOBAL", NO_REG)]
       [] d > 0 /\ (IF d > 0 THEN v >= 0 ELSE FALSE) ->
            [fs |-> IF base THEN fs ELSE [fs EXCEPT ![d] = markupval(@, v)],
             e  |-> init_exp("LOCAL", v)]
       [] OTHER ->
            IF up.e.k = "GLOBAL" THEN up
            ELSE [fs |-> [up.fs EXCEPT ![d] = g], e |-> init_exp("UPVAL", indexupvalue(g, up.e))]

singlevar(ls) ==
  LET name == Head(ls.tok).v
      x    == singlevaraux(ls.fs, Len(ls.fs), name, TRUE)
      s    == [ls EXCEPT !.fs = x.fs, !.e = x.e]
      key  == codestring(s, name)
  IN  CASE ~Is(ls, "NAME")   -> syntaxerror(ls)
        [] x.e.k = "GLOBAL"  -> luaX_next([key EXCEPT !.e.k = "GLOBAL"])
        [] OTHER             -> luaX_next(s)

-----------------------------------------------------------------------------
(* Blocks and functions.                                                   *)

enterblock(f, isbreakable) ==
  lua_assert([f EXCEPT !.bl = Append(@, [breaklist |-> NO_JUMP, nactvar |-> f.nactvar,
                                         upval |-> FALSE, isbreakable |-> isbreakable])],
             f.freereg = f.nactvar)

leaveblock(f) ==
  LET bl == Last(f.bl)
      g  == [f EXCEPT !.bl = Front(@), !.nactvar = bl.nactvar]
      h  == IF bl.upval THEN luaK_codeABC(g, "CLOSE", bl.nactvar, 0, 0) ELSE g
  IN  luaK_patchtohere([lua_assert(h, ~bl.isbreakable \/ ~bl.upval) EXCEPT !.freereg = bl.nactvar],
                       bl.breaklist)

Enter(ls, isbreakable) == With(ls, enterblock(Fs(ls), isbreakable))
LeaveBlock(ls)         == With(ls, leaveblock(Fs(ls)))

open_func(is_vararg) ==
  [code |-> <<>>, k |-> <<>>, p |-> <<>>, upvalues |-> <<>>, actvar |-> <<>>, bl |-> <<>>,
   nactvar |-> 0, freereg |-> 0, maxstacksize |-> 2, numparams |-> 0, is_vararg |-> is_vararg,
   jpc |-> NO_JUMP, lasttarget |-> -1, asserts |-> TRUE]

\* The Proto that is left of a function.
close_func(f) ==
  LET g == luaK_ret([f EXCEPT !.nactvar = 0], 0, 0) IN
  [code |-> g.code, k |-> g.k, p |-> g.p, nups |-> Len(g.upvalues), numparams |-> g.numparams,
   is_vararg |-> g.is_vararg, maxstacksize |-> g.maxstacksize]

\* OP_CLOSURE is followed by one pseudo-instruction for each upvalue.
pushclosure(f, func) ==
  LET at == luaK_codeABx([f EXCEPT !.p = Append(@, close_func(func)),
                                   !.asserts = @ /\ func.asserts /\ func.bl = <<>>],
                         "CLOSURE", 0, Len(f.p))
  IN  Both(FoldLeft(LAMBDA g, u : luaK_codeABC(g, IF u.k = "LOCAL" THEN "MOVE" ELSE "GETUPVAL",
                                               0, u.info, 0), at, func.upvalues),
           init_exp("RELOCABLE", pc(f)))

-----------------------------------------------------------------------------
(* Expressions.                                                            *)

RECURSIVE subexpr(_, _), chunk(_)
expr(ls) == subexpr(ls, 0)

RECURSIVE explist1(_)
explist1(ls) ==
  LET s == expr(ls)
      t == explist1(luaX_next(Leave(s, luaK_exp2nextreg(Fs(s), s.e))))
  IN  IF Is(s, ",") THEN [t EXCEPT !.n = @ + 1] ELSE [s EXCEPT !.n = 1]

field(ls) ==
  LET s == Leave(ls, luaK_exp2anyreg(Fs(ls), ls.e))
      t == checkname(luaX_next(s))
  IN  Leave(t, luaK_indexed(Fs(t), s.e, t.e))

yindex(ls) ==
  LET s == expr(luaX_next(ls)) IN checknext(Leave(s, luaK_exp2val(Fs(s), s.e)), "]")

\* A constructor; cc.v is the list item that is not in the table yet.
recfield(ls, cc) ==
  LET key  == IF Is(ls, "NAME") THEN checkname(ls) ELSE yindex(ls)
      eq   == checknext(key, "=")
      rk   == luaK_exp2RK(Fs(eq), key.e)
      val  == expr(With(eq, rk.f))
      rv   == luaK_exp2RK(Fs(val), val.e)
  IN  [s  |-> With(val, [luaK_codeABC(rv.f, "SETTABLE", cc.t, RK(rk.e), RK(rv.e))
                           EXCEPT !.freereg = Fs(ls).freereg]),
       cc |-> [cc EXCEPT !.nh = @ + 1]]

listfield(ls, cc) ==
  LET s == expr(ls) IN [s |-> s, cc |-> [cc EXCEPT !.v = s.e, !.na = @ + 1, !.tostore = @ + 1]]

closelistfield(ls, cc) ==
  LET x == luaK_exp2nextreg(Fs(ls), cc.v)
      c == [cc EXCEPT !.v.k = "VOID"]
  IN CASE cc.v.k = "VOID" -> [s |-> ls, cc |-> cc]
       [] cc.v.k # "VOID" /\ cc.tostore = LFIELDS_PER_FLUSH ->
            [s |-> With(ls, luaK_setlist(x.f, cc.t, cc.na, cc.tostore)), cc |-> [c EXCEPT !.tostore = 0]]
       [] OTHER -> [s |-> With(ls, x.f), cc |-> c]

lastlistfield(f, cc) ==
  CASE cc.tostore = 0 -> f
    [] cc.tostore # 0 /\ hasmultret(cc.v.k) ->
         luaK_setlist(luaK_setreturns(f, cc.v, LUA_MULTRET), cc.t, cc.na, LUA_MULTRET)
    [] OTHER -> luaK_setlist(IF cc.v.k = "VOID" THEN f ELSE luaK_exp2nextreg(f, cc.v).f,
                             cc.t, cc.na, cc.tostore)

RECURSIVE fields(_, _)
fields(ls, cc) ==
  LET x    == closelistfield(ls, cc)
      rec  == Is(ls, "[") \/ (Is(ls, "NAME") /\ ls.tok[2].t = "=")
      y    == IF rec THEN recfield(x.s, x.cc) ELSE listfield(x.s, x.cc)
  IN  CASE Is(ls, "}")                     -> [s |-> ls, cc |-> cc]
        [] ~Is(ls, "}") /\ (Is(y.s, ",") \/ Is(y.s, ";")) -> fields(luaX_next(y.s), y.cc)
        [] OTHER                           -> y

\* The sizes of the two parts, which OP_NEWTABLE has as hints, are not rounded.
constructor(ls) ==
  LET at == pc(Fs(ls))
      x  == luaK_exp2nextreg(luaK_codeABC(Fs(ls), "NEWTABLE", 0, 0, 0), init_exp("RELOCABLE", at))
      y  == fields(checknext(With(ls, x.f), "{"),
                   [v |-> init_exp("VOID", 0), t |-> x.e.info, nh |-> 0, na |-> 0, tostore |-> 0])
      s  == checknext(y.s, "}")
      g  == lastlistfield(Fs(s), y.cc)
      na == y.cc.na - (IF y.cc.tostore # 0 /\ hasmultret(y.cc.v.k) THEN 1 ELSE 0)
  IN  Leave(s, Both([g EXCEPT !.code[at + 1].b = na, !.code[at + 1].c = y.cc.nh], x.e))

\* The names up to the end of a parameter list.
RECURSIVE parlist(_, _)
parlist(ls, nparams) ==
  LET more == luaX_next(ls)
      f    == new_localvar(Fs(ls), Head(ls.tok).v, nparams)
  IN CASE Is(ls, "NAME") -> IF Is(more, ",") THEN parlist(luaX_next(With(more, f)), nparams + 1)
                            ELSE With(more, adjustlocalvars(f, nparams + 1))
       [] Is(ls, "...")  -> With(more, adjustlocalvars(
                                [new_localvar(Fs(ls), "arg", nparams)
                                   EXCEPT !.is_vararg = {"HASARG", "NEEDSARG", "ISVARARG"}], nparams + 1))
       [] OTHER          -> syntaxerror(ls)

body(ls, needself) ==
  LET f0 == open_func({})
      f1 == IF needself THEN adjustlocalvars(new_localvar(f0, "self", 0), 1) ELSE f0
      s0 == checknext([ls EXCEPT !.fs = Append(@, f1)], "(")
      s1 == IF Is(s0, ")") THEN s0 ELSE parlist(s0, 0)
      g  == Fs(s1)
      s2 == With(s1, luaK_reserveregs(
                   [g EXCEPT !.numparams = g.nactvar - (IF "HASARG" \in g.is_vararg THEN 1 ELSE 0)],
                   g.nactvar))
      s3 == checknext(chunk(checknext(s2, ")")), "end")
      s4 == [s3 EXCEPT !.fs = Front(@)]
  IN  Leave(s4, pushclosure(Fs(s4), Fs(s3)))

funcargs(ls) ==
  LET f    == ls.e
      base == f.info
      none == luaX_next(ls)
      list == explist1(none)
      s == CASE Is(ls, "(")      -> IF Is(none, ")")
                                    THEN luaX_next([none EXCEPT !.e = init_exp("VOID", 0)])
                                    ELSE checknext(With(list, luaK_setreturns(Fs(list), list.e, LUA_MULTRET)), ")")
             [] Is(ls, "{")      -> constructor(ls)
             [] Is(ls, "STRING") -> luaX_next(codestring(ls, Head(ls.tok).v))
             [] OTHER            -> syntaxerror(ls)
      g == IF hasmultret(s.e.k) \/ s.e.k = "VOID" THEN Fs(s) ELSE luaK_exp2nextreg(Fs(s), s.e).f
      nparams == IF hasmultret(s.e.k) THEN LUA_MULTRET ELSE g.freereg - (base + 1)
      h == luaK_codeABC(lua_assert(g, f.k = "NONRELOC"), "CALL", base, nparams + 1, 2)
  IN  IF s.error THEN s
      ELSE Leave(s, Both([h EXCEPT !.freereg = base + 1], init_exp("CALL", pc(g))))

prefixexp(ls) ==
  LET s == checknext(expr(luaX_next(ls)), ")") IN
  IF Is(ls, "(") THEN Leave(s, luaK_dischargevars(Fs(s), s.e)) ELSE singlevar(ls)

\* What follows a prefix.
RECURSIVE suffixes(_)
suffixes(ls) ==
  LET any == Leave(ls, luaK_exp2anyreg(Fs(ls), ls.e))
      key == IF Is(ls, "[") THEN yindex(any) ELSE checkname(luaX_next(ls))
      fn  == Leave(ls, luaK_exp2nextreg(Fs(ls), ls.e))
  IN CASE Is(ls, ".") -> suffixes(field(ls))
       [] Is(ls, "[") -> suffixes(Leave(key, luaK_indexed(Fs(key), any.e, key.e)))
       [] Is(ls, ":") -> suffixes(funcargs(Leave(key, luaK_self(Fs(key), ls.e, key.e))))
       [] Head(ls.tok).t \in {"(", "STRING", "{"} -> suffixes(funcargs(fn))
       [] OTHER       -> ls

primaryexp(ls) == suffixes(prefixexp(ls))

simpleexp(ls) ==
  LET t == Head(ls.tok).t
      v == Head(ls.tok).v
      f == Fs(ls)
      g == luaK_codeABC([f EXCEPT !.is_vararg = @ \ {"NEEDSARG"}], "VARARG", 0, 1, 0)
      constant(e) == luaX_next([ls EXCEPT !.e = e])
  IN CASE t = "NUMBER"   -> constant(init_exp("KNUM", v))
       [] t = "STRING"   -> luaX_next(codestring(ls, v))
       [] t = "nil"      -> constant(init_exp("NIL", 0))
       [] t = "true"     -> constant(init_exp("TRUE", 0))
       [] t = "false"    -> constant(init_exp("FALSE", 0))
       [] t = "..."      -> IF f.is_vararg = {} THEN syntaxerror(ls)
                            ELSE luaX_next(Leave(ls, Both(g, init_exp("VARARG", pc(f)))))
       [] t = "{"        -> constructor(ls)
       [] t = "function" -> body(luaX_next(ls), FALSE)
       [] OTHER          -> primaryexp(ls)

\* The left and the right priority of an operator.
priority(op) ==
  CASE op \in {"+", "-"} -> <<6, 6>>
    [] op \in {"*", "%"} -> <<7, 7>>
    [] op = ".."         -> <<5, 4>>
    [] op \in {"==", "~=", "<", "<=", ">", ">="} -> <<3, 3>>
    [] op = "and"        -> <<2, 2>>
    [] op = "or"         -> <<1, 1>>
    [] OTHER             -> <<0, 0>>

RECURSIVE binops(_, _)
binops(ls, limit) ==
  LET op == Head(ls.tok).t
      l  == Leave(luaX_next(ls), luaK_infix(Fs(ls), op, ls.e))
      r  == subexpr(l, priority(op)[2])
  IN  IF priority(op)[1] <= limit THEN ls
      ELSE binops(IF r.error THEN r ELSE Leave(r, luaK_posfix(Fs(r), op, l.e, r.e)), limit)

UNARY_PRIORITY == 8

subexpr(ls, limit) ==
  LET op == Head(ls.tok).t
      s  == subexpr(luaX_next(ls), UNARY_PRIORITY)
  IN  binops(IF op \in {"not", "-", "#"} THEN Leave(s, luaK_prefix(Fs(s), op, s.e)) ELSE simpleexp(ls),
             limit)

-----------------------------------------------------------------------------
(* Statements.                                                             *)

adjust_assign(f, nvars, nexps, e) ==
  LET extra == nvars - nexps
      more  == IF extra + 1 < 0 THEN 0 ELSE extra + 1
      g     == IF e.k = "VOID" THEN f ELSE luaK_exp2nextreg(f, e).f
      h     == luaK_setreturns(f, e, more)
  IN  IF hasmultret(e.k) THEN IF more > 1 THEN luaK_reserveregs(h, more - 1) ELSE h
      ELSE IF extra > 0 THEN luaK_nil(luaK_reserveregs(g, extra), g.freereg, extra) ELSE g

block(ls) == LeaveBlock(chunk(Enter(ls, FALSE)))

\* A local that is assigned is copied if an assignment on its left uses it.
check_conflict(f, lh, v) ==
  LET extra == f.freereg
      new   == [i \in DOMAIN lh |-> IF lh[i].k # "INDEXED" THEN lh[i]
                                    ELSE [lh[i] EXCEPT !.info = IF @ = v.info THEN extra ELSE @,
                                                       !.aux  = IF @ = v.info THEN extra ELSE @]]
  IN  [f  |-> IF new = lh THEN f ELSE luaK_reserveregs(luaK_codeABC(f, "MOVE", extra, v.info, 0), 1),
       lh |-> new]

\* The variables on the left-hand side.
RECURSIVE lhs(_, _)
lhs(ls, lh) ==
  LET s == primaryexp(luaX_next(ls))
      x == IF s.e.k = "LOCAL" THEN check_conflict(Fs(s), lh, s.e) ELSE [f |-> Fs(s), lh |-> lh]
  IN  IF Is(ls, ",") THEN lhs(With(s, x.f), Append(x.lh, s.e)) ELSE [s |-> ls, lh |-> lh]

\* The last variable takes the last value directly when their numbers agree,
\* and the others take theirs from the registers, the last first.
assignment(ls) ==
  LET x     == lhs(ls, <<ls.e>>)
      lh    == x.lh
      nvars == Len(lh)
      s     == explist1(checknext(x.s, "="))
      f     == Fs(s)
      last  == luaK_setoneret(f, s.e)
      adj   == adjust_assign(f, nvars, s.n, s.e)
      extra == IF s.n > nvars THEN s.n - nvars ELSE 0
      start == IF s.n = nvars THEN luaK_storevar(last.f, lh[nvars], last.e)
               ELSE [adj EXCEPT !.freereg = @ - extra]
      rest  == IF s.n = nvars THEN Front(lh) ELSE lh
  IN  IF x.s.error \/ s.error \/ ~(\A i \in DOMAIN lh : lh[i].k \in {"LOCAL", "UPVAL", "GLOBAL", "INDEXED"})
      THEN syntaxerror(s)
      ELSE With(s, FoldLeft(LAMBDA g, v : luaK_storevar(g, v, init_exp("NONRELOC", g.freereg - 1)),
                            start, Reverse(rest)))

exprstat(ls) ==
  LET s == primaryexp(ls) IN
  IF s.e.k = "CALL" THEN With(s, [Fs(s) EXCEPT !.code[s.e.info + 1].c = 1]) ELSE assignment(s)

\* The jump out of the statement is left in e.f.
cond(ls) ==
  LET s == expr(ls)
  IN  Leave(s, luaK_goiftrue(Fs(s), IF s.e.k = "NIL" THEN [s.e EXCEPT !.k = "FALSE"] ELSE s.e))

breakstat(ls) ==
  LET f     == Fs(ls)
      loops == {i \in DOMAIN f.bl : f.bl[i].isbreakable}
      b     == Max(loops)
      g     == IF \E i \in b + 1..Len(f.bl) : f.bl[i].upval
               THEN luaK_codeABC(f, "CLOSE", f.bl[b].nactvar, 0, 0) ELSE f
      h     == luaK_jump(g)
  IN  IF loops = {} THEN syntaxerror(ls)
      ELSE With(ls, [luaK_concat(h, h.bl[b].breaklist, pc(g))
                       EXCEPT !.bl[b].breaklist = Joined(h.bl[b].breaklist, pc(g))])

JumpTo(f, target) == luaK_patchlist(luaK_jump(f), pc(f), target)

whilestat(ls) ==
  LET s0        == luaX_next(ls)
      whileinit == pc(Fs(s0))
      s1        == cond(With(s0, luaK_getlabel(Fs(s0))))
      s2        == block(checknext(Enter(s1, TRUE), "do"))
      s3        == checknext(With(s2, JumpTo(Fs(s2), whileinit)), "end")
  IN  With(s3, luaK_patchtohere(leaveblock(Fs(s3)), s1.e.f))

repeatstat(ls) ==
  LET repeat_init == pc(Fs(ls))
      s0 == Enter(Enter(With(ls, luaK_getlabel(Fs(ls))), TRUE), FALSE)
      s1 == cond(checknext(chunk(luaX_next(s0)), "until"))
      f  == Fs(s1)
      b  == Fs(breakstat(s1))
      h  == leaveblock(luaK_patchtohere(b, s1.e.f))
  IN  With(s1, leaveblock(IF ~Last(f.bl).upval THEN luaK_patchlist(leaveblock(f), s1.e.f, repeat_init)
                          ELSE JumpTo(h, repeat_init)))

exp1(ls) == LET s == expr(ls) IN Leave(s, luaK_exp2nextreg(Fs(s), s.e))

forbody(ls, base, nvars, isnum) ==
  LET s0   == checknext(With(ls, adjustlocalvars(Fs(ls), 3)), "do")
      prep == pc(Fs(s0))
      f0   == IF isnum THEN luaK_codeABx(Fs(s0), "FORPREP", base, NO_JUMP) ELSE luaK_jump(Fs(s0))
      f1   == luaK_reserveregs(adjustlocalvars(enterblock(f0, FALSE), nvars), nvars)
      s1   == LeaveBlock(block(With(s0, f1)))
      f2   == luaK_patchtohere(Fs(s1), prep)
      loop == luaK_codeABx(f2, "FORLOOP", base, NO_JUMP)
      call == luaK_codeABC(f2, "TFORLOOP", base, 0, nvars)
  IN  With(s1, IF isnum THEN luaK_patchlist(loop, pc(f2), prep + 1) ELSE JumpTo(call, prep + 1))

ForControl(kind) == IF kind = "num" THEN <<"(for index)", "(for limit)", "(for step)">>
                                    ELSE <<"(for generator)", "(for state)", "(for control)">>

\* At the = of the loop, whose variable has been read.
fornum(ls, name) ==
  LET base == Fs(ls).freereg
      s0   == With(ls, newlocals(Fs(ls), Append(ForControl("num"), name)))
      s1   == exp1(checknext(exp1(checknext(s0, "=")), ","))
      one  == addk(Fs(s1), Number(1))
      code == luaK_codeABx(one, "LOADK", one.freereg, Kindex(one, Number(1)))
      s2   == IF Is(s1, ",") THEN exp1(luaX_next(s1)) ELSE With(s1, luaK_reserveregs(code, 1))
  IN  forbody(s2, base, 1, TRUE)

\* The names of a list, which is not empty, and what comes after it.
RECURSIVE namelist(_, _)
namelist(ls, names) ==
  LET s == luaX_next(ls)
      more == Append(names, Head(ls.tok).v)
  IN  IF ~Is(ls, "NAME") THEN [s |-> syntaxerror(ls), names |-> names]
      ELSE IF Is(s, ",") THEN namelist(luaX_next(s), more) ELSE [s |-> s, names |-> more]

forlist(ls, name) ==
  LET base == Fs(ls).freereg
      x    == IF Is(ls, ",") THEN namelist(luaX_next(ls), <<name>>) ELSE [s |-> ls, names |-> <<name>>]
      s0   == With(x.s, newlocals(Fs(x.s), ForControl("list") \o x.names))
      s1   == explist1(checknext(s0, "in"))
      f    == luaK_checkstack(adjust_assign(Fs(s1), 3, s1.n, s1.e), 3)
  IN  forbody(With(s1, f), base, Len(x.names), FALSE)

forstat(ls) ==
  LET s0   == luaX_next(Enter(ls, TRUE))
      name == Head(s0.tok).v
      s1   == luaX_next(s0)
      s2   == CASE Is(s0, "NAME") /\ Is(s1, "=")                     -> fornum(s1, name)
                [] Is(s0, "NAME") /\ Head(s1.tok).t \in {",", "in"}  -> forlist(s1, name)
                [] OTHER                                             -> syntaxerror(s1)
  IN  LeaveBlock(checknext(s2, "end"))

\* The jump over the block is left in e.f.
test_then_block(ls) ==
  LET s == cond(luaX_next(ls)) IN [block(checknext(s, "then")) EXCEPT !.e = s.e]

\* What follows a block whose condition failed: flist waits for this, and
\* escapelist for the end of the statement.
RECURSIVE elseparts(_, _, _)
elseparts(ls, flist, escapelist) ==
  LET f    == Fs(ls)
      jump == pc(f)
      over == luaK_jump(f)
      g    == luaK_patchtohere(luaK_concat(over, escapelist, jump), flist)
      t    == test_then_block(With(ls, g))
      e    == block(luaX_next(With(ls, g)))
  IN CASE Is(ls, "elseif") -> elseparts(t, t.e.f, Joined(escapelist, jump))
       [] Is(ls, "else")   -> With(e, luaK_patchtohere(Fs(e), Joined(escapelist, jump)))
       [] OTHER            -> With(ls, luaK_patchtohere(luaK_concat(f, escapelist, flist),
                                                        Joined(escapelist, flist)))

ifstat(ls) == LET s == test_then_block(ls) IN checknext(elseparts(s, s.e.f, NO_JUMP), "end")

localfunc(ls) ==
  LET f == Fs(ls)
      g == adjustlocalvars(luaK_reserveregs(new_localvar(f, Head(ls.tok).v, 0), 1), 1)
      s == body(luaX_next(With(ls, g)), FALSE)
  IN  IF Is(ls, "NAME") THEN With(s, luaK_storevar(Fs(s), init_exp("LOCAL", f.freereg), s.e))
      ELSE syntaxerror(ls)

\* The variables are active only after the expressions.
localstat(ls) ==
  LET x == namelist(ls, <<>>)
      n == Len(x.names)
      s == With(x.s, newlocals(Fs(x.s), x.names))
      t == IF Is(s, "=") THEN explist1(luaX_next(s)) ELSE [s EXCEPT !.n = 0, !.e = init_exp("VOID", 0)]
  IN  With(t, adjustlocalvars(adjust_assign(Fs(t), n, t.n, t.e), n))

RECURSIVE funcname(_)
funcname(ls) == IF Is(ls, ".") THEN funcname(field(ls)) ELSE ls

funcstat(ls) ==
  LET name == funcname(singlevar(luaX_next(ls)))
      self == Is(name, ":")
      v    == IF self THEN field(name) ELSE name
      b    == body(v, self)
  IN  IF v.error THEN v ELSE With(b, luaK_storevar(Fs(b), v.e, b.e))

retstat(ls) ==
  LET s0   == luaX_next(ls)
      none == block_follow(s0) \/ Is(s0, ";")
      s    == explist1(s0)
      mult == hasmultret(s.e.k)
      f    == luaK_setreturns(Fs(s), s.e, LUA_MULTRET)
      tail == s.e.k = "CALL" /\ s.n = 1
      g    == IF tail THEN lua_assert([f EXCEPT !.code[s.e.info + 1].op = "TAILCALL"],
                                      f.code[s.e.info + 1].a = f.nactvar) ELSE f
      any  == luaK_exp2anyreg(Fs(s), s.e)
      all  == luaK_exp2nextreg(Fs(s), s.e).f
  IN CASE none          -> With(s0, luaK_ret(Fs(s0), 0, 0))
       [] ~none /\ mult -> With(s, luaK_ret(g, f.nactvar, LUA_MULTRET))
       [] ~none /\ ~mult /\ s.n = 1 -> With(s, luaK_ret(any.f, any.e.info, 1))
       [] OTHER         -> With(s, luaK_ret(lua_assert(all, s.n = all.freereg - all.nactvar), all.nactvar, s.n))

statement(ls) ==
  LET t == Head(ls.tok).t
      next == luaX_next(ls)
  IN CASE t = "if"       -> ifstat(ls)
       [] t = "while"    -> whilestat(ls)
       [] t = "do"       -> checknext(block(next), "end")
       [] t = "for"      -> forstat(ls)
       [] t = "repeat"   -> repeatstat(ls)
       [] t = "function" -> funcstat(ls)
       [] t = "local"    -> IF Is(next, "function") THEN localfunc(luaX_next(next)) ELSE localstat(next)
       [] t = "return"   -> retstat(ls)
       [] t = "break"    -> breakstat(next)
       [] OTHER          -> exprstat(ls)

\* Registers that no active variable needs are free after a statement.
chunk(ls) ==
  LET s == testnext(statement(ls), ";")
      f == Fs(s)
      g == [lua_assert(f, f.maxstacksize >= f.freereg /\ f.freereg >= f.nactvar) EXCEPT !.freereg = f.nactvar]
  IN  IF block_follow(ls) THEN ls
      ELSE IF Head(ls.tok).t \in {"return", "break"} THEN With(s, g) ELSE chunk(With(s, g))

luaY_parser(tokens) ==
  LET s == checknext(chunk([tok |-> tokens, fs |-> <<open_func({"ISVARARG"})>>, n |-> 0,
                            e |-> init_exp("VOID", 0), error |-> FALSE]), "EOS")
      f == Fs(s)
  IN  [proto |-> close_func(f), error |-> s.error,
       asserts |-> f.asserts /\ f.bl = <<>> /\ f.upvalues = <<>>]
=============================================================================

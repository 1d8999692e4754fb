------------------------------- MODULE LuaCode -------------------------------
(***************************************************************************)
(* The code generator (lcode.c), for one function at a time: f is its     *)
(* FuncState and e an expression that is not yet in a register.  A C       *)
(* function that changes both gives a record of both.  Jumps that wait for *)
(* their target are lists threaded through the code.  A lua_assert that    *)
(* fails clears f.asserts.                                                 *)
(*                                                                         *)
(* Left out: line numbers, limits on sizes, and the operators / and ^,     *)
(* which take the same path as the others.                                 *)
(***************************************************************************)
EXTENDS LuaOpcodes, LuaValue, Sequences, SequencesExt

pc(f) == Len(f.code)

lua_assert(f, c) == [f EXCEPT !.asserts = @ /\ c]
Both(f, e)   == [f |-> f, e |-> e]

\* An expdesc; info is also the value of a numeral.
init_exp(k, i) == [k |-> k, info |-> i, aux |-> 0, t |-> NO_JUMP, f |-> NO_JUMP]
hasjumps(e)    == e.t # e.f
isnumeral(e)   == e.k = "KNUM" /\ e.t = NO_JUMP /\ e.f = NO_JUMP
hasmultret(k)  == k \in {"CALL", "VARARG"}

-----------------------------------------------------------------------------
(* Jump lists.                                                             *)

fixjump(f, p, dest) == lua_assert([f EXCEPT !.code[p + 1].b = dest - (p + 1)], dest # NO_JUMP)

luaK_getlabel(f) == [f EXCEPT !.lasttarget = pc(f)]

getjump(f, p) ==
  LET offset == f.code[p + 1].b IN IF offset = NO_JUMP THEN NO_JUMP ELSE p + 1 + offset

\* The jumps of a list.
RECURSIVE Jumps(_, _)
Jumps(f, list) == IF list = NO_JUMP THEN <<>> ELSE <<list>> \o Jumps(f, getjump(f, list))

getjumpcontrol(f, p) == IF p >= 1 /\ testTMode(f.code[p].op) THEN p - 1 ELSE p

Control(f, p) == f.code[getjumpcontrol(f, p) + 1]

need_value(f, list) == \E j \in ToSet(Jumps(f, list)) : Control(f, j).op # "TESTSET"

patchtestreg(f, node, reg) ==
  LET i == Control(f, node) IN
  IF i.op # "TESTSET" THEN f
  ELSE [f EXCEPT !.code[getjumpcontrol(f, node) + 1] =
          IF reg # NO_REG /\ reg # i.b THEN [i EXCEPT !.a = reg] ELSE CREATE("TEST", i.b, 0, i.c)]

removevalues(f, list) == FoldLeft(LAMBDA g, j : patchtestreg(g, j, NO_REG), f, Jumps(f, list))

\* Jumps that bring a value go to vtarget, and the others to dtarget.
patchlistaux(f, list, vtarget, reg, dtarget) ==
  FoldLeft(LAMBDA g, j : fixjump(patchtestreg(g, j, reg), j,
                                 IF Control(g, j).op = "TESTSET" THEN vtarget ELSE dtarget),
           f, Jumps(f, list))

dischargejpc(f) == [patchlistaux(f, f.jpc, pc(f), NO_REG, pc(f)) EXCEPT !.jpc = NO_JUMP]

\* luaK_concat sets its first list to Joined.
Joined(l1, l2) == IF l1 = NO_JUMP THEN l2 ELSE l1

luaK_concat(f, l1, l2) ==
  IF l1 = NO_JUMP \/ l2 = NO_JUMP THEN f ELSE fixjump(f, Last(Jumps(f, l1)), l2)

luaK_patchtohere(f, list) ==
  [luaK_concat(luaK_getlabel(f), f.jpc, list) EXCEPT !.jpc = Joined(f.jpc, list)]

luaK_patchlist(f, list, target) ==
  IF target = pc(f) THEN luaK_patchtohere(f, list)
  ELSE patchlistaux(lua_assert(f, target < pc(f)), list, target, NO_REG, target)

-----------------------------------------------------------------------------
(* Instructions; the one that is added is at pc(f).                        *)

luaK_code(f, i) == LET g == dischargejpc(f) IN [g EXCEPT !.code = Append(@, i)]

luaK_codeABC(f, op, a, b, c) == luaK_code(f, CREATE(op, a, b, c))
luaK_codeABx(f, op, a, bx)   == luaK_code(f, CREATE(op, a, bx, 0))

\* The jump takes over those that wait for this position.
luaK_jump(f) ==
  luaK_concat(luaK_codeABx([f EXCEPT !.jpc = NO_JUMP], "JMP", 0, NO_JUMP), pc(f), f.jpc)

\* Mutant: the previous instruction may be the end of a block.
luaK_nil_AnyBlock(f, from, n) ==
  LET last == f.code[pc(f)] IN
  IF pc(f) = 0 /\ from >= f.nactvar THEN f
  ELSE IF pc(f) > 0 /\ (IF pc(f) > 0 THEN last.op = "LOADNIL" /\ last.a <= from /\ from <= last.b + 1
                        ELSE FALSE)
  THEN [f EXCEPT !.code[pc(f)].b = IF from + n - 1 > @ THEN from + n - 1 ELSE @]
  ELSE luaK_codeABC(f, "LOADNIL", from, from + n - 1, 0)

\* No instruction at the start of a function, where registers are nil, and one
\* for neighbours, unless a jump comes between them.
luaK_nil(f, from, n) ==
  LET straight == pc(f) > f.lasttarget
      last     == f.code[pc(f)]
  IN  IF straight /\ pc(f) = 0 /\ from >= f.nactvar THEN f
      ELSE IF straight /\ pc(f) > 0
              /\ (IF pc(f) = 0 THEN FALSE
                  ELSE last.op = "LOADNIL" /\ last.a <= from /\ from <= last.b + 1)
      THEN [f EXCEPT !.code[pc(f)].b = IF from + n - 1 > @ THEN from + n - 1 ELSE @]
      ELSE luaK_codeABC(f, "LOADNIL", from, from + n - 1, 0)

luaK_ret(f, first, nret) == luaK_codeABC(f, "RETURN", first, nret + 1, 0)

\* The jump is then at pc - 1.
condjump(f, op, a, b, c) == luaK_jump(luaK_codeABC(f, op, a, b, c))

code_label(f, a, b, jump) == luaK_codeABC(luaK_getlabel(f), "LOADBOOL", a, b, jump)

-----------------------------------------------------------------------------
(* Registers and constants.                                                *)

luaK_checkstack(f, n) ==
  [f EXCEPT !.maxstacksize = IF f.freereg + n > @ THEN f.freereg + n ELSE @]

luaK_reserveregs(f, n) == [luaK_checkstack(f, n) EXCEPT !.freereg = @ + n]

freereg(f, reg) ==
  IF ISK(reg) \/ reg < f.nactvar THEN f
  ELSE lua_assert([f EXCEPT !.freereg = @ - 1], reg = f.freereg - 1)

freeexp(f, e) == IF e.k = "NONRELOC" THEN freereg(f, e.info) ELSE f

addk(f, v)   == IF Contains(f.k, v) THEN f ELSE [f EXCEPT !.k = Append(@, v)]
Kindex(f, v) == (CHOOSE n \in DOMAIN f.k : f.k[n] = v) - 1


-----------------------------------------------------------------------------
(* Expressions go to registers.                                            *)

luaK_setreturns(f, e, nresults) ==
  IF e.k = "CALL" THEN [f EXCEPT !.code[e.info + 1].c = nresults + 1]
  ELSE IF e.k = "VARARG"
  THEN luaK_reserveregs([f EXCEPT !.code[e.info + 1].b = nresults + 1,
                                  !.code[e.info + 1].a = f.freereg], 1)
  ELSE f

luaK_setoneret(f, e) ==
  IF e.k = "CALL" THEN Both(f, [e EXCEPT !.k = "NONRELOC", !.info = f.code[e.info + 1].a])
  ELSE IF e.k = "VARARG" THEN Both([f EXCEPT !.code[e.info + 1].b = 2], [e EXCEPT !.k = "RELOCABLE"])
  ELSE Both(f, e)

luaK_dischargevars(f, e) ==
  LET code(g, op, b, c) == Both(luaK_codeABC(g, op, 0, b, c),
                                [e EXCEPT !.k = "RELOCABLE", !.info = pc(g)])
  IN CASE e.k = "LOCAL"   -> Both(f, [e EXCEPT !.k = "NONRELOC"])
       [] e.k = "UPVAL"   -> code(f, "GETUPVAL", e.info, 0)
       [] e.k = "GLOBAL"  -> code(f, "GETGLOBAL", e.info, 0)
       [] e.k = "INDEXED" -> code(freereg(freereg(f, e.aux), e.info), "GETTABLE", e.info, e.aux)
       [] OTHER           -> luaK_setoneret(f, e)

discharge2reg(f, e, reg) ==
  LET x == luaK_dischargevars(f, e)
      k == x.e.k
      n == Number(x.e.info)
      g == CASE k = "NIL"             -> luaK_nil(x.f, reg, 1)
             [] k \in {"TRUE", "FALSE"} -> luaK_codeABC(x.f, "LOADBOOL", reg,
                                                        IF k = "TRUE" THEN 1 ELSE 0, 0)
             [] k = "K"               -> luaK_codeABx(x.f, "LOADK", reg, x.e.info)
             [] k = "KNUM"            -> LET h == addk(x.f, n) IN
                                         luaK_codeABx(h, "LOADK", reg, Kindex(h, n))
             [] k = "RELOCABLE"       -> [x.f EXCEPT !.code[x.e.info + 1].a = reg]
             [] k = "NONRELOC"        -> IF reg = x.e.info THEN x.f
                                         ELSE luaK_codeABC(x.f, "MOVE", reg, x.e.info, 0)
             [] OTHER                 -> lua_assert(x.f, k \in {"VOID", "JMP"})
  IN  Both(g, IF k \in {"VOID", "JMP"} THEN x.e ELSE [x.e EXCEPT !.k = "NONRELOC", !.info = reg])

discharge2anyreg(f, e) ==
  IF e.k = "NONRELOC" THEN Both(f, e)
  ELSE LET g == luaK_reserveregs(f, 1) IN discharge2reg(g, e, g.freereg - 1)

\* Jumps that bring no value of their own go to a LOADBOOL after the expression.
exp2reg(f, e, reg) ==
  LET x      == discharge2reg(f, e, reg)
      jmp    == x.e.k = "JMP"
      t      == IF jmp THEN Joined(x.e.t, x.e.info) ELSE x.e.t
      start  == IF jmp THEN luaK_concat(x.f, x.e.t, x.e.info) ELSE x.f
      values == need_value(start, t) \/ need_value(start, x.e.f)
      around == IF jmp THEN start ELSE luaK_jump(start)
      p_f    == pc(around)
      p_t    == p_f + 1
      loads  == code_label(code_label(around, reg, 0, 1), reg, 1, 0)
      final  == IF values THEN luaK_patchtohere(loads, IF jmp THEN NO_JUMP ELSE pc(start)) ELSE start
      here   == pc(final)
  IN  Both(IF t = x.e.f THEN start
           ELSE patchlistaux(patchlistaux(luaK_getlabel(final), x.e.f, here, reg,
                                          IF values THEN p_f ELSE NO_JUMP),
                             t, here, reg, IF values THEN p_t ELSE NO_JUMP),
           init_exp("NONRELOC", reg))

luaK_exp2nextreg(f, e) ==
  LET x == luaK_dischargevars(f, e)
      g == luaK_reserveregs(freeexp(x.f, x.e), 1)
  IN  exp2reg(g, x.e, g.freereg - 1)

luaK_exp2anyreg(f, e) ==
  LET x == luaK_dischargevars(f, e) IN
  CASE x.e.k = "NONRELOC" /\ ~hasjumps(x.e)          -> x
    [] x.e.k = "NONRELOC" /\ hasjumps(x.e)
         /\ x.e.info >= f.nactvar                    -> exp2reg(x.f, x.e, x.e.info)
    [] OTHER                                         -> luaK_exp2nextreg(x.f, x.e)

luaK_exp2val(f, e) == IF hasjumps(e) THEN luaK_exp2anyreg(f, e) ELSE luaK_dischargevars(f, e)

\* What luaK_exp2RK returns for the expression that it leaves.
RK(e) == IF e.k = "K" THEN RKASK(e.info) ELSE e.info

luaK_exp2RK(f, e) ==
  LET x == luaK_exp2val(f, e)
      v == CASE x.e.k = "KNUM" -> Number(x.e.info)
             [] x.e.k = "NIL"  -> Nil
             [] OTHER          -> Bool(x.e.k = "TRUE")
      g == addk(x.f, v)
  IN  CASE x.e.k \in {"KNUM", "TRUE", "FALSE", "NIL"} /\ Len(x.f.k) <= MAXINDEXRK
             -> Both(g, [x.e EXCEPT !.k = "K", !.info = Kindex(g, v)])
        [] x.e.k = "K" /\ x.e.info <= MAXINDEXRK -> x
        [] OTHER -> luaK_exp2anyreg(x.f, x.e)

luaK_storevar(f, var, ex) ==
  LET x == luaK_exp2anyreg(f, ex)
      r == luaK_exp2RK(f, ex)
  IN CASE var.k = "LOCAL"   -> exp2reg(freeexp(f, ex), ex, var.info).f
       [] var.k = "UPVAL"   -> freeexp(luaK_codeABC(x.f, "SETUPVAL", x.e.info, var.info, 0), x.e)
       [] var.k = "GLOBAL"  -> freeexp(luaK_codeABx(x.f, "SETGLOBAL", x.e.info, var.info), x.e)
       [] var.k = "INDEXED" -> freeexp(luaK_codeABC(r.f, "SETTABLE", var.info, var.aux, RK(r.e)), r.e)

luaK_self(f, e, key) ==
  LET x    == luaK_exp2anyreg(f, e)
      g    == freeexp(x.f, x.e)
      func == g.freereg
      y    == luaK_exp2RK(luaK_reserveregs(g, 2), key)
  IN  Both(freeexp(luaK_codeABC(y.f, "SELF", func, x.e.info, RK(y.e)), y.e),
           [x.e EXCEPT !.k = "NONRELOC", !.info = func])

-----------------------------------------------------------------------------
(* Conditions.                                                             *)

invertjump(f, e) ==
  LET c == getjumpcontrol(f, e.info) + 1 IN
  lua_assert([f EXCEPT !.code[c].a = 1 - @], f.code[c].op \in Comparison)

\* Jumps on cond; the jump is at pc - 1.
jumponcond(f, e, cond) ==
  LET x  == discharge2anyreg(f, e)
      ie == f.code[e.info + 1]
  IN  IF e.k = "RELOCABLE" /\ (IF e.k = "RELOCABLE" THEN ie.op = "NOT" ELSE FALSE)
      THEN condjump([f EXCEPT !.code = Front(@)], "TEST", ie.b, 0, 1 - cond)
      ELSE condjump(freeexp(x.f, x.e), "TESTSET", NO_REG, x.e.info, cond)

luaK_goiftrue(f, e) ==
  LET x == luaK_dischargevars(f, e)
      g == CASE x.e.k \in {"K", "KNUM", "TRUE"} -> x.f
             [] x.e.k = "JMP"                   -> invertjump(x.f, x.e)
             [] OTHER                           -> jumponcond(x.f, x.e, 0)
      p == CASE x.e.k \in {"K", "KNUM", "TRUE"} -> NO_JUMP
             [] x.e.k = "JMP"                   -> x.e.info
             [] OTHER                           -> pc(g) - 1
  IN  Both(luaK_patchtohere(luaK_concat(g, x.e.f, p), x.e.t),
           [x.e EXCEPT !.f = Joined(x.e.f, p), !.t = NO_JUMP])

luaK_goiffalse(f, e) ==
  LET x == luaK_dischargevars(f, e)
      g == IF x.e.k \in {"NIL", "FALSE", "JMP"} THEN x.f ELSE jumponcond(x.f, x.e, 1)
      p == CASE x.e.k \in {"NIL", "FALSE"} -> NO_JUMP
             [] x.e.k = "JMP"              -> x.e.info
             [] OTHER                      -> pc(g) - 1
  IN  Both(luaK_patchtohere(luaK_concat(g, x.e.t, p), x.e.f),
           [x.e EXCEPT !.t = Joined(x.e.t, p), !.f = NO_JUMP])

codenot(f, e) ==
  LET x == luaK_dischargevars(f, e)
      y == discharge2anyreg(x.f, x.e)
      z == CASE x.e.k \in {"NIL", "FALSE"}       -> Both(x.f, [x.e EXCEPT !.k = "TRUE"])
             [] x.e.k \in {"K", "KNUM", "TRUE"}  -> Both(x.f, [x.e EXCEPT !.k = "FALSE"])
             [] x.e.k = "JMP"                    -> Both(invertjump(x.f, x.e), x.e)
             [] OTHER -> LET g == freeexp(y.f, y.e) IN
                         Both(luaK_codeABC(g, "NOT", 0, y.e.info, 0),
                              [y.e EXCEPT !.k = "RELOCABLE", !.info = pc(g)])
  IN  Both(removevalues(removevalues(z.f, z.e.t), z.e.f), [z.e EXCEPT !.f = z.e.t, !.t = z.e.f])

-----------------------------------------------------------------------------
(* Operators.                                                              *)

luaK_indexed(f, t, k) ==
  LET x == luaK_exp2RK(f, k) IN Both(x.f, [t EXCEPT !.k = "INDEXED", !.aux = RK(x.e)])

constfolds(op, e1, e2) ==
  isnumeral(e1) /\ isnumeral(e2) /\ op \in Arithmetic \cup {"UNM"} /\ ~(op = "MOD" /\ e2.info = 0)

\* Mutant: the operands are freed in the order in which they are read.
codearith_FreesInOrder(f, op, e1, e2) ==
  LET x2 == IF op \in {"UNM", "LEN"} THEN Both(f, e2) ELSE luaK_exp2RK(f, e2)
      x1 == luaK_exp2RK(x2.f, e1)
      o2 == IF op \in {"UNM", "LEN"} THEN 0 ELSE RK(x2.e)
      g  == freeexp(freeexp(x1.f, x1.e), x2.e)
  IN  IF constfolds(op, e1, e2) THEN Both(f, [e1 EXCEPT !.info = luai_num(op, e1.info, e2.info)])
      ELSE Both(luaK_codeABC(g, op, 0, RK(x1.e), o2), [x1.e EXCEPT !.k = "RELOCABLE", !.info = pc(g)])

codearith(f, op, e1, e2) ==
  LET x2 == IF op \in {"UNM", "LEN"} THEN Both(f, e2) ELSE luaK_exp2RK(f, e2)
      x1 == luaK_exp2RK(x2.f, e1)
      o2 == IF op \in {"UNM", "LEN"} THEN 0 ELSE RK(x2.e)
      o1 == RK(x1.e)
      g  == IF o1 > o2 THEN freeexp(freeexp(x1.f, x1.e), x2.e)
                       ELSE freeexp(freeexp(x1.f, x2.e), x1.e)
  IN  IF constfolds(op, e1, e2) THEN Both(f, [e1 EXCEPT !.info = luai_num(op, e1.info, e2.info)])
      ELSE Both(luaK_codeABC(g, op, 0, o1, o2), [x1.e EXCEPT !.k = "RELOCABLE", !.info = pc(g)])

\* a > b is compiled as b < a.
codecomp(f, op, cond, e1, e2) ==
  LET x1   == luaK_exp2RK(f, e1)
      x2   == luaK_exp2RK(x1.f, e2)
      g    == freeexp(freeexp(x2.f, x2.e), x1.e)
      swap == cond = 0 /\ op # "EQ"
      o1   == RK(IF swap THEN x2.e ELSE x1.e)
      o2   == RK(IF swap THEN x1.e ELSE x2.e)
      h    == condjump(g, op, IF swap THEN 1 ELSE cond, o1, o2)
  IN  Both(h, [x1.e EXCEPT !.k = "JMP", !.info = pc(h) - 1])

luaK_prefix(f, op, e) ==
  LET x == IF op = "-" /\ isnumeral(e) THEN Both(f, e) ELSE luaK_exp2anyreg(f, e) IN
  IF op = "not" THEN codenot(f, e)
  ELSE codearith(x.f, IF op = "-" THEN "UNM" ELSE "LEN", x.e, init_exp("KNUM", 0))

Codes == [o \in {"+", "-", "*", "%"} |->
            CASE o = "+" -> "ADD" [] o = "-" -> "SUB" [] o = "*" -> "MUL" [] OTHER -> "MOD"]

luaK_infix(f, op, v) ==
  CASE op = "and"                                  -> luaK_goiftrue(f, v)
    [] op = "or"                                   -> luaK_goiffalse(f, v)
    [] op = ".."                                   -> luaK_exp2nextreg(f, v)
    [] op \in DOMAIN Codes /\ isnumeral(v)         -> Both(f, v)
    [] OTHER                                       -> luaK_exp2RK(f, v)

luaK_posfix(f, op, e1, e2) ==
  LET d == luaK_dischargevars(f, e2)
      v == luaK_exp2val(f, e2)
      n == luaK_exp2nextreg(v.f, v.e)
      i == v.f.code[v.e.info + 1]
  IN CASE op = "and" -> Both(luaK_concat(lua_assert(d.f, e1.t = NO_JUMP), d.e.f, e1.f),
                             [d.e EXCEPT !.f = Joined(d.e.f, e1.f)])
       [] op = "or"  -> Both(luaK_concat(lua_assert(d.f, e1.f = NO_JUMP), d.e.t, e1.t),
                             [d.e EXCEPT !.t = Joined(d.e.t, e1.t)])
       [] op = ".."  ->
            IF v.e.k = "RELOCABLE" /\ (IF v.e.k = "RELOCABLE" THEN i.op = "CONCAT" ELSE FALSE)
            THEN Both([freeexp(lua_assert(v.f, e1.info = i.b - 1), e1)
                         EXCEPT !.code[v.e.info + 1].b = e1.info],
                      [e1 EXCEPT !.k = "RELOCABLE", !.info = v.e.info])
            ELSE codearith(n.f, "CONCAT", e1, n.e)
       [] op \in DOMAIN Codes -> codearith(f, Codes[op], e1, e2)
       [] op = "==" -> codecomp(f, "EQ", 1, e1, e2)
       [] op = "~=" -> codecomp(f, "EQ", 0, e1, e2)
       [] op = "<"  -> codecomp(f, "LT", 1, e1, e2)
       [] op = "<=" -> codecomp(f, "LE", 1, e1, e2)
       [] op = ">"  -> codecomp(f, "LT", 0, e1, e2)
       [] op = ">=" -> codecomp(f, "LE", 0, e1, e2)

luaK_setlist(f, base, nelems, tostore) ==
  [luaK_codeABC(lua_assert(f, tostore # 0), "SETLIST", base,
                IF tostore = LUA_MULTRET THEN 0 ELSE tostore,
                (nelems - 1) \div LFIELDS_PER_FLUSH + 1)
     EXCEPT !.freereg = base + 1]
=============================================================================

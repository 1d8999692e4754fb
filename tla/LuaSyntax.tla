------------------------------ MODULE LuaSyntax ------------------------------
(***************************************************************************)
(* The syntax of the language (the reference manual): expressions and      *)
(* statements as trees, and the tokens that they are written with.         *)
(***************************************************************************)
EXTENDS Integers, Sequences, SequencesExt

-----------------------------------------------------------------------------
(* Trees.                                                                  *)

Num(n)       == [t |-> "num", n |-> n]
Str(s)       == [t |-> "str", s |-> s]
Const(c)     == [t |-> c]                  \* nil, true, false and ...
Var(x)       == [t |-> "var", x |-> x]
Index(e, k)  == [t |-> "index", e |-> e, k |-> k]
CallE(f, as) == [t |-> "call", f |-> f, as |-> as]
Method(e, x, as) == [t |-> "method", e |-> e, x |-> x, as |-> as]
Fun(ps, va, b)   == [t |-> "function", ps |-> ps, va |-> va, b |-> b]
Bin(o, l, r) == [t |-> "bin", o |-> o, l |-> l, r |-> r]
Un(o, e)     == [t |-> "un", o |-> o, e |-> e]
Paren(e)     == [t |-> "paren", e |-> e]
\* Items have the key Const("none") or an expression.
TableE(is)   == [t |-> "table", is |-> is]
ListItem(e)  == [k |-> Const("none"), e |-> e]
Pair(k, e)   == [k |-> k, e |-> e]

Local(xs, es)    == [t |-> "local", xs |-> xs, es |-> es]
Assign(vs, es)   == [t |-> "assign", vs |-> vs, es |-> es]
DoBlock(b)       == [t |-> "do", b |-> b]
While(e, b)      == [t |-> "while", e |-> e, b |-> b]
Repeat(b, e)     == [t |-> "repeat", e |-> e, b |-> b]
\* The clauses are pairs; the block after else may be empty.
If(cs, b)        == [t |-> "if", cs |-> cs, b |-> b]
ForNum(x, es, b) == [t |-> "fornum", x |-> x, es |-> es, b |-> b]
ForIn(xs, es, b) == [t |-> "forin", xs |-> xs, es |-> es, b |-> b]
LocalFun(x, f)   == [t |-> "localfunction", x |-> x, f |-> f]
\* function x.path:method; the method is "" if there is none.
FunStat(x, path, m, f) == [t |-> "funstat", x |-> x, path |-> path, m |-> m, f |-> f]
ReturnStat(es)   == [t |-> "return", es |-> es]
BreakStat        == [t |-> "break"]

-----------------------------------------------------------------------------
(* Tokens.  An operand has parentheses only when the manual's precedence   *)
(* demands them.                                                           *)

T(t)     == [t |-> t, v |-> 0]
Name(x)  == [t |-> "NAME", v |-> x]
Toks(ts) == [i \in DOMAIN ts |-> T(ts[i])]

Level(e) ==
  CASE e.t = "bin" -> (CASE e.o = "or" -> 1 [] e.o = "and" -> 2
                         [] e.o \in {"<", ">", "<=", ">=", "~=", "=="} -> 3
                         [] e.o = ".." -> 4 [] e.o \in {"+", "-"} -> 5 [] OTHER -> 6)
    [] e.t = "un"  -> 7
    [] OTHER       -> 9

RECURSIVE Write(_), WriteStat(_), WriteBlock(_)

\* A sequence of token sequences with commas between them.
Commas(ss) == FoldLeft(LAMBDA a, i : a \o (IF i = 1 THEN <<>> ELSE <<T(",")>>) \o ss[i], <<>>,
                       [i \in 1..Len(ss) |-> i])
WriteList(es) == Commas([i \in DOMAIN es |-> Write(es[i])])
Names(xs)     == Commas([i \in DOMAIN xs |-> <<Name(xs[i])>>])
Between(e, l) == IF Level(e) >= l THEN Write(e) ELSE <<T("(")>> \o Write(e) \o <<T(")")>>
Prefix(e)     == IF e.t \in {"var", "index", "call", "method", "paren"} THEN Write(e)
                 ELSE <<T("(")>> \o Write(e) \o <<T(")")>>
WriteBody(f)  == <<T("(")>> \o Commas([i \in DOMAIN f.ps |-> <<Name(f.ps[i])>>]
                                      \o (IF f.va = "" THEN <<>> ELSE << <<T("...")>> >>))
                 \o <<T(")")>> \o WriteBlock(f.b) \o <<T("end")>>
WriteItem(i)  == CASE i.k.t = "none" -> Write(i.e)
                   [] i.k.t = "str"  -> <<Name(i.k.s), T("=")>> \o Write(i.e)
                   [] OTHER          -> <<T("[")>> \o Write(i.k) \o <<T("]"), T("=")>> \o Write(i.e)

Write(e) ==
  LET l == Level(e) IN
  CASE e.t = "num" -> <<[t |-> "NUMBER", v |-> e.n]>>
    [] e.t = "str" -> <<[t |-> "STRING", v |-> e.s]>>
    [] e.t = "var" -> <<Name(e.x)>>
    [] e.t = "paren"  -> <<T("(")>> \o Write(e.e) \o <<T(")")>>
    [] e.t = "index"  -> IF e.k.t = "str" THEN Prefix(e.e) \o <<T("."), Name(e.k.s)>>
                         ELSE Prefix(e.e) \o <<T("[")>> \o Write(e.k) \o <<T("]")>>
    [] e.t = "call"   -> Prefix(e.f) \o <<T("(")>> \o WriteList(e.as) \o <<T(")")>>
    [] e.t = "method" -> Prefix(e.e) \o <<T(":"), Name(e.x), T("(")>> \o WriteList(e.as) \o <<T(")")>>
    [] e.t = "function" -> <<T("function")>> \o WriteBody(e)
    [] e.t = "table"  -> <<T("{")>> \o Commas([i \in DOMAIN e.is |-> WriteItem(e.is[i])]) \o <<T("}")>>
    [] e.t = "un"     -> <<T(e.o)>> \o Between(e.e, 7)
    [] e.t = "bin"    -> IF e.o = ".." THEN Between(e.l, l + 1) \o <<T(e.o)>> \o Between(e.r, l)
                         ELSE Between(e.l, l) \o <<T(e.o)>> \o Between(e.r, l + 1)
    [] OTHER          -> <<T(e.t)>>

WriteStat(d) ==
  LET body(b) == WriteBlock(b) \o <<T("end")>>
      values(es) == IF es = <<>> THEN <<>> ELSE <<T("=")>> \o WriteList(es)
  IN CASE d.t = "local"  -> <<T("local")>> \o Names(d.xs) \o values(d.es)
       [] d.t = "assign" -> WriteList(d.vs) \o values(d.es)
       [] d.t = "do"     -> <<T("do")>> \o body(d.b)
       [] d.t = "while"  -> <<T("while")>> \o Write(d.e) \o <<T("do")>> \o body(d.b)
       [] d.t = "repeat" -> <<T("repeat")>> \o WriteBlock(d.b) \o <<T("until")>> \o Write(d.e)
       [] d.t = "if"     ->
            FoldLeft(LAMBDA a, i : a \o <<T(IF i = 1 THEN "if" ELSE "elseif")>> \o Write(d.cs[i][1])
                                     \o <<T("then")>> \o WriteBlock(d.cs[i][2]),
                     <<>>, [i \in 1..Len(d.cs) |-> i])
            \o (IF d.b = <<>> THEN <<>> ELSE <<T("else")>> \o WriteBlock(d.b)) \o <<T("end")>>
       [] d.t = "fornum" -> <<T("for"), Name(d.x), T("=")>> \o WriteList(d.es) \o <<T("do")>> \o body(d.b)
       [] d.t = "forin"  -> <<T("for")>> \o Names(d.xs) \o <<T("in")>> \o WriteList(d.es) \o <<T("do")>> \o body(d.b)
       [] d.t = "localfunction" -> <<T("local"), T("function"), Name(d.x)>> \o WriteBody(d.f)
       [] d.t = "funstat" -> <<T("function"), Name(d.x)>>
            \o FoldLeft(LAMBDA a, x : a \o <<T("."), Name(x)>>, <<>>, d.path)
            \o (IF d.m = "" THEN <<>> ELSE <<T(":"), Name(d.m)>>) \o WriteBody(d.f)
       [] d.t = "return" -> <<T("return")>> \o WriteList(d.es)
       [] OTHER          -> Write(d)   \* a call, or break

\* A semicolon after each statement, so that a call is never continued.
WriteBlock(b) == FoldLeft(LAMBDA a, d : a \o WriteStat(d) \o <<T(";")>>, <<>>, b)

Tokens(b) == WriteBlock(b) \o <<T("EOS")>>
=============================================================================

----------------------------- MODULE MCPrograms -----------------------------
(***************************************************************************)
(* The programs that TLC compiles and runs: families of small programs,    *)
(* each around one construct.                                              *)
(***************************************************************************)
EXTENDS LuaChunk

Parser == INSTANCE LuaParser
Reference == INSTANCE LuaReference

Emit(es)  == CallE(Var("emit"), es)
Ok(b)     == [b |-> b, ok |-> TRUE]
Refused(b) == [b |-> b, ok |-> FALSE]
IfThen(e, b)     == If(<< <<e, b>> >>, <<>>)
IfElse(e, b, c)  == If(<< <<e, b>> >>, c)
Closed(b) == Fun(<<>>, "", b)
Inc(x) == Assign(<<Var(x)>>, <<Bin("+", Var(x), Num(1))>>)

\* Conditions.  n is nil, a is 7, u a global that is nil, f gives false.
Atoms == {Var("n"), Var("a"), Const("false"), Num(2), Var("u"),
          Bin("<", Var("a"), Num(2)), CallE(Var("f"), <<>>)}
Logic == {"and", "or"}
Cond1 == {Bin(o, l, r) : o \in Logic, l \in Atoms, r \in Atoms} \cup {Un("not", x) : x \in Atoms}
\* The condition as a value, as an argument, as a test, and in a loop.
OfCondition(e) ==
  Ok(<<Local(<<"a", "n">>, <<Const("...")>>),
       LocalFun("f", Closed(<<ReturnStat(<<Const("false")>>)>>)),
       Local(<<"x">>, <<e>>),
       IfElse(e, <<Emit(<<Var("x"), e>>)>>, <<Emit(<<e, Var("x")>>)>>),
       While(e, <<Emit(<<>>), BreakStat>>),
       Assign(<<Var("n"), Var("x")>>, <<Un("not", e), Var("n")>>),
       ReturnStat(<<Bin("..", Bin("or", e, Num(1)), Var("n"))>>)>>)

\* Operators and their precedences, on constants, on locals and on globals.
Operators == {"+", "-", "*", "%", "..", "==", "~=", "<", "<=", ">", ">=", "and", "or"}
Unaries   == {"-", "not", "#"}
Operands  == {<<Num(7), Num(2), Num(3)>>, <<Var("a"), Num(0), Var("g")>>, <<Str("2"), Var("a"), Str("a")>>,
              <<Var("g"), Var("a"), Num(7)>>}
Arithmetics ==
  {Bin(o, Bin(p, v[1], v[2]), v[3]) : o \in Operators, p \in Operators, v \in Operands}
  \cup {Bin(o, v[1], Bin(p, v[2], v[3])) : o \in Operators, p \in Operators, v \in Operands}
  \cup {Un(u, Bin(o, v[1], v[2])) : u \in Unaries, o \in Operators, v \in Operands}
  \cup {Bin(o, Un(u, v[1]), v[2]) : u \in Unaries, o \in Operators, v \in Operands}
  \cup {Bin(o, v[1], Un(u, v[2])) : u \in Unaries, o \in Operators, v \in Operands}

OfArithmetic(e) ==
  Ok(<<Local(<<"a">>, <<Const("...")>>), Assign(<<Var("g")>>, <<Num(3)>>),
       Emit(<<e>>), ReturnStat(<<e, Bin("..", Num(1), Num(2))>>)>>)
\* Loops.  Each round makes a function of a variable v of the round, and may
\* leave the loop from a block with a captured variable of its own.
Captures == {"none", "v", "loop"}
Exits    == {"none", "break", "return", "inner"}
LoopKinds == {"while", "repeat", "num", "down", "in"}
LoopBody(c, x) ==
  LET use == IF c = "loop" THEN "i" ELSE "v"
      fn  == Closed(<<Inc(use), ReturnStat(<<Var(use)>>)>>)
      out == IF x = "return" THEN ReturnStat(<<Var("v"), Var("k")>>) ELSE BreakStat
      test == Bin(">=", Var("k"), Num(2))
  IN  <<Inc("k"), Local(<<"v">>, <<Var("k")>>)>>
      \o (IF c = "none" THEN <<>> ELSE <<Assign(<<Index(Var("fs"), Var("k"))>>, <<fn>>)>>)
      \o (CASE x = "none"  -> <<>>
            [] x = "inner" -> <<DoBlock(<<Local(<<"w">>, <<Var("v")>>),
                                          Assign(<<Var("g")>>, <<Closed(<<Inc("w"), ReturnStat(<<Var("w")>>)>>)>>),
                                          IfThen(test, <<out>>)>>)>>
            [] OTHER       -> <<IfThen(test, <<out>>)>>)
      \o <<Emit(<<Var("i"), Var("v")>>)>>
Loop(kind, b) ==
  CASE kind = "while"  -> While(Bin("<", Var("k"), Num(3)), b)
    [] kind = "repeat" -> Repeat(b, Bin(">=", Var("v"), Num(3)))
    [] kind = "num"    -> ForNum("i", <<Num(1), Num(3)>>, b)
    [] kind = "down"   -> ForNum("i", <<Num(3), Num(1), Un("-", Num(1))>>, b)
    [] kind = "in"     -> ForIn(<<"i", "j">>, <<Var("upto"), Num(3)>>, b)
\* A generator, and a function that calls what the loop captured.
LoopHead ==
  <<Local(<<"k", "fs", "i">>, <<Num(0), TableE(<<>>)>>),
    LocalFun("upto", Fun(<<"n", "c">>, "", <<IfThen(Bin("==", Var("c"), Var("n")), <<ReturnStat(<<>>)>>),
                     ReturnStat(<<Bin("+", Bin("or", Var("c"), Num(0)), Num(1)), Var("c")>>)>>))>>
LoopTail(c) ==
  (IF c = "none" THEN <<>>
   ELSE <<ForNum("j", <<Num(1), Un("#", Var("fs"))>>,
                 <<Emit(<<CallE(Index(Var("fs"), Var("j")), <<>>), CallE(Index(Var("fs"), Num(1)), <<>>)>>)>>)>>)
  \o <<IfThen(Var("g"), <<Emit(<<CallE(Var("g"), <<>>)>>)>>)>>
OfLoop(kind, c, x, fn) ==
  LET loop == Loop(kind, LoopBody(c, x)) IN
  IF fn THEN Ok(LoopHead \o <<LocalFun("run", Closed(<<loop, ReturnStat(<<Var("k")>>)>>)),
                              Emit(<<CallE(Var("run"), <<>>)>>)>> \o LoopTail(c))
  ELSE Ok(LoopHead \o <<ForNum("o", <<Num(1), Num(2)>>, <<loop>>)>> \o LoopTail(c))
Loops == {OfLoop(k, c, x, fn) : k \in LoopKinds, c \in Captures, x \in Exits, fn \in BOOLEAN}

\* Assignments to several variables, some of which are keys of the others.
Targets == {Var("a"), Var("t"), Var("u"), Var("g"), Index(Var("t"), Var("a")), Index(Var("t"), Var("u")),
            Index(Index(Var("t"), Str("x")), Var("a"))}
Rights  == {<<Num(8)>>, <<Var("u"), Var("a")>>, <<CallE(Var("two"), <<>>)>>,
            <<Var("a"), CallE(Var("two"), <<>>)>>, <<Num(8), Num(9), CallE(Var("two"), <<>>), Num(5)>>}
Lists   == {<<x>> : x \in Targets} \cup {<<x, y>> : x \in Targets, y \in Targets}
           \cup {<<x, y, z>> : x \in Targets, y \in Targets, z \in {Var("a"), Var("g"), Index(Var("t"), Var("a"))}}
Distinct(l) == \A i, j \in DOMAIN l : i # j => l[i] # l[j]
OfAssignment(l, r) ==
  Ok(<<Local(<<"a", "t", "u">>, <<Num(1), TableE(<<Pair(Str("x"), TableE(<<>>))>>), Num(2)>>),
       LocalFun("two", Closed(<<ReturnStat(<<Num(3), Var("u")>>)>>)),
       Local(<<"s">>, <<Var("t")>>),
       Assign(l, r),
       Emit(<<Var("a"), Var("u"), Var("g"), Bin("==", Var("t"), Var("s")), Index(Var("s"), Num(1)),
              Index(Var("s"), Num(2)), Index(Index(Var("s"), Str("x")), Num(1))>>)>>)
Assignments == {OfAssignment(l, r) : l \in {x \in Lists : Distinct(x)}, r \in Rights}

\* Calls: what a function does with its arguments, the arguments, and what the
\* caller does with the results.
Dots == Const("...")
Bodies == {
  Fun(<<"x">>, "", <<ReturnStat(<<Var("x")>>)>>),
  Fun(<<>>, "...", <<ReturnStat(<<Dots>>)>>),
  Fun(<<>>, "...", <<ReturnStat(<<Paren(Dots)>>)>>),
  Fun(<<"x">>, "...", <<Local(<<"p", "q">>, <<Dots>>), ReturnStat(<<Var("q"), Var("p"), Var("x")>>)>>),
  Fun(<<"x">>, "...", <<ReturnStat(<<CallE(Var("two"), <<Dots>>)>>)>>),
  Fun(<<"x", "y">>, "arg", <<ReturnStat(<<Index(Var("arg"), Num(1)), Index(Var("arg"), Str("n")), Var("y")>>)>>),
  Fun(<<"x">>, "...", <<Local(<<"f">>, <<Closed(<<Inc("x"), ReturnStat(<<Var("x")>>)>>)>>),
                        ReturnStat(<<CallE(Var("f"), <<>>)>>)>>),
  Fun(<<>>, "...", <<ReturnStat(<<Un("#", TableE(<<ListItem(Dots), ListItem(Dots)>>)), Dots>>)>>),
  Fun(<<>>, "", <<>>)}
ArgLists == {<<>>, <<Num(1)>>, <<CallE(Var("two"), <<>>)>>, <<Num(1), CallE(Var("two"), <<>>)>>, <<Paren(CallE(Var("two"), <<>>))>>, <<CallE(Var("two"), <<>>), Num(1)>>, <<Num(4), Dots>>}

Uses(c) == {
  <<Emit(<<c>>)>>, <<Emit(<<c, c>>)>>, <<Emit(<<Paren(c)>>)>>, <<ReturnStat(<<c>>)>>,
  <<Local(<<"x", "y">>, <<c>>), Local(<<"p", "q">>, <<c, c>>), Emit(<<Var("x"), Var("y"), Var("p"), Var("q")>>)>>,
  <<Local(<<"t">>, <<TableE(<<ListItem(Num(0)), ListItem(c)>>)>>), c, Emit(<<Un("#", Var("t")), Index(Var("t"), Num(2))>>)>>}
Calls == {Ok(<<LocalFun("two", Closed(<<ReturnStat(<<Num(5), Num(6)>>)>>)), Local(<<"fn">>, <<f>>)>> \o u) :
            <<f, u>> \in UNION {{<<f, u>> : u \in Uses(CallE(Var("fn"), as))} : f \in Bodies, as \in ArgLists}}

\* Objects: methods, paths of names, constructors, functions inside functions.
This    == Var("self")
Ret(es) == ReturnStat(es)
Counter ==
  <<Assign(<<Var("C")>>, <<TableE(<<Pair(Str("n"), Num(4)), Pair(Str("in"), TableE(<<>>))>>)>>),
    FunStat("C", <<>>, "add", Fun(<<"x">>, "...",
            <<Assign(<<Index(This, Str("n"))>>, <<Bin("+", Index(This, Str("n")), Var("x"))>>),
              Ret(<<This, Index(This, Str("n")), Dots>>)>>)),
    FunStat("C", <<"in">>, "get", Fun(<<>>, "", <<Ret(<<Bin("==", This, Index(Var("C"), Str("in")))>>)>>)),
    FunStat("C", <<"in", "put">>, "", Fun(<<"x">>, "", <<Assign(<<Index(Var("C"), Str("n"))>>, <<Var("x")>>)>>)),
    FunStat("two", <<>>, "", Closed(<<Ret(<<Num(5), Num(6)>>)>>))>>
Many(n, e) == [i \in 1..n |-> ListItem(e)]
Objects == {Ok(Counter \o x) : x \in {
  <<Emit(<<Method(Var("C"), "add", <<Num(2)>>)>>), Ret(<<Method(Var("C"), "add", <<CallE(Var("two"), <<>>)>>)>>)>>,
  <<Local(<<"c">>, <<Var("C")>>),
    Emit(<<Index(Method(Method(Var("c"), "add", <<Num(1)>>), "add", <<Num(3)>>), Str("n"))>>)>>,
  <<Emit(<<Method(Index(Var("C"), Str("in")), "get", <<>>)>>), CallE(Index(Index(Var("C"), Str("in")), Str("put")), <<Num(9)>>),
    Emit(<<Index(Var("C"), Str("n"))>>)>>,
  <<Emit(<<Method(Var("C"), "none", <<>>)>>)>>, <<Emit(<<Method(Num(3), "add", <<>>)>>)>>,
  <<Local(<<"t">>, <<TableE(<<ListItem(Num(1)), Pair(Str("x"), Var("u")), ListItem(CallE(Var("two"), <<>>)), Pair(Num(7), Num(8)),
                             ListItem(CallE(Var("two"), <<>>))>>)>>),
    Emit(<<Un("#", Var("t")), Index(Var("t"), Num(2)), Index(Var("t"), Num(4)), Index(Var("t"), Str("x"))>>)>>,
  <<Local(<<"t">>, <<TableE(Many(50, Num(1)))>>), Emit(<<Un("#", Var("t"))>>)>>,
  <<Local(<<"t">>, <<TableE(Many(51, Num(1)))>>), Emit(<<Un("#", Var("t")), Index(Var("t"), Num(51))>>)>>,
  <<Local(<<"t">>, <<TableE(Many(50, Num(1)) \o <<ListItem(CallE(Var("two"), <<>>))>>)>>),
    Emit(<<Un("#", Var("t")), Index(Var("t"), Num(52))>>)>>,
  <<Local(<<"t">>, <<TableE(Many(49, Num(1)) \o <<Pair(Str("x"), Num(2)), ListItem(CallE(Var("two"), <<>>))>>)>>),
    Emit(<<Un("#", Var("t")), Index(Var("t"), Num(51))>>)>>,
  <<LocalFun("f", Fun(<<"n">>, "", <<If(<< <<Bin("<=", Var("n"), Num(1)), <<Ret(<<Num(1)>>)>> >> >>, <<>>),
              Ret(<<Bin("*", Var("n"), CallE(Var("f"), <<Bin("-", Var("n"), Num(1))>>))>>)>>)),
    Emit(<<CallE(Var("f"), <<Num(4)>>)>>)>>,
  <<LocalFun("f", Fun(<<"n", "x">>, "", <<If(<< <<Bin("==", Var("n"), Num(0)), <<Ret(<<Var("x"), CallE(Var("x"), <<>>)>>)>> >>,
                                                <<Bin("==", Var("n"), Num(1)), <<Ret(<<CallE(Var("f"), <<Num(0), Closed(<<Ret(<<Var("n")>>)>>)>>)>>)>> >> >>,
              <<Ret(<<CallE(Var("f"), <<Bin("-", Var("n"), Num(1)), Closed(<<Ret(<<Var("n")>>)>>)>>)>>)>>)>>)),
    Ret(<<CallE(Var("f"), <<Num(3)>>)>>)>>,
  <<LocalFun("make", Fun(<<"x">>, "",
       <<Ret(<<Closed(<<Local(<<"y">>, <<Var("x")>>),
                        Ret(<<Closed(<<Inc("x"), Ret(<<Var("x"), Var("y")>>)>>), Closed(<<Inc("y"), Inc("x"), Ret(<<Var("y")>>)>>)>>)>>)>>)>>)),
    Local(<<"g">>, <<CallE(Var("make"), <<Num(1)>>)>>),
    Local(<<"p", "q">>, <<CallE(Var("g"), <<>>)>>), Local(<<"r", "s">>, <<CallE(Var("g"), <<>>)>>),
    Emit(<<CallE(Var("p"), <<>>), CallE(Var("q"), <<>>), CallE(Var("s"), <<>>), CallE(Var("r"), <<>>)>>), Emit(<<CallE(Var("p"), <<>>)>>)>>,
  <<Local(<<"a", "b", "c">>, <<Num(1), Num(2)>>), DoBlock(<<Local(<<"a">>, <<Bin("+", Var("a"), Num(1))>>), Emit(<<Var("a"), Var("c")>>)>>),
    DoBlock(<<Local(<<"d", "e">>, <<>>), Emit(<<Var("d"), Var("e"), Var("a")>>)>>), Local(<<"f">>, <<>>), Emit(<<Var("f")>>)>>,
  <<Local(<<"c">>, <<Const("false")>>), DoBlock(<<Local(<<"w">>, <<Num(5)>>)>>), IfThen(Var("c"), <<Local(<<"y">>, <<>>)>>), Local(<<"z">>, <<>>), Emit(<<Var("z")>>)>>}}

\* Metamethods: steps on two tables with one metatable, given and defined in any order.
Steps == {
  CallE(Var("setmetatable"), <<Var("t"), Var("mt")>>),
  CallE(Var("setmetatable"), <<Var("mt"), Var("mt")>>),
  Emit(<<Index(Var("t"), Str("x"))>>),
  Assign(<<Index(Var("t"), Str("x"))>>, <<Num(1)>>),
  Assign(<<Index(Var("mt"), Str("__index"))>>, <<Var("f")>>),
  Assign(<<Index(Var("mt"), Str("__index"))>>, <<Var("mt")>>),
  Assign(<<Index(Var("mt"), Str("__newindex"))>>, <<Var("f")>>),
  CallE(Var("rawset"), <<Var("mt"), Str("__newindex"), Var("o")>>),
  Assign(<<Index(Var("mt"), Str("__index"))>>, <<Const("nil")>>),
  Emit(<<Index(Var("mt"), Str("x")), CallE(Var("rawget"), <<Var("o"), Str("x")>>)>>)}
OfSteps(ds) ==
  Ok(<<Local(<<"t", "mt", "o">>, <<TableE(<<>>), TableE(<<>>), TableE(<<>>)>>),
       LocalFun("f", Fun(<<"x", "k", "v">>, "", <<Emit(<<Var("k"), Var("v")>>), Ret(<<Num(3)>>)>>))>> \o ds
     \o <<Emit(<<Index(Var("t"), Str("x"))>>)>>)
StepPrograms == {OfSteps(<<CallE(Var("setmetatable"), <<Var("t"), Var("mt")>>), a, b, c>>) : a \in Steps, b \in Steps, c \in Steps}

\* Operators on tables whose metatables are one or two, and on a number.
MetaOf(x) == TableE([i \in 1..11 |->
  Pair(Str(<<"__add", "__sub", "__mul", "__mod", "__unm", "__concat", "__eq", "__lt", "__len", "__call", x>>[i]), Var("h"))])
MetaTables == {<<MetaOf("__le"), Var("m1")>>, <<MetaOf("x"), Var("m1")>>, <<MetaOf("__le"), TableE(<<Pair(Str("__eq"), Var("h")), Pair(Str("__lt"), Var("h"))>>)>>,
               <<MetaOf("__le"), TableE(<<Pair(Str("__eq"), Var("emit"))>>)>>}
MetaPairs == {<<Var("a"), Var("b")>>, <<Var("b"), Num(1)>>, <<Num(1), Var("a")>>, <<Str("s"), Bin("..", Num(1), Var("a"))>>}
MetaUses == {Bin(o, p[1], p[2]) : o \in Operators, p \in MetaPairs}
            \cup {Un(u, Var("b")) : u \in Unaries} \cup {CallE(Var("a"), <<Num(2)>>), CallE(Var("b"), <<>>), Bin("..", Num(2), Bin("..", Num(3), Bin("..", Var("a"), Str("s"))))}
OfMeta(m, e) ==
  Ok(<<LocalFun("h", Fun(<<"x", "y">>, "", <<Emit(<<Var("x"), Var("y")>>), Ret(<<Const("false"), Num(1)>>)>>)),
       Local(<<"a", "b", "m1">>, <<TableE(<<>>), TableE(<<>>), m[1]>>), Local(<<"m2">>, <<m[2]>>),
       CallE(Var("setmetatable"), <<Var("a"), Var("m1")>>), CallE(Var("setmetatable"), <<Var("b"), Var("m2")>>),
       Local(<<"r">>, <<e>>), IfThen(e, <<Emit(<<Num(1)>>)>>), Ret(<<Var("r"), e>>)>>)
Metas == {OfMeta(m, e) : m \in MetaTables, e \in MetaUses}

\* Errors in protected calls, from a function that has captured variables.
Raises == {CallE(Var("error"), <<TableE(<<>>)>>), CallE(Var("error"), <<Const("nil")>>), Emit(<<Bin("+", Var("v"), TableE(<<>>))>>), Emit(<<Index(Var("u"), Num(1))>>),
           CallE(Var("u"), <<>>), Emit(<<Var("v")>>), Emit(<<Bin("<", Var("v"), TableE(<<>>))>>),
           CallE(Var("pcall"), <<Var("error"), Const("true")>>), Ret(<<CallE(Var("pcall"), <<Var("setmetatable"), Var("fs"), Var("u")>>)>>),
           ForNum("i", <<Num(1), Var("u")>>, <<>>),
           CallE(Var("setmetatable"), <<TableE(<<>>), TableE(<<>>)>>),
           Assign(<<Index(Var("fs"), Var("u"))>>, <<Num(1)>>)}
Guarded(d) ==
  {Ok(<<Local(<<"fs">>, <<TableE(<<>>)>>),
        LocalFun("run", Fun(<<"x">>, "",
          <<Local(<<"v">>, <<Bin("+", Var("x"), Num(1))>>),
            Assign(<<Index(Var("fs"), Var("x"))>>, <<Closed(<<Inc("v"), Ret(<<Var("v"), Var("x")>>)>>)>>),
            ForNum("j", <<Num(1), Num(1)>>, <<Local(<<"w">>, <<Var("j")>>), Assign(<<Index(Var("fs"), Num(5))>>, <<Closed(<<Inc("w"), Ret(<<Var("w")>>)>>)>>), d>>),
            Ret(<<Var("v"), Var("x")>>)>>)),
        Emit(<<r>>), Emit(<<CallE(Var("pcall"), <<Var("run"), Num(3)>>)>>),
        Emit(<<CallE(Index(Var("fs"), Num(2)), <<>>), CallE(Index(Var("fs"), Num(3)), <<>>), CallE(Index(Var("fs"), Num(5)), <<>>)>>)>>) :
     r \in {CallE(Var("pcall"), <<Var("run"), Num(2)>>), CallE(Var("pcall"), <<Var("pcall"), Var("run"), Num(2)>>), CallE(Var("run"), <<Num(2)>>)}}
Protected == UNION {Guarded(d) : d \in Raises}

\* What is not a chunk: a break in no loop, ... in no vararg function, and a
\* place that is not a variable.
IllFormed == {Refused(b) : b \in {
  <<BreakStat>>, <<DoBlock(<<BreakStat>>)>>, <<While(Const("true"), <<Local(<<"f">>, <<Closed(<<BreakStat>>)>>)>>)>>,
  <<Local(<<"f">>, <<Closed(<<Ret(<<Dots>>)>>)>>)>>, <<Assign(<<CallE(Var("f"), <<>>)>>, <<Num(1)>>)>>,
  <<Assign(<<Var("a"), CallE(Var("f"), <<>>)>>, <<Num(1)>>)>>, <<Assign(<<Paren(Var("a"))>>, <<Num(1)>>)>>,
  <<Var("a")>>, <<Ret(<<Num(1)>>), Emit(<<>>)>>, <<BreakStat, Emit(<<>>)>>}}

AllPrograms ==
  {OfCondition(e) : e \in Cond1} \cup {OfArithmetic(e) : e \in Arithmetics}
  \cup Loops \cup Assignments \cup Calls \cup Objects \cup StepPrograms \cup Metas \cup Protected \cup IllFormed

Parsed(b) == LET made == Parser!luaY_parser(Tokens(b)) IN made
Meant(b)  == LET said == Reference!Meaning(b, CFunctions, Args) IN said
=============================================================================

------------------------------ MODULE MCLibrary ------------------------------
(***************************************************************************)
(* Tables and libraries in one run: table.sort, a table with all that      *)
(* happens to it, the string table, the string functions with patterns,    *)
(* luaL_Buffer, require, and the references that C# holds.  They share     *)
(* nothing here; a behaviour is one of one of them, the others at rest.    *)
(***************************************************************************)
EXTENDS LuaSort, LuaTable, LuaLoader, LuaStringTable, LuaStrlib, LuaBuffer, LuaRef

VARIABLE part

-----------------------------------------------------------------------------
(* The table: three integers, a boolean and an object as keys, and hashes   *)
(* by which four of them collide in a node vector of two or four, and the   *)
(* fifth has its main position where one of them is moved to.               *)

CONSTANTS b1, o1

Collisions == {[k \in Key |-> IF k = 3 THEN h[1] ELSE IF k = b1 THEN h[2] ELSE 0] :
                 h \in {<<0, 3>>, <<2, 0>>}}

-----------------------------------------------------------------------------
(* Sorting: all lists of up to four of three values, of five of two, and    *)
(* some longer ones; up to four values if the order function answers        *)
(* anything.                                                                *)

Digits    == 0..9
LessDef   == {q \in Digits \X Digits : q[1] < q[2]}
Anything  == {[c \in 1..k |-> c] : k \in 0..4}
ListsDef  == UNION {[1..k -> 1..3] : k \in 0..4} \cup [1..5 -> 1..2] \cup Anything
             \cup {[c \in 1..7 |-> 8 - c], [c \in 1..7 |-> (c * 3) % 7], [c \in 1..9 |-> (c * 4) % 9]}

-----------------------------------------------------------------------------
(* The string table: five strings that collide in tables of one, two and    *)
(* four, one pair of them in one of four, too.                              *)

StringHash == [a |-> 0, b |-> 1, c |-> 2, d |-> 5, e |-> 4]

-----------------------------------------------------------------------------
(* The string functions: subjects of up to three of two characters, and all *)
(* patterns of up to two items, with one capture or two, or a reference to  *)
(* one.  LUA_MAXCAPTURES is three, so that four are too many.               *)

Pattern == INSTANCE LuaPattern WITH LUA_MAXCAPTURES <- 3
Manual  == INSTANCE PatternManual WITH LUA_MAXCAPTURES <- 3
AttemptDef(s, q, x)  == LET r == Pattern!Attempt(s, q, x) IN r
MeaningDef(s, q, x)  == LET r == Manual!MatchAt(s, q, x) IN r
IsPatternDef(q)      == LET r == Manual!WellFormed(q) IN r

Subjects == UNION {[1..k -> {"a", "b"}] : k \in 0..3}
One(set, rep) == [k |-> "single", set |-> set, rep |-> rep]
Back(x) == [k |-> "back", l |-> x]
Paren  == [k |-> "("]
Shut  == [k |-> ")"]
Place == [k |-> "()"]
End   == [k |-> "$"]
Items == {One({"a"}, "1"), One({"a"}, "*"), One({"a", "b"}, "-"), One({"b"}, "?"), One({"a", "b"}, "+"),
          Place, Back(1), [k |-> "b", x |-> "a", y |-> "b"], [k |-> "f", set |-> {"a"}]}
Short   == {<<>>} \cup {<<x>> : x \in Items \cup {Paren, Shut, End}}
           \cup {<<x, y>> : x \in Items, y \in Items \cup {End}}
Single  == {<<Paren, x, Shut, y>> : x \in Items, y \in Items}
           \cup {<<Paren, x, y, Shut, Back(1)>> : x \in Items, y \in Items}
Double  == {<<Paren, Paren, x, Shut, y, Shut>> : x \in Items, y \in Items}
           \cup {<<Paren, x, Shut, Paren, y, Shut, Back(2)>> : x \in Items, y \in Items}
Many    == {<<Paren, x, Shut, Paren, y, Shut, Place, Place>> : x \in Items, y \in Items}
Few     == {<<One({"a"}, "*")>>, <<One({"a", "b"}, "1")>>, <<One({"a"}, "1"), One({"b"}, "1")>>,
            <<Paren, One({"a"}, "+"), Shut, One({"b"}, "1")>>, <<Paren>>, <<Place>>}

Call(f, s, q) == [f |-> f, s |-> s, p |-> q, caret |-> FALSE, init |-> 1, max_s |-> 9,
                  kind |-> "string", repl |-> <<>>]
CallsDef ==
  {Call("find", s, q) : s \in Subjects, q \in Short \cup Single \cup Double \cup Many}
  \cup {Call("gmatch", s, q) : s \in Subjects, q \in Short \cup Single}
  \cup {[Call(f, s, q) EXCEPT !.caret = TRUE] :
          f \in {"find", "gmatch", "gsub"}, s \in Subjects \cup {<<"^", "a", "a">>}, q \in Few}
  \cup {[Call("find", s, q) EXCEPT !.init = x] : x \in {0, 2, 9, -1, -2, -9}, s \in Subjects, q \in Few}
  \cup {[Call("gsub", s, q) EXCEPT !.repl = r, !.max_s = m] :
          m \in {-1, 0, 1, 9}, s \in Subjects, q \in Few, r \in {<<10, 1, 0>>, <<2>>}}
  \cup {[Call("gsub", s, q) EXCEPT !.kind = x, !.max_s = m] :
          m \in {1, 9}, s \in Subjects, q \in Few, x \in {"function", "table"}}


-----------------------------------------------------------------------------
(* All of them.                                                             *)

partvars == <<part, vars, tablevars, internvars, stringvars, buffervars, loadervars, refvars>>

\* At rest: an empty list, and no choice left for the hashes and the call.
InitParts ==
  /\ part \in {"sort", "table", "intern", "strings", "buffer", "loader", "references"}
  /\ call \in IF part = "strings" THEN Calls ELSE {Call("gmatch", <<>>, <<>>)}
  /\ part # "sort" => list = <<>> /\ order = TRUE
  /\ part # "table" => hash = CHOOSE h \in Hashes : TRUE
  /\ Init /\ TableInit /\ InternInit /\ StrlibStarts /\ BufferInit /\ LoaderInit
  /\ RefInit

OfSort(A) ==
  /\ part = "sort" /\ A
  /\ UNCHANGED <<part, tablevars, internvars, stringvars, buffervars, loadervars, refvars>>
OfTable(A) ==
  /\ part = "table" /\ A
  /\ UNCHANGED <<part, vars, internvars, stringvars, buffervars, loadervars, refvars>>
OfIntern(A) ==
  /\ part = "intern" /\ A
  /\ UNCHANGED <<part, vars, tablevars, stringvars, buffervars, loadervars, refvars>>
OfStrings(A) ==
  /\ part = "strings" /\ A
  /\ UNCHANGED <<part, vars, tablevars, internvars, buffervars, loadervars, refvars>>
OfBuffer(A) ==
  /\ part = "buffer" /\ A
  /\ UNCHANGED <<part, vars, tablevars, internvars, stringvars, loadervars, refvars>>
OfLoader(A) ==
  /\ part = "loader" /\ A
  /\ UNCHANGED <<part, vars, tablevars, internvars, stringvars, buffervars, refvars>>
OfReferences(A) ==
  /\ part = "references" /\ A
  /\ UNCHANGED <<part, vars, tablevars, internvars, stringvars, buffervars, loadervars>>

NextParts ==
  \/ OfSort(Return) \/ OfSort(Ends) \/ OfSort(Middle) \/ OfSort(Upper) \/ OfSort(Pivot)
  \/ OfSort(Up) \/ OfSort(Down) \/ OfSort(Split) \/ OfSort(Raise)
  \/ \E k \in Key, x \in Val \cup {Nil} : OfTable(Set(k, x))
  \/ OfTable(MarkDead)
  \/ \E k \in Key : OfTable(ClearWeak(k))
  \/ OfTable(NextField) \/ OfTable(NextNil) \/ OfTable(NextInvalid) \/ OfTable(Break)
  \/ \E s \in DOMAIN StringHash : OfIntern(FindString(s)) \/ OfIntern(newlstr(s))
  \/ \E keep \in SUBSET held : OfIntern(atomic(keep))
  \/ OfIntern(sweepchain) \/ OfIntern(checkSizes)
  \/ OfStrings(FindPlain) \/ OfStrings(FindPattern)
  \/ OfStrings(Gmatch) \/ OfStrings(GmatchEnd)
  \/ OfStrings(Gsub) \/ OfStrings(GsubEnd)
  \/ OfBuffer(result = <<>> /\ luaL_addchar)
  \/ \E x \in 0..4 : OfBuffer(result = <<>> /\ luaL_addvalue(x))
  \/ \E x \in 0..2 : OfBuffer(result = <<>> /\ luaL_addsize(x))
  \/ OfBuffer(luaL_pushresult)
  \/ \E name \in Name :
       OfLoader(RequireLoaded(name)) \/ OfLoader(RequireLoop(name)) \/ OfLoader(Require(name))
  \/ OfLoader(NotFound) \/ OfLoader(Found) \/ OfLoader(SearchFails)
  \/ OfLoader(SetsLoaded) \/ OfLoader(Raises)
  \/ \E x \in {"nil", "false", "value"} : OfLoader(Returns(x))
  \/ \E h \in Holders, r \in Slots, x \in Obj : OfReferences(Make(h, r, x))
  \/ \E h \in Bases : OfReferences(Dispose(h))
  \/ \E h \in Threads : OfReferences(DisposeThread(h))
  \/ \E h \in Holders : OfReferences(Collect(h))

SpecParts == InitParts /\ [][NextParts]_partvars
=============================================================================

------------------------------ MODULE LuaChunk ------------------------------
(***************************************************************************)
(* A chunk from its source to its results (f_parser and luaD_call of       *)
(* ldo.c, luac.c): the parser makes a Proto, which is written and read     *)
(* back as a precompiled chunk, and the virtual machine runs it.           *)
(***************************************************************************)
EXTENDS LuaVM, LuaDump, LuaSyntax

CONSTANTS Programs,           \* records: b, the statements; ok, whether they are a chunk
          Parse(_),           \* the parser: what luaY_parser makes of a program
          Manual(_)           \* the manual: what a program means

VARIABLES program, phase,
          compiled,   \* what the parser made
          loaded,     \* what undump made of the dump of compiled
          accepted,   \* the cuts of the dump that undump takes
          meaning     \* a history variable: what the manual says of the program
vars == <<program, phase, compiled, loaded, accepted, meaning, L, G>>

CFunctions == {"emit", "rawget", "rawset", "setmetatable", "pcall", "error"}
Args == <<Number(7), Nil, Bool(FALSE)>>

Init ==
  /\ program \in Programs
  /\ phase = "source"
  /\ compiled = <<>> /\ loaded = <<>> /\ accepted = {} /\ meaning = <<>>
  /\ VMInit

\* luaD_protectedparser
Compile ==
  /\ phase = "source"
  /\ phase' = "compiled"
  /\ compiled' = Parse(program.b)
  /\ meaning' = IF program.ok THEN Manual(program.b) ELSE <<>>
  /\ UNCHANGED <<program, loaded, accepted, L, G>>

\* The lengths of the beginnings of a chunk that undump is given.
Cuts(n) == {0, n \div 4, n \div 2, (3 * n) \div 4, n - 1}

\* string.dump and lua_load
Reload ==
  /\ phase = "compiled" /\ ~compiled.error
  /\ phase' = "loaded"
  /\ LET chunk == luaU_dump(compiled.proto) IN
     /\ loaded' = luaU_undump(chunk)
     /\ accepted' = {n \in Cuts(Len(chunk)) : luaU_undump(SubSeq(chunk, 1, n)).ok}
  /\ UNCHANGED <<program, compiled, meaning, L, G>>

\* lua_call
Start ==
  /\ phase = "loaded" /\ loaded.ok
  /\ phase' = "running"
  /\ Host(loaded.v, CFunctions, Args)
  /\ program' = <<>> /\ compiled' = <<>> /\ loaded' = <<>>   \* no longer needed
  /\ UNCHANGED <<accepted, meaning>>

Rest == UNCHANGED <<program, phase, compiled, loaded, accepted, meaning>>

\* luaV_execute, one instruction.
Run ==
  \/ (Move /\ Rest) \/ (LoadK /\ Rest) \/ (LoadBool /\ Rest) \/ (LoadNil /\ Rest)
  \/ (GetUpval /\ Rest) \/ (SetUpval /\ Rest) \/ (GetGlobal /\ Rest) \/ (SetGlobal /\ Rest)
  \/ (GetTable /\ Rest) \/ (SetTable /\ Rest) \/ (NewTable /\ Rest) \/ (Self /\ Rest)
  \/ (Arith /\ Rest) \/ (Not /\ Rest) \/ (Length /\ Rest) \/ (Concat /\ Rest) \/ (Jmp /\ Rest)
  \/ (Equal /\ Rest) \/ (Order /\ Rest) \/ (Test /\ Rest) \/ (TestSet /\ Rest) \/ (Call /\ Rest)
  \/ (TailCall /\ Rest) \/ (ReturnOp /\ Rest) \/ (ForPrep /\ Rest) \/ (ForLoop /\ Rest)
  \/ (TForLoop /\ Rest) \/ (SetList /\ Rest) \/ (Close /\ Rest) \/ (Closure /\ Rest)
  \/ (VarArg /\ Rest) \/ (CallNext /\ Rest) \/ (ReturnNext /\ Rest) \/ (ConcatNext /\ Rest)
  \/ (GetNext /\ Rest) \/ (SetNext /\ Rest)

Next == Compile \/ Reload \/ Start \/ Run

Spec == Init /\ [][Next]_vars

-----------------------------------------------------------------------------
Over == phase = "running" /\ L.status # "run"

\* Objects have other names in the reference.
Shown(out) == [i \in DOMAIN out |-> [j \in DOMAIN out[i] |->
                 IF out[i][j][1] \in {"table", "function"} THEN <<out[i][j][1], 0>> ELSE out[i][j]]]

\* A chunk is refused if it is ill-formed, and otherwise calls the host with
\* the values, and gives it the results or the error, that the manual says.
RunsAsWritten ==
  /\ phase = "compiled" => compiled.error = ~program.ok
  /\ Over => Shown(G.out) = Shown(meaning)

RECURSIVE AllChecked(_)
AllChecked(p) == luaG_checkcode(p) /\ \A i \in DOMAIN p.p : AllChecked(p.p[i])

\* The assertions of the parser and the code generator hold, and the one of
\* close_func that luaG_checkcode accepts the code (lparser.c:374).
CompilerAssertsHold ==
  phase = "compiled" /\ program.ok => compiled.asserts /\ AllChecked(compiled.proto)

\* A precompiled chunk gives the function that was dumped, and a chunk that is
\* cut is refused.
UndumpRestores == phase = "loaded" => loaded = [ok |-> TRUE, v |-> compiled.proto] /\ accepted = {}

\* The assertions of luaV_execute hold, and no instruction reads a register
\* that has never been set.
VMAssertsHold ==
  phase = "running" /\ Running =>
    /\ ci.c = "Lua" /\ ci.pc < Len(cl.p.code)
    /\ ci.base <= L.top
    /\ L.top = ci.top \/ luaG_checkopenop(I)
    /\ ci.top = ci.base + cl.p.maxstacksize
    /\ \A r \in ci.base..ci.top - 1 : L.stack[r] # Garbage
=============================================================================

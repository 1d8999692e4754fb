---------------------------- MODULE LuaCheckcode ----------------------------
(***************************************************************************)
(* The code checker (ldebug.c), which decides whether a precompiled chunk  *)
(* can run, and which the compiler asserts of its own code.  Positions are *)
(* those of the code, from 0.  The count of a SETLIST that is too large    *)
(* for its C, and has a place of its own in the code, is left out.         *)
(***************************************************************************)
EXTENDS LuaOpcodes, Sequences

MAXSTACK == 250

precheck(pt) ==
  /\ pt.maxstacksize <= MAXSTACK
  /\ pt.numparams + (IF "HASARG" \in pt.is_vararg THEN 1 ELSE 0) <= pt.maxstacksize
  /\ "NEEDSARG" \in pt.is_vararg => "HASARG" \in pt.is_vararg
  /\ pt.code # <<>> /\ pt.code[Len(pt.code)].op = "RETURN"

checkreg(pt, reg) == reg < pt.maxstacksize

\* The instruction after one that leaves an open number of values.
luaG_checkopenop(i) == i.op \in {"CALL", "TAILCALL", "RETURN", "SETLIST"} /\ i.b = 0

checkArgMode(pt, r, mode) ==
  CASE mode = "N" -> r = 0
    [] mode = "U" -> TRUE
    [] mode = "R" -> checkreg(pt, r)
    [] mode = "K" -> IF ISK(r) THEN INDEXK(r) < Len(pt.k) ELSE checkreg(pt, r)

checkcall(pt, pc, i) ==
  /\ i.b # 0 => checkreg(pt, i.a + i.b - 1)
  /\ CASE i.c - 1 = LUA_MULTRET -> luaG_checkopenop(pt.code[pc + 2])
       [] i.c - 1 = 0           -> TRUE
       [] OTHER                 -> checkreg(pt, i.a + i.c - 2)

\* One step of symbexec, when it checks all of the code.
checkinstruction(pt, pc) ==
  LET i    == pt.code[pc + 1]
      dest == pc + 1 + i.b
      size == Len(pt.code)
  IN  /\ checkreg(pt, i.a)
      /\ CASE i.op \in iABx  -> getBMode(i.op) = "K" => i.b < Len(pt.k)
           [] i.op \in iAsBx -> 0 <= dest /\ dest < size
           [] OTHER -> checkArgMode(pt, i.b, getBMode(i.op)) /\ checkArgMode(pt, i.c, getCMode(i.op))
      /\ testTMode(i.op) => pc + 2 < size /\ pt.code[pc + 2].op = "JMP"
      /\ CASE i.op = "LOADBOOL" -> i.c = 1 => pc + 2 < size
           [] i.op \in {"GETUPVAL", "SETUPVAL"}   -> i.b < pt.nups
           [] i.op \in {"GETGLOBAL", "SETGLOBAL"} -> pt.k[i.b + 1][1] = "string"
           [] i.op = "SELF"     -> checkreg(pt, i.a + 1)
           [] i.op = "CONCAT"   -> i.b < i.c
           [] i.op = "TFORLOOP" -> i.c >= 1 /\ checkreg(pt, i.a + 2 + i.c)
           [] i.op \in {"FORLOOP", "FORPREP"}     -> checkreg(pt, i.a + 3)
           [] i.op \in {"CALL", "TAILCALL"}       -> checkcall(pt, pc, i)
           [] i.op = "RETURN"   -> i.b > 1 => checkreg(pt, i.a + i.b - 2)
           [] i.op = "SETLIST"  -> i.b > 0 => checkreg(pt, i.a + i.b)
           [] i.op = "CLOSURE"  ->
                /\ i.b < Len(pt.p)
                /\ pc + pt.p[i.b + 1].nups < size
                /\ \A j \in 1..pt.p[i.b + 1].nups : pt.code[pc + 1 + j].op \in {"GETUPVAL", "MOVE"}
           [] i.op = "VARARG"   ->
                /\ "ISVARARG" \in pt.is_vararg /\ "NEEDSARG" \notin pt.is_vararg
                /\ i.b - 1 = LUA_MULTRET => luaG_checkopenop(pt.code[pc + 2])
                /\ checkreg(pt, i.a + i.b - 2)
           [] OTHER -> TRUE

luaG_checkcode(pt) == precheck(pt) /\ \A pc \in 0..Len(pt.code) - 1 : checkinstruction(pt, pc)
=============================================================================

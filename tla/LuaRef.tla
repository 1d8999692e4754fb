------------------------------- MODULE LuaRef -------------------------------
(***************************************************************************)
(* References from C# to Lua objects: the array part of the registry, that *)
(* luaL_ref and luaL_unref of lauxlib.c keep a free list in, and the C#    *)
(* objects that hold one reference each:                                   *)
(*   - LuaTable, LuaFunction, LuaUserData, disposed of by LuaBase;         *)
(*   - LuaThread, with a Dispose of its own.                               *)
(* The objects they stand for are never nil, and numbers are none of them: *)
(* ObjectTranslator looks at the type first.  All lua_States share the     *)
(* registry, and one thread of C# runs all of this: finalizers, which run  *)
(* in another one, touch no reference.                                     *)
(***************************************************************************)
EXTENDS Integers, FiniteSets

CONSTANTS
  Bases,      \* C# objects derived from LuaBase
  Threads,    \* LuaThread objects
  Obj,        \* Lua objects
  LUA_TNIL,
  Twice,      \* whether the program calls Dispose again on a LuaThread
  MaxRef      \* bound: references that the registry has room for

Holders == Bases \cup Threads
Slots   == 1..MaxRef
FREELIST_REF == 0

ASSUME HolderAssumption == Bases \cap Threads = {}
ASSUME ValueAssumption  == LUA_TNIL \notin Obj \cup Int /\ Obj \cap Int = {}
ASSUME BoundAssumption  == MaxRef \in Nat /\ Twice \in BOOLEAN

VARIABLES
  registry,   \* its array part; at FREELIST_REF is the head of the list of free slots
  state,      \* of the C# objects; "none" stands for not made yet, or gone
  ref,        \* ... _Reference or threadRef
  leaked,     \* the references whose holder .NET collected
  object      \* auxiliary: what each holder was made for

refvars == <<registry, state, ref, leaked, object>>

-----------------------------------------------------------------------------
(* lauxlib.c                                                               *)

\* (int)lua_tointeger of registry[FREELIST_REF]: what is no number counts as 0.
firstfree == IF registry[FREELIST_REF] \in Slots THEN registry[FREELIST_REF] ELSE 0

\* lua_objlen: some n such that registry[n] is there and registry[n + 1] is not.
isborder(n) ==
  /\ n + 1 \in Slots /\ registry[n + 1] = LUA_TNIL
  /\ n = 0 \/ registry[n] # LUA_TNIL

\* Mutant of luaL_ref: the slot stays in the list.
luaL_refKept(r, v) ==
  /\ r = firstfree \/ (firstfree = 0 /\ isborder(r - 1))
  /\ registry' = [registry EXCEPT ![r] = v]

\* r = luaL_ref(L, LUA_REGISTRYINDEX), v being on the top of the stack.
luaL_ref(r, v) ==
  \/ /\ r = firstfree
     /\ registry' = [registry EXCEPT ![FREELIST_REF] = registry[r], ![r] = v]
  \/ /\ firstfree = 0 /\ isborder(r - 1)
     /\ registry' = [registry EXCEPT ![r] = v]

\* Mutant of luaL_unref: the two assignments are swapped.
luaL_unrefSwapped(r) ==
  registry' = [registry EXCEPT ![FREELIST_REF] = r, ![r] = r]

luaL_unref(r) ==
  registry' = [registry EXCEPT ![r] = registry[FREELIST_REF], ![FREELIST_REF] = r]

-----------------------------------------------------------------------------
(* Lua.cs, LuaBase.cs and ObjectTranslator.cs                              *)

\* getTable, getFunction, getUserData make an object of class LuaTable,
\* LuaFunction or LuaUserData, the constructor of LuaThread one of its own.
Make(h, r, v) ==
  /\ state[h] = "none"
  /\ luaL_ref(r, v)
  /\ state' = [state EXCEPT ![h] = "open"]
  /\ ref' = [ref EXCEPT ![h] = r]
  /\ object' = [object EXCEPT ![h] = v]
  /\ UNCHANGED leaked

\* Mutant of Dispose: _Disposed is not looked at.
DisposeAgain(h) ==
  /\ state[h] # "none"
  /\ luaL_unref(ref[h])
  /\ state' = [state EXCEPT ![h] = "disposed"]
  /\ UNCHANGED <<ref, leaked, object>>

\* LuaBase.Dispose(true): only the first one counts.
Dispose(h) ==
  /\ state[h] = "open"
  /\ luaL_unref(ref[h])
  /\ state' = [state EXCEPT ![h] = "disposed"]
  /\ UNCHANGED <<ref, leaked, object>>

\* LuaThread.Dispose(true) does not tell whether it ran before.
DisposeThread(h) ==
  /\ state[h] = "open" \/ (Twice /\ state[h] = "disposed")
  /\ luaL_unref(ref[h])
  /\ state' = [state EXCEPT ![h] = "disposed"]
  /\ UNCHANGED <<ref, leaked, object>>

\* .NET collects the object.  ~LuaBase calls Dispose(false), which leaves the
\* reference alone, and LuaThread has no finalizer.
Collect(h) ==
  /\ state[h] # "none"
  /\ leaked' = leaked \cup (IF state[h] = "open" THEN {ref[h]} ELSE {})
  /\ state' = [state EXCEPT ![h] = "none"]
  /\ UNCHANGED <<registry, ref, object>>

-----------------------------------------------------------------------------
RefInit ==
  /\ registry = [r \in 0..MaxRef |-> LUA_TNIL]
  /\ state = [h \in Holders |-> "none"]
  /\ ref = [h \in Holders |-> 0]
  /\ leaked = {}
  /\ object = [h \in Holders |-> LUA_TNIL]

RefNext ==
  \/ \E h \in Holders, r \in Slots, v \in Obj : Make(h, r, v)
  \/ \E h \in Bases : Dispose(h)
  \/ \E h \in Threads : DisposeThread(h)
  \/ \E h \in Holders : Collect(h)

RefSpec == RefInit /\ [][RefNext]_refvars

-----------------------------------------------------------------------------
(* Properties.                                                             *)

Open  == {h \in Holders : state[h] = "open"}
InUse == {ref[h] : h \in Open} \cup leaked

RefTypeOK ==
  /\ registry \in [0..MaxRef -> Obj \cup 0..MaxRef \cup {LUA_TNIL}]
  /\ state \in [Holders -> {"none", "open", "disposed"}]
  /\ ref \in [Holders -> 0..MaxRef]
  /\ leaked \subseteq Slots
  /\ object \in [Holders -> Obj \cup {LUA_TNIL}]

\* A C# object that was not disposed of still gets, through its reference, the
\* Lua object it was made for, whatever others did to the registry since.
RefsHold == \A h \in Open : ref[h] \in Slots /\ registry[ref[h]] = object[h]

\* ... and no other holds the same reference, or the first one to let go of it
\* would take it from the second.
NoSharing ==
  /\ \A g, h \in Open : ref[g] = ref[h] => g = h
  /\ \A h \in Open : ref[h] \notin leaked

\* The free slots of registry reg, and they only, are in its list, each once:
\* c[1..n] runs through them from the head, and the last one holds nil.
IsFreeList(reg, c, n) ==
  /\ \A i, j \in 1..n : c[i] = c[j] => i = j
  /\ reg[FREELIST_REF] = IF n = 0 THEN LUA_TNIL ELSE c[1]
  /\ \A i \in 1..n : reg[c[i]] = IF i = n THEN LUA_TNIL ELSE c[i + 1]

\* What is not free is in use, up to some size beyond which nothing was used.
IsPartition(reg, used, size, c, n) ==
  /\ \A r \in Slots : r \in used <=> r <= size /\ \A i \in 1..n : c[i] # r
  /\ \A i \in 1..n : c[i] <= size
  /\ \A r \in Slots : r > size => reg[r] = LUA_TNIL

FreeListOK ==
  \E size, n \in 0..MaxRef : \E c \in [1..n -> Slots] :
    IsFreeList(registry, c, n) /\ IsPartition(registry, InUse, size, c, n)

InUseHeld == \A r \in InUse : registry[r] \in Obj

RefInv == RefTypeOK /\ RefsHold /\ NoSharing /\ InUseHeld /\ FreeListOK

\* "Keeps reference of thread in registry to prevent GC" (Lua.cs:789): as long
\* as a LuaThread was not disposed of, the registry has its thread.
ThreadsKept == \A h \in Threads : state[h] = "open" => registry[ref[h]] = object[h]

\* The free list, the registry and the Dispose methods together give out and
\* take back references as RefTable does.
Table == INSTANCE RefTable WITH refs <- [r \in InUse |-> registry[r]]
ImplementsRefTable == Table!Spec
=============================================================================

# Lua 5.1.5 and unitylua in TLA+

The repository embeds Lua 5.1.5 (`lua-5.1.5/`, with `lnet.c` added) in Unity
through a C# binding (`example/Assets/unitylua/`).  This directory holds TLA+
models of the parts that are hard to test, the TLC configurations that check
them, and TLAPS proofs of what matters most.

## The system

| Component | State | Operations | What is hard | Properties |
|---|---|---|---|---|
| Collector (lgc.c) | mark bits, gcstate, gray lists, sweep positions, tmudata | singlestep, barriers, luaC_fullgc, finalizers | the program writes between any two steps; finalizers bring objects back | no dangling reference, tri-color invariant, every gray object listed once, finalize before free, garbage is freed in the end |
| String table (lstring.c) | hash of all strings | luaS_newlstr, resize, sweep | a dead string is found before it is swept; the table changes its size between sweeps | one string per contents, in the right chain |
| Tables (ltable.c) | array part, nodes with free pointer | get, set, rehash, next, border | collisions, growth while iterating | get after set; next visits each key once |
| Calls and coroutines (ldo.c, lstate.c) | stack, CallInfo, status, C-call depth, error handlers | call, pcall, resume, yield, error | unwinding across C calls | state restored after an error; no yield across a C call |
| Compiler (lparser.c, lcode.c) | FuncStates: code, constants, jump lists, free registers, blocks | one function per construct | delayed code: an expression's instructions are patched by what comes after | the code does what the program means |
| Virtual machine, upvalues, metamethods (lvm.c, lfunc.c, ltm.c) | frames, registers, open upvalues, flags of metatables | one per instruction | one stack for all frames; variables shared by closures; cached absence of metamethods | as the manual says; the assertions; a variable is one cell |
| Dump and undump (ldump.c, lundump.c, ldebug.c) | | luaU_dump, luaU_undump, luaG_checkcode | a chunk that is cut | what is read is what was written, or refused |
| Libraries (lstrlib.c, ltablib.c, lauxlib.c, loadlib.c) | captures; the list that is sorted; buffers; package.loaded | string.find..., table.sort, luaL_Buffer, require | backtracking; an order function that is none; errors and circles in the middle | matches as in the manual; sorts; keeps the text; loads once |
| References (lauxlib.c) | free list threaded through the registry | luaL_ref, luaL_unref | released twice, released by whom | one reference per holder |
| Binding (Lua.cs, LuaBase.cs...) | C# objects that hold references | Dispose, finalizers, Close, Start, Resume | two garbage collectors | a reference holds its object until released |
| Object translator (ObjectTranslator.cs, lnet.c) | objects, objectsBackMap, luaNet_objects | pushObject, collectObject, getObject | the window between clearing and __gc; code that runs in between | one userdata per object; every userdata has its object |
| Metatables, code generation, programs | caches by reflection, files | | reflection, I/O | not modelled |

The interpreter calls the collector whenever an allocation finds the debt
exceeded (luaC_checkGC).  The collector calls back into the program through
`__gc` metamethods.  The compiler hands a `Proto` to the virtual machine, or the
undumper does; the virtual machine calls back into itself through metamethods,
C functions and the order function of `table.sort`.  C# calls the C API and is
called back through delegates that lnet.c wraps; it keeps Lua objects alive
through the registry, and Lua keeps C# objects alive through the dictionaries of
ObjectTranslator, until the `__gc` of a userdata removes its entry.

Paths below are relative to `lua-5.1.5/src/` for C files and to
`example/Assets/unitylua/` for C# files.

## Modules

| Module | Role |
|---|---|
| LuaHeap | what a garbage-collected heap promises |
| LuaGC, LuaGC_proofs, MCGC | the incremental collector and the program that runs between its steps; that it implements LuaHeap |
| Coroutines | what coroutines promise: who runs, who waits for whom, what is dead |
| LuaCoroutine, LuaCoroutine_proofs, MCCoroutine | calls, pcall, errors, resume and yield on one C stack; LuaThread; the host's calls |
| RefTable | what references promise |
| LuaRef, MCRef (and MCLibrary) | luaL_ref and luaL_unref, and the C# objects that hold references |
| HandleTable | what userdata of C# objects promise |
| LuaTranslator, LuaTranslator_proofs, MCTranslator | ObjectTranslator and the collector's part in it |
| MCTranslatorGC | LuaTranslator and LuaGC side by side, for the run about liveness |
| LuaSyntax, LuaValue | trees and tokens of programs; values and arithmetic |
| LuaReference | what a program means: evaluation of its tree, as the manual says |
| LuaOpcodes, LuaCode, LuaParser | instructions; the code generator; the parser |
| LuaCheckcode, LuaDump | luaG_checkcode; precompiled chunks |
| LuaVM, LuaVM_proofs | luaV_execute with calls, upvalues, metamethods and errors |
| LuaChunk, MCPrograms | a chunk from its source to its results; the programs that are run |
| TableMap | what a table promises: a map, and traversals that miss and repeat nothing |
| LuaTable, LuaTable_proofs | array part, node hash, rehash, dead keys, border, next |
| LuaSort, LuaSort_proofs | table.sort under any order function |
| PatternManual | what a pattern matches: the ways to share out a subject, in their order |
| LuaPattern, LuaStrlib | the matcher with its captures; find, match, gmatch, gsub |
| LuaBuffer, LuaStringTable | luaL_Buffer; interned strings |
| LuaLoader | require |
| LuaLibrary_proofs | proofs about LuaStringTable, LuaBuffer, LuaStrlib, LuaLoader and LuaRef |
| Ranges | induction and recursion over ranges of numbers, for LuaTable_proofs and LuaLibrary_proofs |
| MCLibrary | LuaTable and the modules after it side by side, in one run |

LuaTable has, besides its properties, the inductive invariant on which their proofs rest
(`Chained`, `TableInv`, `Progress`).  Each detailed module with an abstract one states that it implements it, as a
property (`ImplementsHeap`, `ImplementsMap`, `ImplementsLifecycle`,
`ImplementsRefTable`, `ImplementsHandles`).  Where a component is a function, its
definition is compared with one that is written from the manual
(`RunsAsWritten`, `MatchesAsManual`).  The operators whose comment says "Mutant"
are plausible bugs, kept next to the definitions they stand in for; each property
was seen to fail with one of them.

### The collector: LuaGC

`gcstate`, the gray lists and the sweep positions are those of `global_State`.
Colors are relative to `currentwhite`: "white" is the present one, "otherwhite"
the other; so flipping the whites in `atomic` renames the colors of all objects
and changes nothing else.  What objects refer to is abstracted to `held` (strong
references), `ents` (pairs of tables) and `mode` (the weak mode that the
metatable has *now*, which need not be the one the table was visited with).

The collector's actions are the cases of `singlestep`: `MarkRoot`, `Propagate`
(propagatemark of one gray object), `Atomic`, `SweepString` and `Sweep` (one object
at a time, which only adds interleavings), `EndSweepString`, `EndSweep`, `GCTM` and
`EndCycle`.  `luaC_fullgc` starts with `FullGC` (a cycle that is marking is
abandoned), goes on with the sweep and `FullMark`, and ends with `EndCycle`;
`full` says that it has control, and the program runs meanwhile only in the
finalizers.  The program's actions are what the API and
the virtual machine do to references, each with the barrier that the code runs
there: creating objects, `luaS_newlstr`, storing into tables (luaC_barrierback),
closures and userdata (luaC_barrierf), setting metatables and weak modes,
dropping references.  Any of them can happen between any two steps.  In a table with weak keys only,
`cleartable` looks at the nodes but not at the array part: which pairs without a
key are in it is left open (`Spared`).

### Calls and coroutines: LuaCoroutine

`ci[th]` has the functions in progress of a thread, as `CallInfo` has; `cstack`
the C functions in progress (luaD_call, luaD_pcall, lua_resume, and the call of
an error handler in luaG_errormsg) over all threads, with what they restore in
the end: `ci`, `nCcalls`, `errfunc`.  A call from Lua to Lua adds to `ci` only;
that is why a yield may cross it.  What functions compute is left out: the
running one does at any time whatever it could do.  An error is underway
between `Raise` and `Unwind`, with the handler's call in between.  `Resume` is
`auxresume` with `lua_setlevel`, `ThreadResume` the `LuaThread.Resume` of C#, which has no
such call, and `callFunction` the host's `lua_pcall` on whatever `lua_State` the
LuaFunction's interpreter has (`CallsOn`).

A LuaThread may be of a C function, which coroutine.create refuses.  Such a function can
yield with no Lua function below it, and the next resume has nothing to go on with
(`Astray`): the assertion of ldo.c:397 fails.  What luaV_execute does then is
undefined, and the model ends there (`err = "lost"`, `Lost`).  A LuaThread's
results, and the messages of lua_resume, stay on its stack; `top` says so.  Therefore
coroutine.resume, given a LuaThread that has ended, may call a value that is there (`Bodies`, which
may be a Lua function, a C function or neither) and leave others (`Remains`).  For
coroutine.status a LuaThread that has returned something is "suspended", not "dead".

### References: LuaRef

`registry` is the registry's array part, with the list of free slots threaded
through it from slot 0 (FREELIST_REF).  `Make` is the constructor of a C# object with its
`luaL_ref`; `Dispose` that of `LuaBase`, which has a flag; `DisposeThread` that
of `LuaThread`, which has none; `Collect` the collector of .NET, whose finalizers
give no reference back (such slots are in `leaked`, and harm nobody).

### C# objects in Lua: LuaTranslator

`objects`, `backmap` and `nextObj` are the fields of `ObjectTranslator`;
`weaktab` is the weak table luaNet_objects.  Pushing an object takes two actions,
`PushStart` (or `PushFound`, or `Register` for make_object) and `PushEnd`, as
`LuaNetNewUdata` allocates, and so can run the collector and finalizers, before
`LuaRawSetI`.  Between them are `Clear` (the collector takes a dead userdata out
of the weak table), `Finalize` (its `__gc` calls collectObject) and, if
`Reentrant`, whole pushes by finalizers written in Lua; `PushAbort` is an
error thrown by one of them.

### Programs: LuaParser, LuaCode, LuaVM, LuaReference, LuaChunk

A program is a tree of `LuaSyntax`, whose `Tokens` are what the lexer would give.
`LuaParser` is the recursive descent of lparser.c over them, `LuaCode` the
functions of lcode.c that it calls on a `FuncState`: expression descriptors with
their two jump lists, register allocation, backpatching, the `lasttarget` that
keeps `luaK_nil` from merging over a jump.  A `lua_assert` of either is a condition
that clears `asserts`.  `luaU_dump` makes a chunk a sequence of items, each of
which `luaU_undump` reads or fails to; every function that is read goes through
`luaG_checkcode`.  `LuaVM` has one action per instruction.  Its stack keeps what
functions leave in it, so that reading an old value shows; a slot that was never
written holds `Garbage`.  A call made by C code (a metamethod, pcall, an
iterator) is a frame with a continuation `cont`, as it has a `luaV_execute` of its own.
What C code does in between (the call that a pcall makes, the next table of
`luaV_gettable`, the rest of `luaV_concat`) is in `todo`, and is a step of its own
(`CallNext`, `ReturnNext`, `ConcatNext`, `GetNext`, `SetNext`), so that no operator is recursive;
no instruction runs before it is done.  `VMSpec` is the virtual machine alone, for a host that calls
any function; LuaChunk gives it what was compiled, dumped and read back.

`LuaReference` evaluates the tree instead: a cell for each variable, an
environment for each scope, a function with the environment it was made in.  It
knows of no register, jump or upvalue, so that agreement of both on what the
program passes to `emit` and returns means something.  Errors are compared by
their values, not their messages.

LuaChunk's constants `Parse` and `Manual` are operators, which MCPrograms gives
`LuaParser` and `LuaReference` for; LuaChunk itself is about the order of things.

### Libraries: MCLibrary and its parts

The parts share no state; a behaviour is one of one part, which `part` names, and
the others rest.

A table of `LuaTable` is a record with the array part, the nodes (a function of
positions, empty for the dummynode), and `lastfree`.  `Set` is `luaV_settable` with
all it calls: `luaH_set`, `newkey` with Brent's move of a colliding node, `rehash` with
`computesizes` and `resize`, which puts all fields back through `luaH_set`.  The loops over
chains (`luaH_get`, `findindex`, the search for the previous node in `newkey`) are one operator,
`Along`, with the nodes where it stops as a parameter; loops that count (`PutBack`,
`binsearch`, the doubling of `unbound_search`) are functions of the number of rounds.
`MarkDead` and `ClearWeak` are what the collector does to tables.  `NextField`,
`NextNil` and `NextInvalid` are the three outcomes of `lua_next`.  Hashes are any
numbers, chosen at the start.  Only the counting of `computesizes` is written as
sets and cardinalities rather than as the loop over slices.

`LuaSort` goes from one comparison to the next, since each is a call of the
program: the answer is the order's, or (`Wild`) any, or an error.  Fields are told
apart by where their values were at first, so that a value lost or doubled shows.

`LuaPattern` returns the `MatchState` of a failed attempt, too: captures are changed
in place, and what a failed branch leaves in them is what the next one sees.
`LuaStrlib` runs the attempts of each function at their places.  `PatternManual` has
no matcher: it takes the set of all ways to give every item its part of the
subject, and of these the first in the order that the manual states (`*` longest, `-` shortest).

`LuaBuffer` counts the strings on the stack that a buffer takes; `LuaStringTable`
has the chains, swept one at a time between operations of the program; `LuaLoader`
has the calls of `require` in progress and what searchers and modules may do.

## Runs

| Run | What it shows | Bounds | States |
|---|---|---|---|
| gc | barriers, atomic and sweep lose nothing; weak tables, finalizers, resurrection, abandoned cycles: IInv, TriColor, NoDangling, GrayListed, IdleWhite, FinalizeFirst, ImplementsHeap | 2 objects besides main thread and registry, in two families: of all kinds but userdata; or a table of any of the 4 modes and a userdata; full collections in any phase | 457,628 |
| trans_maps | the translator: IInv, HeldKnown, PushesSelf, ImplementsHandles, EventuallyReleased; beside it a small heap: EventuallyCollected | 3 objects, one of make_object; 6 indices; failing finalizers. The heap: 2 closures, full collections | 118,179 |
| coroutine | Counted, CStackBounded, YieldClean, YieldReturns, ImplementsLifecycle | one coroutine, one LuaThread, the main thread; 4 nested C calls and 2 spare; 3 or 2 functions a thread, five in all | 416,390 |
| programs | compiler, dump and virtual machine: RunsAsWritten, CompilerAssertsHold, UndumpRestores, VMAssertsHold, OpenUpvaluesLive, FlagsSound | 4,411 programs of families around one construct each | 115,825 |
| libraries | IInv and Sorts of table.sort; ChainsOK, MainInvariant, RoomAfterRehash, NoneSkipped, GetnIsBorder, ImplementsMap of tables; Interned; MatchesAsManual; BufferKeepsText; LoadsOnce; RefInv, RefsHold, FreeListOK, ImplementsRefTable of references | see below | 303,529 |
| gc_assert | *violated*: an assertion of luaC_barrierf | 2 objects, weak keys | |
| gc_weakkeys | *violated*: a weak-key table keeps its values | 2 objects, weak keys | |
| gc_resurrect | *violated*: only garbage is finalized | a weak table and 2 userdata; a program that runs between collections | |
| coroutine_host | *violated*: a yield returns to lua_resume | the host calls on a LuaThread | |
| coroutine_cbody | *violated*: a resume goes back to a call in a Lua function | as coroutine | |
| ref_threads | *violated*: a LuaThread's reference keeps its thread | Dispose twice | |
| trans_reentrant | *violated*: a userdata in use has its object | finalizers that push | |

Why the bounds are enough:

* Collector.  A barrier concerns two objects, an owner and a new reference; the
  main thread and the registry are further owners, and every edge that matters
  (cycle, self-reference, chain through a thread's stack) exists with two
  objects of the program's.  Both families have all phases, and the sweep
  meets the main thread, the registry and the userdata in the order in which they are linked
  (`SweepOrder`; the proofs know of no order); what they leave out
  (several coroutines, several weak tables or userdata) is covered by the proofs, as all
  properties of `gc` are proved for any number of objects.  Two objects are too few for
  what `gc_resurrect` shows, which came out of the proof of ImplementsHeap; with
  three, TLC finds it if the program is held to one table and to its turns (`OneTable`, `InTurns`).
* References.  Three slots, two LuaBases and a LuaThread reach free lists of every order,
  with holes and leaked slots; the proof covers any number.
* Translator.  Six indices give each of three objects a second life; the proof
  covers any number.
* Coroutines.  Four nested calls make room for a host call, a resume, a pcall
  and a call that overflows; two spare ones for a handler that runs after the
  overflow and resumes, or fails, itself.  Two threads besides the main one
  can resume each other in either order, by Lua or by C#.  Five functions in all (`InAll`) are
  what it takes to fill the C stack.  All five properties
  are proved for any number of threads and calls.
* Programs.  Each family of MCPrograms is the product of the cases of one
  construct: all conditions of two operands, all pairs of operators, loops by
  kind, capture and exit, assignments of up to three targets, calls by what they
  are given and what is done with the results, metamethods set before and after
  they were looked for, errors at each depth.  A defect of the code generator
  shows in what two neighbouring constructs do to each other's registers and
  jumps, and the families put neighbours side by side.  A dump is cut at its
  begin, its end, and at each quarter.
* Tables.  Five keys (three integers, a boolean, an object) fill a node vector of
  four with a chain of three and one node displaced from another chain; the array
  part grows to 1, 2 and 4 slots and shrinks again; `1..3` give lists with every
  pattern of holes, over both parts.  All the properties of tables are proved for any keys, values
  and hash functions.  There is one value, since values only move
  together with their keys.  Once a traversal is undefined the program sets nothing
  more until it leaves it.
* Sorting.  All lists of up to four of three values, of five of two, and longer ones
  that reach the recursion of a longer part; order functions that answer anything, on up
  to four values.  The proof covers every length and every order function.
* Strings.  Five strings collide in tables of one, two and four chains, which grow and
  shrink in the middle of a sweep.  The proof covers any strings, hashes and sizes.
* Patterns.  Subjects of up to three characters of two, and all patterns of up to two
  items, with up to two captures or a reference to one; with LUA_MAXCAPTURES 3
  the limit is met.  gsub's `max_s` is -1, 0, 1, or more than there are places.
* Buffers.  A buffer of two characters and at most three strings (LIMIT 4),
  for a text of up to 16: strings are put together in every way.  The proof covers all sizes.
* Modules.  Three modules are enough for a circle that is entered from outside, and two
  searchers for one that fails before one that succeeds.  The proof covers any number.

Deadlock is checked for the collector and for coroutines (`Lost`, where the behaviour
is undefined, stutters, so that TLC reports no deadlock there).  The others end: slots and
indices run out (LuaRef, LuaTranslator), a program has run, a list is sorted.

## Fairness

Only `trans_maps` assumes any, for its two liveness properties (`FairParts`).
For the heap it is weak fairness of the collector's steps, as each allocation that finds the
debt exceeded runs at least one `singlestep` (luaC_step); a program that stops allocating
is promised nothing by the code, nor here.  For the translator every userdata
that can be cleared or finalized is, in time, by the same argument, and a push that
has started ends, because it is sequential code.  The program itself may stop at any time.

## Proofs

The theorems hold for every value of the constants that satisfies the modules'
`ASSUME`s; the bounds of the runs play no part in them.

* **LuaGC_proofs**: `Invariance`, and from it `NeverDangling`, `TriColorHolds`,
  `GrayListedHolds`, `IdleWhiteHolds`, `FinalizeFirstHolds`.  NoDangling is not
  inductive: that nothing accessible is freed rests on what marking has still to
  do.  `IInv` adds: live objects refer to live ones only (`LiveClosed`: what is dead
  is unreachable from what is not), what the sweep has not reached yet
  (`Unswept`), the tri-color invariant while marking, each gray object in
  exactly one list, no marks between cycles.  There is one lemma for each action; the
  hard one is `atomic`, where the closure of what was marked is shown to be white-free.
  In the same module, `CollectorImplementsHeap`, the refinement of LuaHeap.  The program's
  steps use accessible objects only (`MutatorProgram`); marking and the changes of
  phase are stutters; the atomic step is `Decide`, since whatever the roots lead to
  by strong references is marked or about to be (`MarkedStrong`, `ReachedInUse`);
  sweeping a dead object is `Free`, since nothing live refers to one.  The first attempt
  failed for a reason: LuaHeap promised that no userdata is finalized that the
  roots, or a userdata that waits for its finalizer, lead to, and the code does not
  keep that (`gc_resurrect`).  `InUse` now says what it keeps: references
  are not followed through a userdata that waits.
* **LuaTranslator_proofs**: `Consistency`, `AlwaysKnown`, `AlwaysSelf`,
  `ImplementsTable`, assuming that no finalizer pushes objects (`~Reentrant`;
  trans_reentrant shows why) and that objects are equal to themselves only
  (`Distinct`).  The invariant says that the maps are inverse to each other, that an
  index is first unused, then in the weak table, then waiting for its finalizer, and that a push in progress
  has its index to itself.
* **LuaCoroutine_proofs**: `CoroutineInvariance`, `CallsCounted`, `CStackAlwaysBounded`,
  `YieldAlwaysClean`, `YieldAlwaysReturns`, `LifecycleImplemented`, assuming that the host calls functions on
  the main thread only (`CallsOn \subseteq {Main}`; coroutine_host shows what happens
  otherwise).  LuaThreads of C functions are among the threads, and so is what they leave on their
  stacks.  The invariant relates each entry of the C stack to its thread: a
  coroutine's first entry is its `lua_resume` (`EntriesOK`), `nCcalls` counts its calls
  among the entries, and what an entry restores is that count at its time (`LevelsOK`),
  the functions of an entry are above those of the entries before (`HeightsOK`), an
  error handler is set within a pcall only, and the depth of the C stack is at
  most what the last entry counts (`DepthOK`).  A step
  leaves the C stack alone, adds an entry, or cuts it at one; the three shapes are
  proved once (`QuietStep`, `PushCall` and `PushResume`, `CutStep`), and each action is one of them.
  `LifecycleImplemented` is the refinement of Coroutines.  Its `active` threads are those of the
  host's calls and of the resumes among the entries (`Actives`), the n-th of which is found by
  counting; that there is one for each n is the pigeonhole principle (`NthRank`).  `SwitchesOK` adds to
  the invariant that all other entries are calls of the thread of the entry before.  A step is then
  one of six kinds (`StepOK`): it leaves the entries alone, adds a call or a resume, cuts the stack at
  an entry, refuses a resume, or leaves the message of one with a LuaThread (`Told`); what `costatus` infers of each coroutine follows from `ThreadsOK` if it is
  active, and from its unchanged status, frames and stack if not (`Follow`).
* **LuaSort_proofs**: `SortInvariant`, `SortPermutes`, `SortSorts`.  Under any order
  function, one that lies or fails included, auxsort permutes its list, leaves the
  interval it was given by one field at most, and calls itself to a depth of the logarithm of the
  length.  If the function is an order (`Order`), the list is sorted in the end: two
  fields that are not both in an interval still to be sorted are in order.
* **LuaLibrary_proofs**, the parts of the library one after the other:
  - The string table: `InternInvariance`, `AlwaysInterned`, for any strings and hashes.  `InternInv`
    adds to `Interned` types, and that the sweep is at a chain that the table has; the work is in the
    two loops over chains.  `luaS_resize` moves
    one string after the other (`ChainMoves`), one chain after the other (`Resizes`), and each step
    keeps `IsTable`: a chain has the strings of its hash, each once, of those that were moved so
    far.  Taking the dead strings out of a chain keeps it as well (`Sweeps`).
  - Buffers: `BufferInvariance`, `AlwaysKeepsText`.  `BufferInv` says that the strings on the stack and
    what is in the buffer, put together, are all that was added.  That `adjuststack` puts
    together what it takes off the stack without changing the whole is `FlattenConcat`, which rests
    on the recursion that a fold of the community modules is (`FlattenLoop`).  The stack's bound is
    that adjuststack goes on until less than `LIMIT` strings are left (`TogetFinds`), whatever
    their lengths.
  - String functions: `StringInvariance`, `AlwaysAsManual`.  The matcher is a constant operator here, and
    `MatcherAgrees` is the theorem's hypothesis: at each place of each attempt it gives what the manual does.
    TLC evaluates that, as a part of `MatchesAsManual`, on all patterns and subjects of the run; the theorem
    says that then find, match, gmatch and gsub as a whole are right, on any call: they try
    every place that they have to, in order, go on behind a match, move on by one after an empty
    one, stop at `max_s`, and the text that gsub makes is the subject with its matches replaced.
    `CallsAssumption` and `MeaningAssumption`, about the calls and the manual only, are evaluated by TLC.
    The first attempt failed on calls with a negative `max_s`, which the model took for no limit:
    `while (n < max_s)` of str_gsub replaces nothing then, and so does the model now (`GsubEnd`).
  - require: `LoaderInvariance`, `AlwaysLoadsOnce`, for any number of modules and searchers.  A module that
    runs has its sentinel in `package.loaded`, and only the last call of require is at its searchers.
  - References: `RefInvariance`, `RefsAlwaysHold`, `FreeListAlwaysOK`, `ImplementsTable`, assuming that
    Dispose is called once on each LuaThread (`~Twice`; ref_threads shows what happens otherwise).
    The invariant names the free list by a witness sequence: each step gives the next one.
* **LuaVM_proofs**: `HeapInvariance`, `FlagsAlwaysSound`, for any functions that the host calls and any
  instructions, whether or not a compiler made them.  The flags of a table are right because whatever stores a
  field either clears them (`SetSound`: luaV_settable, lua_rawset) or stores no event (`FieldsSound`:
  OP_SETLIST, the `arg` table of luaD_precall), and a flag is set only after a search that failed
  (`FastSound`).  Each operation of the machine keeps a state `Sound` if it is given one, callees
  first: from the stack up to `precall`, `gettable`, `settable` and `concat`; the instructions follow.
  The steps of LuaChunk's `Spec` are those of `VMSpec` or leave the machine alone, so that FlagsSound holds of it too
  (its parser is recursive, so this last remark is not itself checked).
* **LuaTable_proofs**: `TableInvariant`, and from it `TableChains`, `TableMain`, `TableRoom`,
  `TableFree`, `TableLength`; then `TableProgress` and, from both, `TableImplementsMap`, for tables of
  every size and any hash functions.  `ChainsOK` is not inductive: a new key that moves
  a node must lose none of the others, whatever cleared and dead nodes lie between.
  `Chained` adds that no two nodes lead to the same one, that every key is reached from its
  main position (every set of nodes that is closed under `next` and has the one has the other),
  that a key which is not dead comes before dead ones of the same key,
  that in the main position of any key there is a key that belongs there, and that
  nothing above `lastfree` is unused.  A loop along a chain has a value because there is no circle
  (`AlongSolution`); of the recursive function only its equations are used then.  newkey has three
  cases (`NewInPlace`, `NewBehind`, `NewInFront`), each of which keeps `Chained`, and changes no
  field.  rehash: whatever is put back has its key in the set that was counted
  (`PutsBack`), so that there is always a vacant node or a free one (`RoomForAll`).
  A traversal has returned what is at indices up to that of its last key (`Progress`); what keeps
  the keys in their nodes keeps the indices (`Thins`); and findindex finds the right node of a key
  that occurs twice, once dead, because the one that is not dead comes first (`AnyIsLive`).

Induction over numbers is done with a set in the place of the property
(`Induction` in LuaSort_proofs, `RangeInduction` in Ranges), as the library's theorems
take an operator.  `RangeRecursion` of Ranges gives recursive functions on a range of numbers the same
way: a function exists that satisfies the equations, so the one that is chosen does.

Only model-checked:

* Liveness (`EventuallyReleased`, `EventuallyCollected`): it rests on fairness.
* `RunsAsWritten`, `CompilerAssertsHold`, `UndumpRestores`: the parser, the code generator, the dump
  and the reference semantics are recursive over the tree of a program.
* `VMAssertsHold`, `OpenUpvaluesLive`: they hold of code that luaG_checkcode accepts, or that the compiler makes,
  not of any; what such code is, is again said by recursive operators.
* The matcher: it is recursive and backtracks.  Its agreement with the manual (`MatcherAgrees`) is
  checked on all attempts of the run, and is where the proof about the string functions starts.

## What the violations show

* `gc_assert`: a userdata that waits for its finalizer is black after the sweep;
  a finalizer can get at it through a table with weak keys and write to it,
  which fails the assertion in luaC_barrierf.
* `gc_resurrect`: a userdata that waits for its finalizer is black when a full
  collection starts in the finalize phase, which therefore looks at what it refers to
  only after it has chosen what to finalize.  If the program got it back through a weak
  table, and stored a new userdata in what it refers to, then the new one is finalized while
  the program can still get at it.
* `gc_weakkeys`: a table with weak keys drops a pair whose value is a finalized userdata,
  although the manual says that it keeps values.
* `coroutine_host`: a LuaThread makes itself the interpreter for all later
  LuaFunctions.  A function that the host calls on its stack after it has run once can
  yield, with nothing to return to.
* `coroutine_cbody`: a LuaThread may be started on a C function, and if that yields, the resume
  of ldo.c runs the virtual machine without a Lua function.
* `ref_threads`: disposing of a LuaThread twice frees another object's reference.
* `trans_reentrant`: a finalizer that pushes the object that is being pushed.

PROJECT.json gives the lines and the quoted text of each under "findings".

## Not modelled

* The lexer, number formats, `string.format`, the rest of the table library, the
  libraries for mathematics, I/O and the operating system, the programs lua and luac:
  sequential code whose correctness is a matter of input and output.
* Pacing of the collector (thresholds, estimates, the threshold that GCTM
  restores, lgc.c:461); a step can happen at any time, which covers every pace.
* Memory errors, as in the middle of a rehash (ltable.c:302); sizes of stacks; debug hooks
  and the names that error messages give to variables.
* The reflection side of the binding (matching of methods, loading of types, emitted
  classes).
* Finalizers written in Lua that reach the userdata of a C# object
  (ObjectTranslator.cs:642), a hazard without a property; and the message that lua_resume writes over
  the arguments of a running function (ldo.c:410), since values are left out.
* Modules that set entries of `package.loaded` for other names than their own, as `module` of
  loadlib.c can.

## Plan

What is left, in the order of its worth:

1. LuaTranslator composed with the order and resurrection of finalizers of LuaGC.
2. `OpenUpvaluesLive` for code that keeps to its frames, as an assumption on what the host calls.
3. The matcher as a function of the rounds of its loops, so that it can be proved about.

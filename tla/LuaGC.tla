------------------------------- MODULE LuaGC -------------------------------
(***************************************************************************)
(* The incremental mark-and-sweep collector of lgc.c, interleaved with the *)
(* program (the "mutator") that runs between two of its steps.             *)
(*                                                                         *)
(* One action of the collector is one call of singlestep(): luaC_step()    *)
(* runs a few of them whenever an allocation finds the debt exceeded, so   *)
(* the mutator can act between any two.  Sweeping is split further, to one *)
(* object per step, which only adds interleavings.                         *)
(*                                                                         *)
(* What an object refers to is abstracted to                               *)
(*   held[o]  strong references: a closure's upvalues and environment, a   *)
(*            userdata's metatable and environment, a table's metatable, a *)
(*            thread's stack;                                              *)
(*   ents[t]  the key-value pairs of table t, NIL being any value that is  *)
(*            not collectable; any of those whose key is NIL may be in the *)
(*            array part;                                                  *)
(*   mode[t]  the __mode that t's metatable has now, gctm[u] whether u's   *)
(*            metatable has a __gc.                                        *)
(* The registry, the basic metatables and the globals are one table that   *)
(* is always reachable.  Open upvalues and prototypes are left out: they   *)
(* have a component of their own.                                          *)
(***************************************************************************)
EXTENDS FiniteSets, Naturals

CONSTANTS
  Obj,        \* object identities
  Main,       \* the main thread
  Registry,   \* the registry table
  NIL,        \* a value that is not collectable
  NewKinds,   \* the kinds of object the mutator creates
  NewModes,   \* the weak modes the mutator gives to tables
  FullGCs,    \* whether the program calls collectgarbage()
  MaxRefs,    \* bound: references outside the stacks
  MaxStack    \* bound: objects on the stack of one thread

Kinds  == {"table", "udata", "closure", "thread", "string"}
Modes  == SUBSET {"k", "v"}
Ref    == Obj \cup {NIL}
Whites == {"white", "otherwhite"}
Colors == Whites \cup {"gray", "black"}

ASSUME ObjAssumption ==
  /\ Main \in Obj /\ Registry \in Obj /\ Main # Registry
  /\ NIL \notin Obj
ASSUME MutatorAssumption ==
  /\ NewKinds \subseteq Kinds
  /\ NewModes \subseteq Modes
  /\ FullGCs \in BOOLEAN
  /\ MaxRefs \in Nat /\ MaxStack \in Nat

VARIABLES
  kind, held, ents, mode, gctm,   \* the objects
  running,                        \* the thread that runs: L
  color, fin,                     \* the bits of gch.marked
  gcstate,                        \* global_State
  gray, grayagain, weak,          \* ... its lists of objects to visit
  sweepgc, sweepstr,              \* ... what is left to sweep
  tmudata,                        \* ... userdata to be finalized
  full                            \* where luaC_fullgc is, if it runs

heapvars  == <<kind, held, ents, mode, gctm>>
listvars  == <<gray, grayagain, weak>>
sweepvars == <<sweepgc, sweepstr, tmudata>>
vars == <<heapvars, running, color, fin, gcstate, listvars,
          sweepvars, full>>

-----------------------------------------------------------------------------
(* Bits and references.  The two white bits go by their relation to        *)
(* currentwhite, "white" being the one that g->currentwhite has, so that   *)
(* its flip in atomic() exchanges them.                                    *)

iswhite(o)    == color[o] \in Whites
isblack(o)    == color[o] = "black"
isgray(o)     == color[o] = "gray"
isdead(o)     == color[o] = "otherwhite"

Allocated == {o \in Obj : kind[o] # "free"}
Strings   == {o \in Obj : kind[o] = "string"}
Idle      == gcstate \in {"pause", "finalize"}
Sweeping  == gcstate \in {"sweepstring", "sweep"}

Keys(t)   == {e[1] : e \in ents[t]} \ {NIL}
Values(t) == {e[2] : e \in ents[t]} \ {NIL}

\* Everything a program can reach from o in one step.
Edges == [o \in Obj |-> held[o] \cup Keys(o) \cup Values(o)]

\* What traversetable, traverseclosure, traversestack and the userdata case
\* of reallymarkobject mark.
Strong ==
  [o \in Obj |-> held[o] \cup (IF "k" \in mode[o] THEN {} ELSE Keys(o))
                        \cup (IF "v" \in mode[o] THEN {} ELSE Values(o))]

\* Mutant of Visited: threads are marked and forgotten.
VisitedNoThread(S) == {o \in S : kind[o] \in {"table", "closure"}}

\* Userdata are blackened at once and strings have nothing to visit.
Visited(S) == {o \in S : kind[o] \in {"table", "closure", "thread"}}

\* reallymarkobject on every white object of S: the ones that leave white.  A
\* userdata marks its metatable and environment, which are tables.
Newly(S) ==
  LET W == {o \in S : iswhite(o)}
  IN  W \cup UNION {{p \in held[u] : iswhite(p)} :
                      u \in {o \in W : kind[o] = "udata"}}

MarkColor(o) == IF kind[o] = "udata" THEN "black" ELSE "gray"

markobjects(S) ==
  color' = [o \in Obj |-> IF o \in Newly(S) THEN MarkColor(o) ELSE color[o]]

-----------------------------------------------------------------------------
(* The write barriers.                                                     *)

\* Mutant of barrier: nothing tells the collector.
barrierNone(o, v) == UNCHANGED <<color, gray>>

\* luaC_barrier and luaC_objbarrier: o, which is not a table, now refers to v.
barrier(o, v) ==
  IF isblack(o) /\ iswhite(v)
  THEN IF gcstate = "propagate"
       THEN /\ markobjects({v})
            /\ gray' = gray \cup Visited(Newly({v}))
       ELSE /\ color' = [color EXCEPT ![o] = "white"]
            /\ UNCHANGED gray
  ELSE UNCHANGED <<color, gray>>

\* Mutant of barriert: the table turns gray and is in no list.
barriertLost(t, S) ==
  /\ UNCHANGED grayagain
  /\ color' = [color EXCEPT ![t] = IF isblack(t) /\ \E v \in S : iswhite(v)
                                   THEN "gray" ELSE @]

\* luaC_barriert and luaC_objbarriert: table t now refers to the objects of S.
barriert(t, S) ==
  IF isblack(t) /\ \E v \in S : iswhite(v)
  THEN /\ color' = [color EXCEPT ![t] = "gray"]
       /\ grayagain' = grayagain \cup {t}
  ELSE UNCHANGED <<color, grayagain>>

-----------------------------------------------------------------------------
(* The mutator.  It runs unless luaC_fullgc has control; luaC_fullgc gives *)
(* control back only to the finalizers.                                    *)

Runs == full = "no" \/ (full = "mark" /\ gcstate = "finalize")

\* The objects the running thread can use.  What refers to the registry is
\* left out: it is always reachable.
Hand == held[running]
Base == Hand \cup {Registry}

\* The bounds: the stack of thread t and the heap have room for one more.
Room(t) == Cardinality(held[t]) < MaxStack
Refs ==
  UNION {{<<o, p>> : p \in held[o]} \cup {<<o, e>> : e \in ents[o]} :
           o \in {q \in Obj : kind[q] # "thread"}}

collector == <<gcstate, sweepvars, full>>

\* luaC_link and its like: a new object has the current white.
New(o, k) ==
  /\ Runs
  /\ kind[o] = "free" /\ Room(running)
  /\ kind' = [kind EXCEPT ![o] = k]
  /\ color' = [color EXCEPT ![o] = "white"]
  /\ held' = [held EXCEPT ![running] = @ \cup {o}]
  /\ UNCHANGED <<ents, mode, gctm, fin, running, listvars, collector>>

\* lua_gettable, lua_getmetatable, lua_getupvalue, lua_xmove ...: an
\* object o that p refers to gets on the stack.
Get(p, o) ==
  /\ Runs
  /\ o \in Edges[p] \ Hand /\ Room(running)
  /\ held' = [held EXCEPT ![running] = @ \cup {o}]
  /\ UNCHANGED <<kind, ents, mode, gctm, running, color, fin, listvars,
                 collector>>

\* lua_settop: no slot of the stack holds o any more.
Drop(o) ==
  /\ Runs
  /\ held' = [held EXCEPT ![running] = @ \ {o}]
  /\ UNCHANGED <<kind, ents, mode, gctm, running, color, fin, listvars,
                 collector>>

\* Mutant of Intern: the string found is not revived.
InternDead(s) ==
  /\ Runs
  /\ kind[s] = "string" /\ Room(running)
  /\ held' = [held EXCEPT ![running] = @ \cup {s}]
  /\ UNCHANGED <<kind, ents, mode, gctm, running, color, fin, listvars, collector>>

\* A string with the contents of s is made while s is still in the string
\* table: luaS_newlstr returns s itself, and revives it when it is dead.
Intern(s) ==
  /\ Runs
  /\ kind[s] = "string" /\ Room(running)
  /\ held' = [held EXCEPT ![running] = @ \cup {s}]
  /\ color' = [color EXCEPT ![s] = IF isdead(s) THEN "white" ELSE @]
  /\ UNCHANGED <<kind, ents, mode, gctm, running, fin, listvars, collector>>

\* lua_settable, lua_rawset: key k, when collectable, gets value v.
SetTable(t, k, v) ==
  LET old == {e \in ents[t] : e[1] = k /\ k # NIL} IN
  /\ Runs
  /\ kind[t] = "table" /\ {k, v} # {NIL}
  /\ old # {} \/ Cardinality(Refs) < MaxRefs
  /\ ents' = [ents EXCEPT ![t] = (@ \ old) \cup {<<k, v>>}]
  /\ barriert(t, {k, v} \ {NIL})
  /\ UNCHANGED <<kind, held, mode, gctm, running, fin, gray, weak, collector>>

\* ... and the pair e is gone when its value becomes nil.
SetNil(t, e) ==
  /\ Runs
  /\ ents' = [ents EXCEPT ![t] = @ \ {e}]
  /\ UNCHANGED <<kind, held, mode, gctm, running, color, fin, listvars,
                 collector>>

\* A change of the __mode that applies to t; its metatable stays reachable.
SetMode(t, m) ==
  /\ Runs
  /\ kind[t] = "table"
  /\ mode' = [mode EXCEPT ![t] = m]
  /\ UNCHANGED <<kind, held, ents, gctm, running, color, fin, listvars,
                 collector>>

\* lua_setmetatable on table t: v replaces what it had, if anything.
SetMetatable(t, v) ==
  /\ Runs
  /\ kind[t] = "table" /\ kind[v] = "table"
  /\ held[t] # {} \/ Cardinality(Refs) < MaxRefs
  /\ held' = [held EXCEPT ![t] = {v}]
  /\ barriert(t, {v})
  /\ UNCHANGED <<kind, ents, mode, gctm, running, fin, gray, weak, collector>>

\* lua_xmove: the running thread gives o to a thread at hand.  Nothing is told
\* to the collector, as threads are never black.
XMove(t, o) ==
  /\ Runs
  /\ kind[t] = "thread" /\ Room(t)
  /\ held' = [held EXCEPT ![t] = @ \cup {o}]
  /\ UNCHANGED <<kind, ents, mode, gctm, running, color, fin, listvars,
                 collector>>

\* lua_setupvalue on a closure, lua_setfenv, and lua_setmetatable on userdata:
\* v replaces what slot r held, if that was in use.
SetRef(o, r, v) ==
  /\ Runs
  /\ \/ kind[o] = "closure"
     \/ kind[o] = "udata" /\ kind[v] = "table"
  /\ r \in held[o] \/ Cardinality(Refs) < MaxRefs
  /\ held' = [held EXCEPT ![o] = (@ \ {r}) \cup {v}]
  /\ barrier(o, v)
  /\ UNCHANGED <<kind, ents, mode, gctm, running, fin, grayagain, weak,
                 collector>>

\* The __gc of u's metatable appears or disappears.
SetGcTM(u) ==
  /\ Runs
  /\ kind[u] = "udata"
  /\ gctm' = [gctm EXCEPT ![u] = ~@]
  /\ UNCHANGED <<kind, held, ents, mode, running, color, fin, listvars,
                 collector>>

\* lua_resume of a thread at hand, or the way back to the main thread.
Switch(t) ==
  /\ Runs
  /\ kind[t] = "thread" /\ t # running
  /\ running' = t
  /\ UNCHANGED <<heapvars, color, fin, listvars, collector>>

\* The program uses what it has at hand only.
Mutator ==
  \/ \E o \in Obj, k \in NewKinds : New(o, k)
  \/ \E p \in Base : \E o \in Edges[p] : Get(p, o)
  \/ \E o \in Hand : Drop(o)
  \/ \E s \in Strings : Intern(s)
  \/ \E t \in Base, k, v \in Hand \cup {NIL} : SetTable(t, k, v)
  \/ \E t \in Base : \E e \in ents[t] : SetNil(t, e)
  \/ \E t \in Hand, m \in NewModes : SetMode(t, m)
  \/ \E t \in Base, v \in Hand : SetMetatable(t, v)
  \/ \E t, o \in Hand : XMove(t, o)
  \/ \E o, v \in Hand : \E r \in held[o] \cup {NIL} : SetRef(o, r, v)
  \/ \E u \in Hand : SetGcTM(u)
  \/ \E t \in Hand \cup {Main} : Switch(t)

-----------------------------------------------------------------------------
(* The collector.                                                          *)

mutatorvars == <<kind, held, ents, mode, gctm, running>>

\* markroot: the lists start empty.
markroot ==
  LET roots == {Main, Registry} IN
  /\ markobjects(roots)
  /\ gray' = Visited(Newly(roots))
  /\ grayagain' = {} /\ weak' = {}
  /\ gcstate' = "propagate"

MarkRoot ==
  /\ gcstate = "pause" /\ full = "no"
  /\ markroot
  /\ UNCHANGED <<mutatorvars, fin, sweepvars, full>>

\* propagatemark: a thread waits in grayagain for the atomic step, a table
\* that is weak now in weak, and both stay gray.
Propagate(o) ==
  LET reached == Newly(Strong[o])
      stays   == kind[o] = "thread" \/ mode[o] # {}
  IN /\ gcstate = "propagate"
     /\ color' = [p \in Obj |-> IF p \in reached THEN MarkColor(p)
                                ELSE IF p = o /\ ~stays THEN "black"
                                ELSE color[p]]
     /\ gray' = (gray \ {o}) \cup Visited(reached)
     /\ grayagain' = grayagain \cup {p \in {o} : kind[p] = "thread"}
     /\ weak' = weak \cup {p \in {o} : mode[p] # {}}
     /\ UNCHANGED <<mutatorvars, fin, gcstate, sweepvars, full>>

\* propagateall: what leaves white once the objects of S are marked and no
\* gray object is left, that is, the least set of white objects that has
\* those of S and whatever is strongly referred to by one of its own.
Closed(T, S) ==
  /\ \A p \in S : iswhite(p) => p \in T
  /\ \A q \in T : \A p \in Strong[q] : iswhite(p) => p \in T

propagateall(S) ==
  LET closed == {T \in SUBSET {o \in Obj : iswhite(o)} : Closed(T, S)}
  IN  {o \in Obj : iswhite(o) /\ \A T \in closed : o \in T}

Revisited == gray \cup grayagain \cup weak

\* Mutant of Again: grayagain is not visited again.
AgainNot == {running} \cup UNION {Strong[o] : o \in gray \cup weak}

\* What atomic starts from: the lists it visits again and the running thread.
Again     == {running} \cup UNION {Strong[o] : o \in Revisited}

\* luaC_separateudata: the userdata that nothing marked has reached, R being
\* what was, and that were not finalized yet.
separateudata(R) ==
  {u \in Obj : /\ kind[u] = "udata" /\ u \notin tmudata
               /\ iswhite(u) /\ u \notin R /\ ~fin[u]}

\* marktmu marks everything that waits for its finalizer, even if an earlier
\* cycle left it marked; P is what waits.
marktmu(P) == P \cup UNION {held[u] : u \in P}

\* Mutant of iscleared: whether the object is marked is not looked at.
isclearedAlways(o, iskey, M, F) == o # NIL /\ kind[o] # "string"

\* iscleared, M being marked and F finalized: strings are values, and a
\* userdata being finalized is kept as a key and not as a value.
iscleared(o, iskey, M, F) ==
  /\ o # NIL /\ kind[o] # "string"
  /\ \/ o \notin M
     \/ kind[o] = "udata" /\ ~iskey /\ o \in F

\* Mutant of cleartable: only keys are looked at.
cleartableKeys(t, M, F) == {e \in ents[t] : ~iscleared(e[1], TRUE, M, F)}

cleartable(t, M, F) ==
  {e \in ents[t] : ~iscleared(e[1], TRUE, M, F) /\ ~iscleared(e[2], FALSE, M, F)}

\* In the array part cleartable looks for weak values only: what it may leave of
\* the pairs that it would drop elsewhere, by table.
Spared(W, M, F) ==
  UNION {{t} \X {e \in ents[t] \ cleartable(t, M, F) : e[1] = NIL /\ "v" \notin mode[t]} : t \in W}

\* iscleared marks the strings it meets: a key always, a value when the key
\* has not settled the pair's fate.
KeptStrings(W, M, F) ==
  {s \in Strings : \E t \in W : \E e \in ents[t] :
     s = e[1] \/ (s = e[2] /\ ~iscleared(e[1], TRUE, M, F))}

\* Mutant: currentwhite is not flipped.
AtomicColorNoFlip(o, V, W, K, P) ==
  CASE o \in V -> IF kind[o] = "thread" \/ o \in W THEN "gray" ELSE "black"
    [] o \in P \ V -> "black"
    [] OTHER -> color[o]

\* The color of an allocated object after the flip of currentwhite, V being
\* visited, W the weak tables, K kept strings and P what waits.
AtomicColor(o, V, W, K, P) ==
  CASE o \in V -> IF kind[o] \in {"thread", "string"} \/ o \in W
                 THEN "gray" ELSE "black"
    [] o \in K \ V -> "gray"
    [] o \in P \ V -> "black"
    [] o \notin V \cup K \cup P ->
         CASE color[o] = "white"      -> "otherwhite"
           [] color[o] = "otherwhite" -> "white"
           [] OTHER                   -> color[o]

Atomic ==
  LET reached   == propagateall(Again)
      unreached == separateudata(reached)
      pending   == tmudata \cup {u \in unreached : gctm[u]}
      preserved == propagateall(Again \cup marktmu(pending))
      visited   == preserved \cup Revisited
      weaks     == {t \in visited : kind[t] = "table" /\ mode[t] # {}}
      marked    == {o \in Allocated : ~iswhite(o)} \cup preserved
      finalized == {u \in Obj : fin[u]} \cup unreached
      kept      == KeptStrings(weaks, marked, finalized)
  IN /\ gcstate = "propagate" /\ gray = {}
     /\ color' = [o \in Obj |->
                     IF kind[o] = "free" THEN color[o]
                     ELSE AtomicColor(o, visited, weaks, kept, pending)]
     /\ fin' = [o \in Obj |-> o \in finalized]
     /\ \E array \in SUBSET Spared(weaks, marked, finalized) :
          ents' = [t \in Obj |->
                     IF t \in weaks
                     THEN cleartable(t, marked, finalized) \cup {e \in ents[t] : <<t, e>> \in array}
                     ELSE ents[t]]
     /\ grayagain' = {o \in visited : kind[o] = "thread"}
     /\ weak' = weaks
     /\ tmudata' = pending
     /\ sweepstr' = Strings
     /\ sweepgc' = Allocated \ (Strings \cup pending)
     /\ gcstate' = "sweepstring"
     /\ UNCHANGED <<kind, held, mode, gctm, running, gray, full>>

\* Mutants of sweep: both whites count as dead; what is kept stays marked.
sweepOf(o, dead, kept) ==
  /\ color' = [color EXCEPT ![o] = kept]
  /\ kind' = [kind EXCEPT ![o] = IF dead THEN "free" ELSE @]
  /\ held' = [held EXCEPT ![o] = IF dead THEN {} ELSE @]
  /\ ents' = [ents EXCEPT ![o] = IF dead THEN {} ELSE @]
  /\ mode' = [mode EXCEPT ![o] = IF dead THEN {} ELSE @]
  /\ gctm' = [gctm EXCEPT ![o] = IF dead THEN FALSE ELSE @]
  /\ fin'  = [fin EXCEPT ![o] = IF dead THEN FALSE ELSE @]
sweepWhite(o)  == sweepOf(o, iswhite(o), "white")
sweepMarked(o) == sweepOf(o, isdead(o), IF isdead(o) THEN "white" ELSE color[o])

\* sweeplist on one object: freed when dead, white again when not.
sweep(o) ==
  /\ color' = [color EXCEPT ![o] = "white"]
  /\ IF isdead(o)
     THEN /\ kind' = [kind EXCEPT ![o] = "free"]
          /\ held' = [held EXCEPT ![o] = {}]
          /\ ents' = [ents EXCEPT ![o] = {}]
          /\ mode' = [mode EXCEPT ![o] = {}]
          /\ gctm' = [gctm EXCEPT ![o] = FALSE]
          /\ fin' = [fin EXCEPT ![o] = FALSE]
     ELSE UNCHANGED <<heapvars, fin>>

SweepString(s) ==
  /\ gcstate = "sweepstring"
  /\ sweep(s)
  /\ sweepstr' = sweepstr \ {s}
  /\ UNCHANGED <<running, gcstate, listvars, sweepgc, tmudata,
                 full>>

EndSweepString ==
  /\ gcstate = "sweepstring" /\ sweepstr = {}
  /\ gcstate' = "sweep"
  /\ UNCHANGED <<mutatorvars, color, fin, listvars, sweepvars,
                 full>>

Sweep(o) ==
  /\ gcstate = "sweep"
  /\ sweep(o)
  /\ sweepgc' = sweepgc \ {o}
  /\ UNCHANGED <<running, gcstate, listvars, sweepstr, tmudata,
                 full>>

EndSweep ==
  /\ gcstate = "sweep" /\ sweepgc = {}
  /\ gcstate' = "finalize"
  /\ UNCHANGED <<mutatorvars, color, fin, listvars, sweepvars,
                 full>>

\* GCTM: u is an ordinary object again, and the argument of its finalizer.
GCTM(u) ==
  /\ gcstate = "finalize" /\ full # "sweep"
  /\ tmudata' = tmudata \ {u}
  /\ color' = [color EXCEPT ![u] = "white"]
  /\ held' = [held EXCEPT ![running] = IF gctm[u] THEN @ \cup {u} ELSE @]
  /\ UNCHANGED <<kind, ents, mode, gctm, running, fin, gcstate,
                 listvars, sweepgc, sweepstr, full>>

EndCycle ==
  /\ gcstate = "finalize" /\ full # "sweep"
  /\ tmudata = {}
  /\ gcstate' = "pause"
  /\ full' = "no"
  /\ UNCHANGED <<mutatorvars, color, fin, listvars, sweepvars>>

\* luaC_fullgc: a cycle that is still marking is abandoned and everything is
\* swept back to white; one that sweeps is finished.
FullGC ==
  /\ Runs /\ FullGCs
  /\ full' = "sweep"
  /\ IF gcstate \in {"pause", "propagate"}
     THEN /\ gray' = {} /\ grayagain' = {} /\ weak' = {}
          /\ sweepstr' = Strings
          /\ sweepgc' = Allocated \ (Strings \cup tmudata)
          /\ gcstate' = "sweepstring"
     ELSE UNCHANGED <<listvars, sweepgc, sweepstr, gcstate>>
  /\ UNCHANGED <<mutatorvars, color, fin, tmudata>>

\* ... and then a whole cycle runs.
FullMark ==
  /\ full = "sweep" /\ gcstate = "finalize"
  /\ markroot
  /\ full' = "mark"
  /\ UNCHANGED <<mutatorvars, fin, sweepvars>>

singlestep ==
  \/ MarkRoot
  \/ \E o \in gray : Propagate(o)
  \/ Atomic
  \/ \E s \in sweepstr : SweepString(s)
  \/ EndSweepString
  \/ \E o \in sweepgc : Sweep(o)
  \/ EndSweep
  \/ \E u \in tmudata : GCTM(u)
  \/ EndCycle

Collector == singlestep \/ FullMark

-----------------------------------------------------------------------------
Init ==
  /\ kind = [o \in Obj |-> IF o = Main THEN "thread"
                           ELSE IF o = Registry THEN "table" ELSE "free"]
  /\ held = [o \in Obj |-> {}]
  /\ ents = [o \in Obj |-> {}]
  /\ mode = [o \in Obj |-> {}]
  /\ gctm = [o \in Obj |-> FALSE]
  /\ running = Main
  /\ color = [o \in Obj |-> "white"]
  /\ fin = [o \in Obj |-> FALSE]
  /\ gcstate = "pause"
  /\ gray = {} /\ grayagain = {} /\ weak = {}
  /\ sweepgc = {} /\ sweepstr = {} /\ tmudata = {}
  /\ full = "no"

Next == Mutator \/ FullGC \/ Collector

Spec == Init /\ [][Next]_vars

-----------------------------------------------------------------------------
(* Properties.                                                             *)

\* Every variable has the shape the C declarations give it.
TypeOK ==
  /\ kind \in [Obj -> Kinds \cup {"free"}]
  /\ held \in [Obj -> SUBSET Obj]
  /\ ents \in [Obj -> SUBSET (Ref \X Ref)]
  /\ mode \in [Obj -> Modes]
  /\ gctm \in [Obj -> BOOLEAN]
  /\ running \in Obj
  /\ color \in [Obj -> Colors]
  /\ fin \in [Obj -> BOOLEAN]
  /\ gcstate \in {"pause", "propagate", "sweepstring", "sweep", "finalize"}
  /\ {gray, grayagain, weak, sweepgc, sweepstr, tmudata} \subseteq SUBSET Obj
  /\ full \in {"no", "sweep", "mark"}

\* The objects the sweep will not free, and the ones it will.
Live == {o \in Allocated : ~isdead(o)}
Dead == {o \in Allocated : isdead(o)}

\* What the types of the C structures allow an object to refer to, and the
\* colors that marking gives to each kind.
KindsOK ==
  /\ kind[Main] = "thread" /\ kind[Registry] = "table"
  /\ kind[running] = "thread"
  /\ \A o \in Obj :
       /\ kind[o] \in {"free", "string"} => Edges[o] = {}
       /\ kind[o] # "table" => ents[o] = {} /\ mode[o] = {}
       /\ kind[o] = "udata" => ~isgray(o)
       /\ kind[o] \in {"thread", "string"} => ~isblack(o)
  /\ \A u \in Live : kind[u] = "udata" => \A p \in held[u] : kind[p] = "table"
  /\ \A u \in tmudata : kind[u] = "udata"

\* What the program can ever get at again: from the roots, the thread that
\* runs and the userdata whose finalizers will run, through any reference.
ClosedUnder(T) == \A q \in T : Edges[q] \subseteq T
Roots == {Main, Registry, running} \cup tmudata
Accessible ==
  LET closed == {T \in {Roots \cup M : M \in SUBSET (Obj \ Roots)} : ClosedUnder(T)}
  IN  {o \in Obj : \A T \in closed : o \in T}

\* Nothing the sweep will free is referred to by what it will keep, and only
\* a sweep that has not reached it yet leaves an object to be freed.
LiveClosed ==
  /\ Roots \subseteq Live /\ ClosedUnder(Live)
  /\ ~Sweeping => Dead = {}
  /\ \A u \in Dead : kind[u] = "udata" /\ gctm[u] => fin[u]

\* What the sweep has passed is white again.
Unswept ==
  Sweeping =>
    \A o \in Allocated \ tmudata :
      color[o] # "white" => IF kind[o] = "string" THEN o \in sweepstr /\ gcstate = "sweepstring"
                                                 ELSE o \in sweepgc

\* No reference the program can follow, weak ones included, leads to memory
\* that was freed: barriers, atomic and cleartable together must see to it.
NoDangling == Accessible \subseteq Allocated

\* The tri-color invariant: while marking, a black object refers to no white
\* one, whatever the mutator stored meanwhile.  Userdata that wait for a
\* finalizer since an earlier cycle are exempt: marktmu marks them again.
TriColor ==
  gcstate = "propagate" =>
    \A o \in Allocated \ tmudata :
      isblack(o) => \A p \in Edges[o] : ~iswhite(p)

\* While marking, a gray object is in exactly one of the lists that will visit
\* it, as gclist can link it in one only; only strings are gray and in none.
GrayListed ==
  gcstate = "propagate" =>
    /\ {o \in Allocated : isgray(o)} \ Strings = gray \cup grayagain \cup weak
    /\ gray \cap grayagain = {} /\ gray \cap weak = {}
    /\ grayagain \cap weak = {}

\* Between two cycles nothing but a userdata waiting for its finalizer is
\* marked, or a stale mark would hide an object from the next cycle.
IdleWhite ==
  Idle => \A o \in Allocated \ tmudata : color[o] = "white"

\* The inductive invariant: what all of this rests on.
Marking == gcstate = "propagate" => {Main, Registry} \cap {o \in Obj : iswhite(o)} = {}

IInv ==
  /\ TypeOK /\ KindsOK /\ LiveClosed /\ Unswept /\ IdleWhite
  /\ Marking /\ TriColor /\ GrayListed

\* A userdata with a finalizer is never freed before it was finalized.
FinalizeFirst ==
  [][\A u \in Obj : kind[u] = "udata" /\ kind'[u] = "free" /\ gctm[u]
                      => fin[u]]_vars

\* The assertions of luaC_barrierf (lgc.c:663-664), for whatever closure or
\* userdata the running thread may write to next: no forward barrier happens
\* outside marking and sweeping, none on a dead object.
BarrierAsserts ==
  \A o, v \in Base :
    /\ kind[o] \in {"closure", "udata"} /\ (kind[o] = "udata" => kind[v] = "table")
    /\ isblack(o) /\ iswhite(v)
    => ~Idle /\ ~isdead(v) /\ ~isdead(o)

\* cleartable drops a pair for its value only where the table's values are
\* weak; manual.html says a table with weak keys prevents the collection of
\* its values, so a pair whose key is in use stays.
WeakKeysKeepValues ==
  [][\A t \in Obj : \A e \in ents[t] :
       /\ gcstate = "propagate" /\ gcstate' = "sweepstring" /\ full = full'
       /\ t \in Accessible' /\ mode[t] = {"k"}
       /\ e[1] \in Accessible' \cup {NIL}
       => e \in ents'[t]]_vars

Heap == INSTANCE LuaHeap

\* Only garbage gets in the list of the userdata to finalize: what the program
\* still has a way to, by strong references alone, does not.
FinalizesGarbage ==
  [][\A u \in tmudata' \ tmudata :
       u \notin Heap!ReachedFrom({Main, Registry, running}, Heap!Strong)]_vars

ImplementsHeap == Heap!Spec
=============================================================================

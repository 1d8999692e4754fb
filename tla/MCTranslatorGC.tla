--------------------------- MODULE MCTranslatorGC ---------------------------
(* Two systems whose collector must get on with its work, in one run: the *)
(* translator, which sees the collector as the loss and the finalizing of *)
(* userdata, and a small heap with every step of the collector.  They     *)
(* share nothing; a behaviour is one of either, the other at rest.        *)
EXTENDS LuaTranslator, TLC

CONSTANTS a, b, g, x, y, main, registry, nil

CONSTANTS Obj, Main, Registry, NIL, NewKinds, NewModes, FullGCs, MaxRefs, MaxStack

VARIABLES
  part,       \* the system that runs
  kind, gheld, ents, mode, gctm, running, color, fin, gcstate,
  gray, grayagain, weak, sweepgc, sweepstr, gtmudata, full

GC == INSTANCE LuaGC WITH held <- gheld, tmudata <- gtmudata

\* No class overrides Equals.
Identity == [o \in Object |-> o]
NoModes  == {}

heap    == <<kind, gheld, ents, mode, gctm, running, color, fin, gcstate,
             gray, grayagain, weak, sweepgc, sweepstr, gtmudata, full>>
allvars == <<vars, heap, part>>

InitParts == part \in {"objects", "heap"} /\ Init /\ GC!Init

OfObjects(A) == part = "objects" /\ A /\ UNCHANGED <<heap, part>>
OfHeap(A)    == part = "heap" /\ A /\ UNCHANGED <<vars, part>>

NextParts ==
  \/ \E o \in Object \ Generated : OfObjects(PushFound(o)) \/ OfObjects(PushStart(o))
  \/ \E o \in Generated : OfObjects(Register(o))
  \/ OfObjects(PushEnd)
  \/ OfObjects(PushAbort)
  \/ \E i \in Index : OfObjects(Lose(i))
  \/ OfObjects(Collector)
  \/ OfHeap(GC!Mutator)
  \/ OfHeap(GC!FullGC)
  \/ OfHeap(GC!Collector)

\* Every allocation that finds the debt exceeded runs steps of the collector,
\* so a program that goes on allocating goes on collecting.
FairParts ==
  /\ InitParts /\ [][NextParts]_allvars
  /\ Fairness
  /\ WF_allvars(OfHeap(GC!Collector))

\* Whatever becomes inaccessible is freed in the end, unless a finalizer or
\* the string table brings it back (luaC_step, lgc.c:610).
Garbage == IF part = "heap" THEN GC!Allocated \ GC!Accessible ELSE {}
EventuallyCollected ==
  \A o \in Obj \ {Main, Registry} : (o \in Garbage) ~> (o \notin Garbage)
=============================================================================

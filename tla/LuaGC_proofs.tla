---------------------------- MODULE LuaGC_proofs ----------------------------
(* Proofs about the collector of LuaGC, for every heap. *)
EXTENDS LuaGC, TLAPS

-----------------------------------------------------------------------------
(* Type correctness.                                                       *)

LEMMA EdgesType ==
  ASSUME TypeOK, NEW o \in Obj
  PROVE  /\ held[o] \subseteq Obj /\ held[o] \subseteq Edges[o]
         /\ Keys(o) \subseteq Obj /\ Values(o) \subseteq Obj
         /\ Edges[o] \subseteq Obj
         /\ Strong[o] \subseteq Edges[o]
  BY DEF TypeOK, Keys, Values, Edges, Strong, Ref

LEMMA MarkTypes ==
  ASSUME TypeOK, NEW S \in SUBSET Obj
  PROVE  /\ Newly(S) \in SUBSET Obj
         /\ Visited(S) \in SUBSET Obj
         /\ propagateall(S) \in SUBSET Obj
         /\ \A o \in Obj : MarkColor(o) \in Colors
  BY DEF TypeOK, Newly, Visited, propagateall, MarkColor, Colors

LEMMA TypeInit == Init => TypeOK
  BY ObjAssumption DEF Init, TypeOK, Kinds, Modes, Colors, Whites

LEMMA BaseType ==
  ASSUME TypeOK
  PROVE  Hand \subseteq Obj /\ Base \subseteq Obj
  BY ObjAssumption DEF TypeOK, Hand, Base

\* The mutator keeps the types.
LEMMA TypeMutator == TypeOK /\ Mutator => TypeOK'
  <1> SUFFICES ASSUME TypeOK, Mutator PROVE TypeOK'
    OBVIOUS
  <1> USE DEF TypeOK, listvars, sweepvars, collector
  <1>a. Hand \subseteq Obj /\ Base \subseteq Obj
    BY BaseType
  <1>1. ASSUME NEW o \in Obj, NEW k \in NewKinds, New(o, k) PROVE TypeOK'
    BY <1>1, MutatorAssumption DEF New, Kinds, Colors, Whites
  <1>2. ASSUME NEW p \in Base, NEW o \in Edges[p], Get(p, o) PROVE TypeOK'
    BY <1>2, <1>a, EdgesType DEF Get
  <1>3. ASSUME NEW o \in Hand, Drop(o) PROVE TypeOK'
    BY <1>3 DEF Drop
  <1>4. ASSUME NEW s \in Strings, Intern(s) PROVE TypeOK'
    BY <1>4 DEF Intern, Strings, Colors, Whites
  <1>5. ASSUME NEW t \in Base, NEW k \in Hand \cup {NIL},
               NEW v \in Hand \cup {NIL}, SetTable(t, k, v)
        PROVE  TypeOK'
    BY <1>5, <1>a DEF SetTable, barriert, Ref, Colors
  <1>6. ASSUME NEW t \in Base, NEW e \in ents[t], SetNil(t, e) PROVE TypeOK'
    BY <1>6, <1>a DEF SetNil
  <1>7. ASSUME NEW t \in Hand, NEW m \in NewModes, SetMode(t, m) PROVE TypeOK'
    BY <1>7, MutatorAssumption DEF SetMode
  <1>8. ASSUME NEW t \in Base, NEW v \in Hand, SetMetatable(t, v) PROVE TypeOK'
    BY <1>8, <1>a DEF SetMetatable, barriert, Colors
  <1>9. ASSUME NEW t \in Hand, NEW o \in Hand, XMove(t, o) PROVE TypeOK'
    BY <1>9, <1>a DEF XMove
  <1>10. ASSUME NEW o \in Hand, NEW v \in Hand, NEW r \in held[o] \cup {NIL},
                SetRef(o, r, v)
         PROVE  TypeOK'
    <2>1. o \in Obj /\ v \in Obj
      BY <1>a
    <2>2. Newly({v}) \subseteq Obj /\ Visited(Newly({v})) \subseteq Obj
      BY <2>1, MarkTypes
    <2>3. color' \in [Obj -> Colors]
      BY <1>10, <2>1, <2>2, MarkTypes DEF SetRef, barrier, markobjects, Colors, Whites
    <2>4. gray' \subseteq Obj
      BY <1>10, <2>2 DEF SetRef, barrier
    <2>5. held' \in [Obj -> SUBSET Obj]
      BY <1>10, <2>1 DEF SetRef
    <2> QED BY <1>10, <2>3, <2>4, <2>5 DEF SetRef
  <1>11. ASSUME NEW u \in Hand, SetGcTM(u) PROVE TypeOK'
    BY <1>11, <1>a DEF SetGcTM
  <1>12. ASSUME NEW t \in Hand \cup {Main}, Switch(t) PROVE TypeOK'
    BY <1>12, <1>a, ObjAssumption DEF Switch, heapvars
  <1> QED
    BY <1>1, <1>2, <1>3, <1>4, <1>5, <1>6, <1>7, <1>8, <1>9, <1>10, <1>11,
       <1>12 DEF Mutator

\* ... and so does the collector.
LEMMA TypeMarkroot == ASSUME TypeOK, markroot PROVE /\ color' \in [Obj -> Colors]
                                                   /\ gray' \subseteq Obj
  <1>1. {Main, Registry} \subseteq Obj
    BY ObjAssumption
  <1> QED BY <1>1, MarkTypes DEF markroot, markobjects, TypeOK

LEMMA TypeSweep == ASSUME TypeOK, NEW o \in Obj, sweep(o)
                   PROVE  /\ kind' \in [Obj -> Kinds \cup {"free"}]
                          /\ held' \in [Obj -> SUBSET Obj]
                          /\ ents' \in [Obj -> SUBSET (Ref \X Ref)]
                          /\ mode' \in [Obj -> Modes]
                          /\ gctm' \in [Obj -> BOOLEAN]
                          /\ color' \in [Obj -> Colors]
                          /\ fin' \in [Obj -> BOOLEAN]
  BY DEF TypeOK, sweep, Modes, Colors, Whites, heapvars

LEMMA TypeCollector == TypeOK /\ (Collector \/ FullGC) => TypeOK'
  <1> SUFFICES ASSUME TypeOK, Collector \/ FullGC PROVE TypeOK'
    OBVIOUS
  <1> USE DEF TypeOK, listvars, sweepvars, mutatorvars, heapvars
  <1>1. CASE MarkRoot
    BY <1>1, TypeMarkroot DEF MarkRoot, markroot
  <1>2. ASSUME NEW o \in gray, Propagate(o) PROVE TypeOK'
    <2>1. Strong[o] \subseteq Obj
      BY EdgesType
    <2>2. Newly(Strong[o]) \subseteq Obj /\ Visited(Newly(Strong[o])) \subseteq Obj
      BY <2>1, MarkTypes
    <2>3. color' \in [Obj -> Colors]
      BY <1>2, MarkTypes DEF Propagate, Colors
    <2> QED BY <1>2, <2>2, <2>3 DEF Propagate
  <1>3. CASE Atomic
    <2>1. color' \in [Obj -> Colors]
      BY <1>3 DEF Atomic, AtomicColor, Colors, Whites
    <2>2. ents' \in [Obj -> SUBSET (Ref \X Ref)]
      <3> DEFINE unreached == separateudata(propagateall(Again))
                 pending   == tmudata \cup {u \in unreached : gctm[u]}
                 preserved == propagateall(Again \cup marktmu(pending))
                 weaks     == {t \in preserved \cup Revisited : kind[t] = "table" /\ mode[t] # {}}
                 marked    == {o \in Allocated : ~iswhite(o)} \cup preserved
                 finalized == {u \in Obj : fin[u]} \cup unreached
      <3>1. PICK array \in SUBSET Spared(weaks, marked, finalized) :
              ents' = [t \in Obj |-> IF t \in weaks
                                     THEN cleartable(t, marked, finalized)
                                            \cup {e \in ents[t] : <<t, e>> \in array}
                                     ELSE ents[t]]
        BY <1>3 DEF Atomic
      <3>2. \A t : cleartable(t, marked, finalized) \subseteq ents[t]
        BY DEF cleartable
      <3> HIDE DEF weaks, marked, finalized
      <3>3. ents' \in [Obj -> SUBSET (Ref \X Ref)]
        BY <3>1, <3>2
      <3> QED BY <3>3
    <2>3. fin' \in [Obj -> BOOLEAN]
      BY <1>3 DEF Atomic
    <2>4. Allocated \subseteq Obj /\ Strings \subseteq Obj
      BY DEF Allocated, Strings
    <2>5. {grayagain', weak'} \subseteq SUBSET Obj
      <3>1. PICK S : grayagain' \subseteq propagateall(S) \cup Revisited
                     /\ weak' \subseteq propagateall(S) \cup Revisited
        BY <1>3 DEF Atomic
      <3> QED BY <3>1 DEF propagateall, Revisited
    <2>6. {tmudata', sweepgc', sweepstr'} \subseteq SUBSET Obj
      BY <1>3, <2>4 DEF Atomic, separateudata
    <2>7. UNCHANGED <<kind, held, mode, gctm, running, gray, full>> /\ gcstate' = "sweepstring"
      BY <1>3 DEF Atomic
    <2> QED BY <2>1, <2>2, <2>3, <2>5, <2>6, <2>7
  <1>4. ASSUME NEW s \in sweepstr, SweepString(s) PROVE TypeOK'
    BY <1>4, TypeSweep DEF SweepString
  <1>5. CASE EndSweepString
    BY <1>5 DEF EndSweepString
  <1>6. ASSUME NEW o \in sweepgc, Sweep(o) PROVE TypeOK'
    BY <1>6, TypeSweep DEF Sweep
  <1>7. CASE EndSweep
    BY <1>7 DEF EndSweep
  <1>8. ASSUME NEW u \in tmudata, GCTM(u) PROVE TypeOK'
    BY <1>8 DEF GCTM, Colors, Whites
  <1>9. CASE EndCycle
    BY <1>9 DEF EndCycle
  <1>10. CASE FullMark
    BY <1>10, TypeMarkroot DEF FullMark, markroot
  <1>11. CASE FullGC
    BY <1>11 DEF FullGC, Allocated, Strings
  <1> QED
    BY <1>1, <1>2, <1>3, <1>4, <1>5, <1>6, <1>7, <1>8, <1>9, <1>10, <1>11
       DEF Collector, singlestep

LEMMA TypeNext == TypeOK /\ [Next]_vars => TypeOK'
  <1>1. CASE UNCHANGED vars
    BY <1>1 DEF TypeOK, vars, heapvars, listvars, sweepvars
  <1> QED BY <1>1, TypeMutator, TypeCollector DEF Next

\* Every variable keeps the shape the C declarations give it.
THEOREM TypeCorrect == Spec => []TypeOK
  BY TypeInit, TypeNext, PTL DEF Spec

-----------------------------------------------------------------------------
(* The inductive invariant, the mutator's part.                            *)

LEMMA HandLive ==
  ASSUME IInv
  PROVE  /\ Hand \subseteq Live /\ Base \subseteq Live
         /\ \A p \in Base : Edges[p] \subseteq Live
  BY EdgesType, BaseType, ObjAssumption DEF IInv, LiveClosed, Roots, ClosedUnder, Hand, Base, Live, Allocated

\* How an action changes what objects refer to.
LEMMA EdgesFrame ==
  ASSUME ents' = ents
  PROVE  Edges' = [x \in Obj |-> held'[x] \cup Keys(x) \cup Values(x)]
  <1>1. \A x \in Obj : /\ {e[1] : e \in ents'[x]} = {e[1] : e \in ents[x]}
                       /\ {e[2] : e \in ents'[x]} = {e[2] : e \in ents[x]}
    OBVIOUS
  <1> QED BY <1>1 DEF Edges, Keys, Values

LEMMA HeldFrame ==
  ASSUME TypeOK, ents' = ents, NEW o \in Obj, NEW S,
         held' = [held EXCEPT ![o] = S]
  PROVE  /\ Edges'[o] = S \cup Keys(o) \cup Values(o)
         /\ \A x \in Obj \ {o} : Edges'[x] = Edges[x]
  BY EdgesFrame DEF Edges, TypeOK

\* What an action that leaves kinds and colors alone needs of KindsOK.
LEMMA KindFacts ==
  ASSUME IInv, NEW x \in Obj
  PROVE  /\ kind[x] \in {"free", "string"} => Edges[x] = {}
         /\ kind[x] # "table" => ents[x] = {} /\ mode[x] = {}
         /\ kind[x] = "udata" => color[x] # "gray"
         /\ kind[x] = "udata" /\ x \in Live => \A p \in held[x] : kind[p] = "table"
         /\ kind[x] \in {"thread", "string"} => color[x] # "black"
  BY DEF IInv, KindsOK, isgray, isblack

LEMMA NewStep ==
  ASSUME IInv, NEW o \in Obj, NEW k \in NewKinds, New(o, k)
  PROVE  IInv'
  <1> USE DEF listvars, sweepvars, collector
  <1>1. TypeOK'
    BY TypeMutator DEF IInv, Mutator
  <1>a. /\ TypeOK /\ KindsOK /\ k \in Kinds /\ kind[o] = "free" /\ running \in Obj
        /\ kind' = [kind EXCEPT ![o] = k] /\ color' = [color EXCEPT ![o] = "white"]
        /\ UNCHANGED <<ents, mode, gctm, fin, running, gcstate, tmudata>>
        /\ held' = [held EXCEPT ![running] = @ \cup {o}]
    BY MutatorAssumption DEF New, IInv, TypeOK
  <1>b. /\ Edges'[running] = Edges[running] \cup {o}
        /\ \A x \in Obj \ {running} : Edges'[x] = Edges[x]
    <2>1. Edges'[running] = held[running] \cup {o} \cup Keys(running) \cup Values(running)
      BY <1>a, HeldFrame
    <2> QED BY <1>a, <2>1, HeldFrame DEF Edges
  <1>2. KindsOK'
    <2>1. \A x \in Obj : kind'[x] \in {"free", "string"} => Edges'[x] = {}
      BY <1>a, <1>b DEF TypeOK, KindsOK
    <2>2. \A x \in Obj : kind'[x] = "udata" => ~isgray(x)'
      BY <1>a DEF TypeOK, KindsOK, isgray
    <2>3. \A x \in Obj : kind'[x] \in {"thread", "string"} => ~isblack(x)'
      BY <1>a DEF TypeOK, KindsOK, isblack
    <2>4. \A x \in Obj : kind'[x] # "table" => ents'[x] = {} /\ mode'[x] = {}
      BY <1>a DEF TypeOK, KindsOK
    <2>5. \A u \in Live' : kind'[u] = "udata" => \A p \in held'[u] : kind'[p] = "table"
      <3>1. held[o] = {}
        BY <1>a DEF KindsOK, Edges
      <3> QED BY <1>a, <3>1, EdgesType DEF TypeOK, KindsOK, Live, Allocated, isdead
    <2> QED BY <1>a, <2>1, <2>2, <2>3, <2>4, <2>5, ObjAssumption DEF KindsOK, IInv, LiveClosed, Roots, Live, Allocated
  <1>3. LiveClosed'
    <2>1. Live' = Live \cup {o} /\ Dead' = Dead
      BY <1>a DEF TypeOK, Live, Dead, Allocated, isdead, Kinds
    <2>2. ClosedUnder(Live)'
      BY <1>a, <1>b, <2>1 DEF IInv, LiveClosed, ClosedUnder, KindsOK, Live, Allocated
    <2> QED BY <1>a, <2>1, <2>2 DEF IInv, LiveClosed, Roots, Sweeping, Dead, Allocated
  <1>4. Unswept'
    BY <1>1 DEF New, IInv, TypeOK, Unswept, Sweeping, Allocated
  <1>5. IdleWhite'
    BY <1>1 DEF New, IInv, TypeOK, IdleWhite, Idle, Allocated
  <1>6. Marking' /\ TriColor'
    BY <1>a, <1>b DEF IInv, TypeOK, KindsOK, Marking, TriColor, isblack, iswhite, Allocated,
                        LiveClosed, ClosedUnder, Live, isdead
  <1>7. GrayListed'
    BY <1>1 DEF New, IInv, TypeOK, GrayListed, Strings, isgray, Allocated, KindsOK
  <1> QED BY <1>1, <1>2, <1>3, <1>4, <1>5, <1>6, <1>7 DEF IInv

\* What an action of the mutator has to respect to keep what does not depend
\* on the phase: it passes on references to live objects only, and outside of
\* marking colors go back towards white.
LEMMA MutatorFrame ==
  ASSUME IInv, TypeOK',
         UNCHANGED <<kind, fin, gcstate, sweepgc, sweepstr, tmudata>>,
         running' \in Live, kind[running'] = "thread",
         \A x \in Obj :
           /\ Edges'[x] \subseteq Edges[x] \cup Live
           /\ kind[x] \in {"free", "string"} => Edges'[x] = {}
           /\ kind[x] # "table" => ents'[x] = {} /\ mode'[x] = {}
           /\ kind[x] = "udata" =>
                /\ x \in Live => \A p \in held'[x] : kind[p] = "table"
                /\ x \notin Live => gctm'[x] = gctm[x] /\ held'[x] = held[x]
                /\ color'[x] # "gray"
           /\ kind[x] \in {"thread", "string"} => color'[x] # "black"
           /\ color'[x] = color[x] \/ color'[x] # "otherwhite"
           /\ color'[x] = color[x] \/ x \in Live \/ kind[x] = "string"
           /\ gcstate # "propagate" =>
                \/ color'[x] \in {color[x], "white"}
                \/ color[x] = "black" /\ kind[x] # "udata"
  PROVE  KindsOK' /\ LiveClosed' /\ Unswept' /\ IdleWhite'
  <1> USE DEF IInv
  <1>1. Live \subseteq Live' /\ \A x \in Live' \ Live : kind[x] = "string"
    BY DEF Live, Allocated, isdead, TypeOK, Colors
  <1>2. Dead' \subseteq Dead
    BY DEF Dead, Allocated, isdead
  <1>3. KindsOK'
    <2>1. \A u \in Live' : kind'[u] = "udata" => \A p \in held'[u] : kind'[p] = "table"
      BY <1>1 DEF Live, Allocated
    <2>2. \A x \in Obj :
            /\ kind'[x] \in {"free", "string"} => Edges'[x] = {}
            /\ kind'[x] # "table" => ents'[x] = {} /\ mode'[x] = {}
            /\ kind'[x] = "udata" => color'[x] # "gray"
            /\ kind'[x] \in {"thread", "string"} => color'[x] # "black"
      OBVIOUS
    <2>3. /\ kind'[Main] = "thread" /\ kind'[Registry] = "table"
          /\ \A u \in tmudata' : kind'[u] = "udata"
      BY DEF KindsOK
    <2> QED BY <2>1, <2>2, <2>3 DEF KindsOK, isgray, isblack
  <1>4. ClosedUnder(Live)'
    BY <1>1 DEF LiveClosed, ClosedUnder, Live, Allocated
  <1>5. LiveClosed'
    BY <1>1, <1>2, <1>4 DEF LiveClosed, Roots, Sweeping, Dead, Live, Allocated, isdead
  <1>6. Unswept'
    BY DEF Unswept, Sweeping, Allocated
  <1>7. IdleWhite'
    <2> SUFFICES ASSUME Idle, NEW x \in Allocated \ tmudata PROVE color'[x] = "white"
      BY DEF IdleWhite, Idle, Allocated
    <2> QED BY DEF IdleWhite, Idle, Allocated
  <1> QED BY <1>3, <1>5, <1>6, <1>7

\* ... and what keeps the rest of the invariant when no color changes.
LEMMA ColorFrame ==
  ASSUME IInv, UNCHANGED <<kind, color, gcstate, tmudata, listvars>>,
         \A x \in Obj : isblack(x) => Edges'[x] \subseteq Edges[x]
  PROVE  Marking' /\ TriColor' /\ GrayListed'
  <1>1. Marking'
    BY DEF IInv, Marking, iswhite
  <1>2. TriColor'
    BY DEF IInv, TriColor, Allocated, isblack, iswhite
  <1>3. GrayListed'
    BY DEF IInv, GrayListed, Allocated, Strings, isgray, listvars
  <1> QED BY <1>1, <1>2, <1>3

\* An action that changes the stack of one thread only, and puts nothing on
\* it that is not live.
LEMMA StackStep ==
  ASSUME IInv, TypeOK', NEW t \in Live, kind[t] = "thread", NEW S \in SUBSET Live,
         held' = [held EXCEPT ![t] = S],
         UNCHANGED <<kind, ents, mode, gctm, running, color, fin, listvars, collector>>
  PROVE  IInv'
  <1> USE DEF listvars, sweepvars, collector
  <1>a. TypeOK /\ t \in Obj /\ ents[t] = {}
    BY DEF IInv, KindsOK, Live, Allocated
  <1>1. Edges'[t] = S /\ \A x \in Obj \ {t} : Edges'[x] = Edges[x]
    <2>1. Keys(t) = {} /\ Values(t) = {}
      BY <1>a DEF Keys, Values
    <2>2. /\ Edges'[t] = S \cup Keys(t) \cup Values(t)
          /\ \A x \in Obj \ {t} : Edges'[x] = Edges[x]
      BY <1>a, HeldFrame
    <2> QED BY <2>1, <2>2
  <1>2. /\ running' \in Live /\ kind[running'] = "thread"
        /\ \A x \in Obj : Edges'[x] \subseteq Edges[x] \cup Live
    BY <1>a, <1>1 DEF IInv, KindsOK, LiveClosed, Roots
  <1>3. \A x \in Obj : /\ x # t => held'[x] = held[x]
                       /\ kind[x] \in {"free", "string"} => Edges'[x] = {}
    BY <1>a, <1>1, KindFacts DEF TypeOK
  <1>4. KindsOK' /\ LiveClosed' /\ Unswept' /\ IdleWhite'
    BY <1>2, <1>3, KindFacts, MutatorFrame
  <1>5. \A x \in Obj : isblack(x) => Edges'[x] \subseteq Edges[x]
    BY <1>1, KindFacts DEF isblack
  <1>6. Marking' /\ TriColor' /\ GrayListed'
    BY <1>5, ColorFrame
  <1> QED BY <1>4, <1>6 DEF IInv

LEMMA StackActions ==
  ASSUME IInv
  PROVE  /\ \A p \in Base : \A o \in Edges[p] : Get(p, o) => IInv'
         /\ \A o \in Hand : Drop(o) => IInv'
         /\ \A t, o \in Hand : XMove(t, o) => IInv'
  <1>a. TypeOK /\ running \in Live /\ kind[running] = "thread"
    BY DEF IInv, KindsOK, LiveClosed, Roots
  <1>1. ASSUME NEW p \in Base, NEW o \in Edges[p], Get(p, o) PROVE IInv'
    <2>1. TypeOK'
      BY <1>1, <1>a, TypeMutator DEF Mutator
    <2>2. held[running] \cup {o} \subseteq Live
      BY HandLive DEF Hand
    <2> QED BY <1>1, <1>a, <2>1, <2>2, StackStep DEF Get
  <1>2. ASSUME NEW o \in Hand, Drop(o) PROVE IInv'
    <2>1. TypeOK'
      BY <1>2, <1>a, TypeMutator DEF Mutator
    <2>2. held[running] \ {o} \subseteq Live
      BY HandLive DEF Hand
    <2> QED BY <1>2, <1>a, <2>1, <2>2, StackStep DEF Drop
  <1>3. ASSUME NEW t \in Hand, NEW o \in Hand, XMove(t, o) PROVE IInv'
    <2>1. TypeOK'
      BY <1>3, <1>a, TypeMutator DEF Mutator
    <2>2. t \in Live /\ held[t] \cup {o} \subseteq Live
      BY HandLive, EdgesType DEF IInv, LiveClosed, ClosedUnder, Live, Allocated
    <2> QED BY <1>3, <1>a, <2>1, <2>2, StackStep DEF XMove
  <1> QED BY <1>1, <1>2, <1>3

LEMMA SwitchStep ==
  ASSUME IInv, NEW t \in Hand \cup {Main}, Switch(t)
  PROVE  IInv'
  <1> USE DEF listvars, sweepvars, collector, heapvars
  <1>1. TypeOK /\ TypeOK'
    BY TypeMutator DEF Mutator, IInv
  <1>2. Edges' = Edges
    BY EdgesFrame DEF Switch, Edges
  <1>3. /\ running' \in Live /\ kind[running'] = "thread"
        /\ UNCHANGED <<kind, held, ents, mode, gctm, color, fin, listvars, collector>>
    BY HandLive DEF Switch, IInv, LiveClosed, Roots
  <1>4. \A x \in Obj : /\ Edges'[x] \subseteq Edges[x]
                       /\ kind[x] \in {"free", "string"} => Edges'[x] = {}
    BY <1>2, KindFacts
  <1>5. KindsOK' /\ LiveClosed' /\ Unswept' /\ IdleWhite'
    BY <1>1, <1>3, <1>4, KindFacts, MutatorFrame
  <1>6. Marking' /\ TriColor' /\ GrayListed'
    BY <1>3, <1>4, ColorFrame
  <1> QED BY <1>1, <1>5, <1>6 DEF IInv

LEMMA SetGcTMStep ==
  ASSUME IInv, NEW u \in Hand, SetGcTM(u)
  PROVE  IInv'
  <1> USE DEF listvars, sweepvars, collector
  <1>1. /\ TypeOK /\ TypeOK' /\ u \in Live
        /\ running \in Live /\ kind[running] = "thread"
    BY TypeMutator, HandLive DEF Mutator, IInv, KindsOK, LiveClosed, Roots
  <1>2. Edges' = Edges
    BY EdgesFrame DEF SetGcTM, Edges
  <1>3. \A x \in Obj : /\ x \notin Live => gctm'[x] = gctm[x]
                       /\ kind[x] \in {"free", "string"} => Edges'[x] = {}
    BY <1>1, <1>2, KindFacts DEF SetGcTM, TypeOK
  <1>4. KindsOK' /\ LiveClosed' /\ Unswept' /\ IdleWhite'
    BY <1>1, <1>2, <1>3, KindFacts, MutatorFrame DEF SetGcTM
  <1>5. Marking' /\ TriColor' /\ GrayListed'
    BY <1>2, ColorFrame DEF SetGcTM
  <1> QED BY <1>1, <1>4, <1>5 DEF IInv

LEMMA SetModeStep ==
  ASSUME IInv, NEW t \in Hand, NEW m \in NewModes, SetMode(t, m)
  PROVE  IInv'
  <1> USE DEF listvars, sweepvars, collector
  <1>1. /\ TypeOK /\ TypeOK' /\ running \in Live /\ kind[running] = "thread"
    BY TypeMutator DEF Mutator, IInv, KindsOK, LiveClosed, Roots
  <1>2. Edges' = Edges
    BY EdgesFrame DEF SetMode, Edges
  <1>3. \A x \in Obj : /\ kind[x] # "table" => mode'[x] = mode[x]
                       /\ kind[x] \in {"free", "string"} => Edges'[x] = {}
    BY <1>1, <1>2, KindFacts DEF SetMode, TypeOK
  <1>4. KindsOK' /\ LiveClosed' /\ Unswept' /\ IdleWhite'
    BY <1>1, <1>2, <1>3, KindFacts, MutatorFrame DEF SetMode
  <1>5. Marking' /\ TriColor' /\ GrayListed'
    BY <1>2, ColorFrame DEF SetMode
  <1> QED BY <1>1, <1>4, <1>5 DEF IInv

\* What a table's pairs become, and what it refers to by them.
LEMMA EntsFrame ==
  ASSUME TypeOK, NEW t \in Obj, NEW E, ents' = [ents EXCEPT ![t] = E], held' = held
  PROVE  /\ Edges'[t] = held[t] \cup ({e[1] : e \in E} \ {NIL})
                                \cup ({e[2] : e \in E} \ {NIL})
         /\ \A x \in Obj \ {t} : Edges'[x] = Edges[x]
  <1>1. ents'[t] = E /\ \A x \in Obj \ {t} : ents'[x] = ents[x]
    BY DEF TypeOK
  <1>2. \A x \in Obj : Edges'[x] = held[x] \cup ({e[1] : e \in ents'[x]} \ {NIL})
                                          \cup ({e[2] : e \in ents'[x]} \ {NIL})
    BY DEF Edges, Keys, Values
  <1>3. \A x \in Obj : Edges[x] = held[x] \cup ({e[1] : e \in ents[x]} \ {NIL})
                                         \cup ({e[2] : e \in ents[x]} \ {NIL})
    BY DEF Edges, Keys, Values
  <1> QED BY <1>1, <1>2, <1>3

LEMMA SetNilStep ==
  ASSUME IInv, NEW t \in Base, NEW e \in ents[t], SetNil(t, e)
  PROVE  IInv'
  <1> USE DEF listvars, sweepvars, collector
  <1>1. /\ TypeOK /\ TypeOK' /\ t \in Obj
        /\ running \in Live /\ kind[running] = "thread"
    BY TypeMutator, BaseType DEF Mutator, IInv, KindsOK, LiveClosed, Roots
  <1>2. \A x \in Obj : Edges'[x] \subseteq Edges[x]
    BY <1>1, EntsFrame DEF SetNil, Edges, Keys, Values
  <1>3. \A x \in Obj : /\ kind[x] # "table" => ents'[x] = {}
                       /\ kind[x] \in {"free", "string"} => Edges'[x] = {}
    BY <1>1, <1>2, KindFacts DEF SetNil, TypeOK
  <1>4. KindsOK' /\ LiveClosed' /\ Unswept' /\ IdleWhite'
    BY <1>1, <1>2, <1>3, KindFacts, MutatorFrame DEF SetNil
  <1>5. Marking' /\ TriColor' /\ GrayListed'
    BY <1>2, ColorFrame DEF SetNil
  <1> QED BY <1>1, <1>4, <1>5 DEF IInv

LEMMA InternStep ==
  ASSUME IInv, NEW s \in Strings, Intern(s)
  PROVE  IInv'
  <1> USE DEF listvars, sweepvars, collector
  <1>1. /\ TypeOK /\ TypeOK' /\ s \in Obj /\ kind[s] = "string"
        /\ running \in Live /\ running \in Obj /\ kind[running] = "thread"
    BY TypeMutator DEF Mutator, IInv, KindsOK, LiveClosed, Roots, Strings, TypeOK
  <1>2. Edges'[running] = held[running] \cup {s} \cup Keys(running) \cup Values(running)
    BY <1>1, HeldFrame DEF Intern
  <1>3. /\ Edges'[running] = Edges[running] \cup {s}
        /\ \A x \in Obj \ {running} : Edges'[x] = Edges[x]
    BY <1>1, <1>2, HeldFrame DEF Intern, Edges
  <1>4. \A x \in Obj \ {s} : color'[x] = color[x]
    BY <1>1 DEF Intern, TypeOK
  <1>5. color'[s] \in {color[s], "white"} \ {"otherwhite"}
    BY <1>1 DEF Intern, TypeOK, isdead
  <1>6. Live' = Live \cup {s} /\ Dead' = Dead \ {s}
    BY <1>1, <1>4, <1>5 DEF Intern, Live, Dead, Allocated, isdead
  <1>7. KindsOK'
    <2>1. \A x \in Obj : /\ kind'[x] \in {"free", "string"} => Edges'[x] = {}
                         /\ kind'[x] # "table" => ents'[x] = {} /\ mode'[x] = {}
                         /\ kind'[x] = "udata" => color'[x] # "gray"
                         /\ kind'[x] \in {"thread", "string"} => color'[x] # "black"
      BY <1>1, <1>3, <1>4, <1>5, KindFacts DEF Intern
    <2>2. \A u \in Live' : kind'[u] = "udata" => \A p \in held'[u] : kind'[p] = "table"
      BY <1>1, <1>6, KindFacts DEF Intern, TypeOK, Live, Allocated
    <2>3. /\ kind'[Main] = "thread" /\ kind'[Registry] = "table"
          /\ kind'[running'] = "thread"
          /\ \A u \in tmudata' : kind'[u] = "udata"
      BY DEF KindsOK, IInv, Intern
    <2> QED BY <2>1, <2>2, <2>3 DEF KindsOK, isgray, isblack
  <1>8. LiveClosed'
    <2>1. ClosedUnder(Live)'
      BY <1>1, <1>3, <1>6, KindFacts DEF IInv, LiveClosed, ClosedUnder, Live, Allocated
    <2> QED BY <1>6, <2>1 DEF IInv, LiveClosed, Roots, Sweeping, Intern
  <1>9. Unswept' /\ IdleWhite'
    <2>1. \A o \in Obj : color[o] = "white" => color'[o] = "white"
      BY <1>4, <1>5
    <2>2. Idle => Dead = {}
      BY DEF IInv, LiveClosed, Idle, Sweeping
    <2> QED BY <1>1, <2>1, <2>2 DEF IInv, Unswept, IdleWhite, Idle, Sweeping, Allocated, Intern
  <1>10. CASE gcstate = "propagate"
    <2>1. color' = color
      BY <1>1, <1>10 DEF Intern, IInv, LiveClosed, Sweeping, Dead, Allocated, isdead, TypeOK
    <2>2. \A x \in Obj : isblack(x) => Edges'[x] \subseteq Edges[x]
      BY <1>1, <1>3, KindFacts DEF isblack
    <2> QED BY <1>1, <1>7, <1>8, <1>9, <2>1, <2>2, ColorFrame DEF Intern, IInv
  <1>11. CASE gcstate # "propagate"
    BY <1>1, <1>7, <1>8, <1>9, <1>11 DEF IInv, Intern, Marking, TriColor, GrayListed
  <1> QED BY <1>10, <1>11

\* luaC_barriert keeps the invariant whatever a live table comes to refer to.
LEMMA BarrierT ==
  ASSUME IInv, TypeOK', NEW t \in Live, kind[t] = "table", NEW S \in SUBSET Live,
         barriert(t, S),
         Edges'[t] \subseteq Edges[t] \cup S,
         \A x \in Obj \ {t} : /\ Edges'[x] = Edges[x]
                             /\ held'[x] = held[x] /\ ents'[x] = ents[x],
         UNCHANGED <<kind, mode, gctm, running, fin, gray, weak, collector>>
  PROVE  IInv'
  <1> USE DEF listvars, sweepvars, collector
  <1>1. /\ TypeOK /\ t \in Obj /\ running \in Live /\ kind[running] = "thread"
    BY DEF IInv, KindsOK, LiveClosed, Roots, Live, Allocated
  <1>2. \A x \in Obj \ {t} : color'[x] = color[x]
    BY <1>1 DEF barriert, TypeOK
  <1>3. /\ color'[t] = color[t] \/ (color[t] = "black" /\ color'[t] = "gray")
        /\ color'[t] = "black" => \A p \in S : ~iswhite(p)
    BY <1>1 DEF barriert, TypeOK, isblack
  <1>4. KindsOK' /\ LiveClosed' /\ Unswept' /\ IdleWhite'
    <2>1. \A x \in Obj :
           /\ Edges'[x] \subseteq Edges[x] \cup Live
           /\ kind[x] \in {"free", "string"} => Edges'[x] = {}
           /\ kind[x] # "table" => ents'[x] = {} /\ mode'[x] = {}
           /\ kind[x] = "udata" => held'[x] = held[x] /\ color'[x] # "gray"
           /\ kind[x] \in {"thread", "string"} => color'[x] # "black"
           /\ color'[x] = color[x] \/ color'[x] # "otherwhite"
           /\ color'[x] = color[x] \/ x \in Live
           /\ color'[x] = color[x] \/ (color[x] = "black" /\ kind[x] # "udata")
      BY <1>1, <1>2, <1>3, KindFacts
    <2> QED BY <1>1, <2>1, KindFacts, MutatorFrame
  <1>5. ASSUME gcstate = "propagate" PROVE Marking' /\ TriColor' /\ GrayListed'
    <2>1. \A x \in Obj : color'[x] \in Whites <=> color[x] \in Whites
      BY <1>2, <1>3 DEF Whites
    <2>2. Marking'
      BY <1>5, <2>1 DEF IInv, Marking, iswhite
    <2>3. TriColor'
      <3> SUFFICES ASSUME NEW o \in Allocated \ tmudata, color'[o] = "black",
                          NEW p \in Edges'[o]
                   PROVE  color'[p] \notin Whites
        BY DEF TriColor, Allocated, isblack, iswhite
      <3>1. color[o] = "black" /\ o \in Obj
        BY <1>2, <1>3 DEF Allocated
      <3>2. \A q \in Edges[o] : color[q] \notin Whites
        BY <1>5, <3>1 DEF IInv, TriColor, isblack, iswhite
      <3>3. p \in Edges[o] \/ (o = t /\ p \in S)
        BY <3>1
      <3>4. p \in Obj
        BY <1>1, <3>1, <3>3, EdgesType DEF Live, Allocated
      <3> QED BY <1>3, <2>1, <3>2, <3>3, <3>4 DEF iswhite
    <2>4. GrayListed'
      <3>1. CASE color'[t] = color[t]
        <4>1. color' = color /\ grayagain' = grayagain
          BY <1>1, <3>1 DEF barriert, TypeOK, isblack
        <4> QED BY <1>5, <4>1 DEF IInv, GrayListed, Allocated, Strings, isgray
      <3>2. CASE color[t] = "black" /\ color'[t] = "gray"
        BY <1>1, <1>2, <1>5, <3>2 DEF IInv, GrayListed, Allocated, Strings, isgray, barriert, TypeOK
      <3> QED BY <1>3, <3>1, <3>2
    <2> QED BY <2>2, <2>3, <2>4
  <1>6. gcstate # "propagate" => Marking' /\ TriColor' /\ GrayListed'
    BY DEF Marking, TriColor, GrayListed
  <1> QED BY <1>4, <1>5, <1>6 DEF IInv

LEMMA SetTableStep ==
  ASSUME IInv, NEW t \in Base, NEW k \in Hand \cup {NIL}, NEW v \in Hand \cup {NIL},
         SetTable(t, k, v)
  PROVE  IInv'
  <1> DEFINE new == (ents[t] \ {e \in ents[t] : e[1] = k /\ k # NIL}) \cup {<<k, v>>}
  <1>1. /\ TypeOK /\ TypeOK' /\ t \in Live /\ t \in Obj /\ kind[t] = "table"
        /\ {k, v} \ {NIL} \subseteq Live
    BY TypeMutator, HandLive, BaseType DEF Mutator, IInv, SetTable
  <1>2. ents' = [ents EXCEPT ![t] = new] /\ held' = held
    BY DEF SetTable
  <1>3. \A x \in Obj \ {t} : /\ Edges'[x] = Edges[x]
                            /\ held'[x] = held[x] /\ ents'[x] = ents[x]
    <2>1. \A x \in Obj \ {t} : Edges'[x] = Edges[x]
      BY <1>1, <1>2, EntsFrame
    <2> QED BY <1>1, <1>2, <2>1 DEF TypeOK
  <1>4. Edges'[t] \subseteq Edges[t] \cup ({k, v} \ {NIL})
    <2>1. Edges'[t] = held[t] \cup ({e[1] : e \in new} \ {NIL}) \cup ({e[2] : e \in new} \ {NIL})
      BY <1>1, <1>2, EntsFrame
    <2>2. {e[1] : e \in new} \subseteq {e[1] : e \in ents[t]} \cup {k}
      OBVIOUS
    <2>3. {e[2] : e \in new} \subseteq {e[2] : e \in ents[t]} \cup {v}
      OBVIOUS
    <2>4. Edges[t] = held[t] \cup ({e[1] : e \in ents[t]} \ {NIL}) \cup ({e[2] : e \in ents[t]} \ {NIL})
      BY <1>1 DEF Edges, Keys, Values
    <2> QED BY <2>1, <2>2, <2>3, <2>4
  <1> HIDE DEF new
  <1> QED BY <1>1, <1>3, <1>4, BarrierT DEF SetTable

LEMMA SetMetatableStep ==
  ASSUME IInv, NEW t \in Base, NEW v \in Hand, SetMetatable(t, v)
  PROVE  IInv'
  <1>1. /\ TypeOK /\ TypeOK' /\ t \in Live /\ t \in Obj /\ kind[t] = "table"
        /\ {v} \subseteq Live
    BY TypeMutator, HandLive, BaseType DEF Mutator, IInv, SetMetatable
  <1>2. Edges'[t] \subseteq Edges[t] \cup {v} /\ \A x \in Obj \ {t} : Edges'[x] = Edges[x]
    <2>1. /\ Edges'[t] = {v} \cup Keys(t) \cup Values(t)
          /\ \A x \in Obj \ {t} : Edges'[x] = Edges[x]
      BY <1>1, HeldFrame DEF SetMetatable
    <2> QED BY <1>1, <2>1 DEF Edges
  <1>3. \A x \in Obj \ {t} : held'[x] = held[x] /\ ents'[x] = ents[x]
    BY <1>1 DEF SetMetatable, TypeOK
  <1> QED BY <1>1, <1>2, <1>3, BarrierT DEF SetMetatable

-----------------------------------------------------------------------------
(* Marking.                                                                *)

\* reallymarkobject leaves no reference to a white object behind in what it
\* blackens, that is, in a userdata.
LEMMA NewlyFacts ==
  ASSUME IInv, NEW S \in SUBSET Live
  PROVE  /\ Newly(S) \subseteq Live
         /\ \A p \in Newly(S) : color[p] = "white"
         /\ \A p \in S : iswhite(p) => p \in Newly(S)
         /\ \A u \in Newly(S) : kind[u] = "udata" =>
              \A p \in Edges[u] : iswhite(p) => p \in Newly(S)
  <1>1. \A u \in Live : /\ held[u] \subseteq Live
                        /\ kind[u] = "udata" => Edges[u] = held[u]
    BY KindFacts DEF IInv, LiveClosed, ClosedUnder, Edges, Keys, Values, Live, Allocated
  <1>2. Newly(S) \subseteq Live
    BY <1>1 DEF Newly
  <1>3. \A p \in Newly(S) : iswhite(p)
    BY DEF Newly
  <1>4. \A p \in Newly(S) : color[p] = "white"
    BY <1>2, <1>3 DEF iswhite, Whites, Live, isdead
  <1>5. \A p \in S : iswhite(p) => p \in Newly(S)
    BY DEF Newly
  <1>6. ASSUME NEW u \in Newly(S), kind[u] = "udata", NEW p \in Edges[u], iswhite(p)
        PROVE  p \in Newly(S)
    <2>1. u \in S /\ iswhite(u)
      BY <1>6, KindFacts DEF Newly, Live, Allocated
    <2> QED BY <1>1, <1>6, <2>1 DEF Newly
  <1> QED BY <1>2, <1>4, <1>5, <1>6

LEMMA SetRefStep ==
  ASSUME IInv, NEW o \in Hand, NEW v \in Hand, NEW r \in held[o] \cup {NIL},
         SetRef(o, r, v)
  PROVE  IInv'
  <1> USE DEF listvars, sweepvars, collector
  <1> DEFINE N == Newly({v})
  <1>1. /\ TypeOK /\ TypeOK' /\ o \in Live /\ v \in Live /\ o \in Obj /\ v \in Obj
        /\ running \in Live /\ kind[running] = "thread"
    BY TypeMutator, HandLive, BaseType DEF Mutator, IInv, KindsOK, LiveClosed, Roots
  <1>2. /\ kind[o] \in {"closure", "udata"} /\ (kind[o] = "udata" => kind[v] = "table")
        /\ held' = [held EXCEPT ![o] = (@ \ {r}) \cup {v}]
        /\ barrier(o, v)
        /\ UNCHANGED <<kind, ents, mode, gctm, running, fin, grayagain, weak, collector>>
    BY DEF SetRef
  <1>3. Edges'[o] \subseteq Edges[o] \cup {v} /\ \A x \in Obj \ {o} : Edges'[x] = Edges[x]
    <2>1. /\ Edges'[o] = ((held[o] \ {r}) \cup {v}) \cup Keys(o) \cup Values(o)
          /\ \A x \in Obj \ {o} : Edges'[x] = Edges[x]
      BY <1>1, <1>2, HeldFrame
    <2> QED BY <1>1, <2>1 DEF Edges
  <1>4. \A x \in Obj :
           /\ Edges'[x] \subseteq Edges[x] \cup Live
           /\ kind[x] \in {"free", "string"} => Edges'[x] = {}
           /\ x # o => held'[x] = held[x]
           /\ kind[x] = "udata" /\ x \in Live => \A p \in held'[x] : kind[p] = "table"
    BY <1>1, <1>2, <1>3, KindFacts DEF TypeOK
  <1>a. /\ N \subseteq Live /\ \A p \in N : color[p] = "white"
        /\ iswhite(v) => v \in N
        /\ \A u \in N : kind[u] = "udata" => \A p \in Edges[u] : iswhite(p) => p \in N
    BY <1>1, NewlyFacts
  <1> HIDE DEF N
  <1>5. CASE isblack(o) /\ iswhite(v) /\ gcstate = "propagate"
    <2>1. /\ color' = [x \in Obj |-> IF x \in N THEN MarkColor(x) ELSE color[x]]
          /\ gray' = gray \cup Visited(N)
      BY <1>2, <1>5 DEF barrier, markobjects, N
    <2>2. \A x \in Obj : IF x \in N THEN color'[x] = IF kind[x] = "udata" THEN "black" ELSE "gray"
                                   ELSE color'[x] = color[x]
      BY <2>1 DEF MarkColor
    <2>3. KindsOK' /\ LiveClosed' /\ Unswept' /\ IdleWhite'
      BY <1>1, <1>2, <1>4, <1>5, <1>a, <2>2, KindFacts, MutatorFrame
    <2>4. Marking'
      BY <1>2, <1>5, <2>2, ObjAssumption DEF IInv, Marking, iswhite, Whites
    <2>5. TriColor'
      <3> SUFFICES ASSUME NEW b \in Allocated \ tmudata, color'[b] = "black",
                          NEW p \in Edges'[b]
                   PROVE  color'[p] \notin Whites
        BY <1>2 DEF TriColor, Allocated, isblack, iswhite
      <3>1. b \in Obj /\ p \in Obj
        BY <1>1, <1>3, EdgesType DEF Allocated
      <3>2. CASE b \in N
        BY <1>3, <1>5, <1>a, <2>2, <3>1, <3>2 DEF isblack, iswhite, Whites
      <3>3. CASE b \notin N
        <4>1. \A q \in Edges[b] : color[q] \notin Whites
          BY <1>5, <2>2, <3>1, <3>3 DEF IInv, TriColor, isblack, iswhite
        <4>2. p \in Edges[b] \/ p \in N
          BY <1>3, <1>5, <1>a, <3>1
        <4> QED BY <2>2, <3>1, <4>1, <4>2 DEF Whites
      <3> QED BY <3>2, <3>3
    <2>6. GrayListed'
      <3>1. gray \cup grayagain \cup weak = {x \in Allocated : color[x] = "gray"} \ Strings
        BY <1>5 DEF IInv, GrayListed, isgray
      <3>2. Visited(N) = {x \in N : kind[x] \notin {"udata", "string"}}
        BY <1>1, <1>a DEF Visited, Live, Allocated, TypeOK, Kinds
      <3>3. {x \in Allocated : color'[x] = "gray"} =
              {x \in Allocated : color[x] = "gray"} \cup {x \in N : kind[x] # "udata"}
        BY <1>a, <2>2 DEF Live, Allocated
      <3>4. {x \in Allocated : color'[x] = "gray"} \ Strings =
              gray \cup grayagain \cup weak \cup Visited(N)
        BY <1>a, <3>1, <3>2, <3>3 DEF Strings, Live, Allocated
      <3>5. Visited(N) \cap (gray \cup grayagain \cup weak) = {}
        BY <1>a, <3>1, <3>2
      <3> QED BY <1>2, <1>5, <2>1, <3>4, <3>5 DEF IInv, GrayListed, Allocated, Strings, isgray
    <2> QED BY <1>1, <2>3, <2>4, <2>5, <2>6 DEF IInv
  <1>6. CASE isblack(o) /\ iswhite(v) /\ gcstate # "propagate"
    <2>1. /\ color'[o] = "white" /\ \A x \in Obj \ {o} : color'[x] = color[x]
      BY <1>1, <1>2, <1>6 DEF barrier, TypeOK
    <2>2. KindsOK' /\ LiveClosed' /\ Unswept' /\ IdleWhite'
      BY <1>1, <1>2, <1>4, <2>1, KindFacts, MutatorFrame
    <2> QED BY <1>1, <1>2, <1>6, <2>2 DEF IInv, Marking, TriColor, GrayListed
  <1>7. CASE ~(isblack(o) /\ iswhite(v))
    <2>1. color' = color /\ gray' = gray
      BY <1>2, <1>7 DEF barrier
    <2>2. KindsOK' /\ LiveClosed' /\ Unswept' /\ IdleWhite'
      BY <1>1, <1>2, <1>4, <2>1, KindFacts, MutatorFrame
    <2>3. Marking' /\ GrayListed'
      BY <1>2, <2>1 DEF IInv, Marking, GrayListed, iswhite, Allocated, Strings, isgray
    <2>4. TriColor'
      BY <1>2, <1>3, <1>7, <2>1 DEF IInv, TriColor, Allocated, isblack, iswhite
    <2> QED BY <1>1, <2>2, <2>3, <2>4 DEF IInv
  <1> QED BY <1>5, <1>6, <1>7

LEMMA PropagateStep ==
  ASSUME IInv, NEW o \in gray, Propagate(o)
  PROVE  IInv'
  <1> USE DEF listvars, sweepvars, mutatorvars
  <1> DEFINE N == Newly(Strong[o])
             stays == kind[o] = "thread" \/ mode[o] # {}
  <1>1. /\ TypeOK /\ TypeOK' /\ gcstate = "propagate"
        /\ running \in Live /\ kind[running] = "thread"
    BY TypeCollector DEF Collector, singlestep, IInv, KindsOK, LiveClosed, Roots, Propagate
  <1>2. /\ gray \cup grayagain \cup weak = {x \in Allocated : color[x] = "gray"} \ Strings
        /\ gray \cap grayagain = {} /\ gray \cap weak = {} /\ grayagain \cap weak = {}
    BY <1>1 DEF IInv, GrayListed, isgray
  <1>3. /\ o \in Obj /\ o \in Live /\ color[o] = "gray"
        /\ kind[o] \in {"table", "closure", "thread"}
    BY <1>2, KindFacts DEF Allocated, Live, isdead, Strings, IInv, TypeOK, Kinds
  <1>4. Strong[o] \subseteq Edges[o] /\ Edges[o] \subseteq Live
    BY <1>1, <1>3, EdgesType DEF IInv, LiveClosed, ClosedUnder
  <1>a. /\ N \subseteq Live /\ \A p \in N : color[p] = "white"
        /\ \A p \in Strong[o] : iswhite(p) => p \in N
        /\ \A u \in N : kind[u] = "udata" => \A p \in Edges[u] : iswhite(p) => p \in N
    BY <1>4, NewlyFacts
  <1> HIDE DEF N
  <1>5. /\ color' = [p \in Obj |-> IF p \in N THEN MarkColor(p)
                                   ELSE IF p = o /\ ~stays THEN "black" ELSE color[p]]
        /\ gray' = (gray \ {o}) \cup Visited(N)
        /\ grayagain' = grayagain \cup {p \in {o} : kind[p] = "thread"}
        /\ weak' = weak \cup {p \in {o} : mode[p] # {}}
        /\ UNCHANGED <<kind, held, ents, mode, gctm, running, fin, gcstate, sweepvars, full>>
    BY DEF Propagate, N
  <1>6. \A x \in Obj :
           /\ x \in N => color'[x] = IF kind[x] = "udata" THEN "black" ELSE "gray"
           /\ x \notin N /\ x # o => color'[x] = color[x]
           /\ x = o => x \notin N /\ color'[x] = IF stays THEN "gray" ELSE "black"
    BY <1>3, <1>5, <1>a DEF MarkColor
  <1>7. Edges' = Edges
    BY <1>5, EdgesFrame DEF Edges
  <1>8. KindsOK' /\ LiveClosed' /\ Unswept' /\ IdleWhite'
    <2>1. \A x \in Obj :
           /\ kind[x] = "udata" => color'[x] # "gray"
           /\ kind[x] \in {"thread", "string"} => color'[x] # "black"
           /\ color'[x] = color[x] \/ color'[x] # "otherwhite"
           /\ color'[x] = color[x] \/ x \in Live
      BY <1>3, <1>6, <1>a, KindFacts
    <2> HIDE DEF stays
    <2> QED BY <1>1, <1>5, <1>7, <2>1, KindFacts, MutatorFrame
  <1>9. Marking'
    BY <1>1, <1>3, <1>5, <1>6, ObjAssumption DEF IInv, Marking, iswhite, Whites
  <1>10. TriColor'
    <2> SUFFICES ASSUME NEW b \in Allocated \ tmudata, color'[b] = "black",
                        NEW p \in Edges[b]
                 PROVE  color'[p] \notin Whites
      BY <1>5, <1>7 DEF TriColor, Allocated, isblack, iswhite
    <2>1. b \in Obj /\ p \in Obj
      BY <1>1, EdgesType DEF Allocated
    <2>2. iswhite(p) => p \in N
      <3>1. CASE b \in N
        BY <1>6, <1>a, <2>1, <3>1
      <3>2. CASE b = o
        <4>1. ~stays
          BY <1>6, <2>1, <3>2
        <4>2. Strong[o] = Edges[o]
          BY <1>1, <1>3, <4>1 DEF Strong, Edges
        <4> QED BY <1>a, <3>2, <4>2
      <3>3. CASE b # o /\ b \notin N
        BY <1>1, <1>6, <2>1, <3>3 DEF IInv, TriColor, isblack
      <3> QED BY <3>1, <3>2, <3>3
    <2> QED BY <1>6, <2>1, <2>2 DEF iswhite, Whites
  <1>11. GrayListed'
    <2>1. Visited(N) = {x \in N : kind[x] \notin {"udata", "string"}}
      BY <1>1, <1>a DEF Visited, Live, Allocated, TypeOK, Kinds
    <2>2. Visited(N) \cap (gray \cup grayagain \cup weak) = {}
      BY <1>a, <1>2, <2>1
    <2>3. /\ {p \in {o} : kind[p] = "thread"} = IF kind[o] = "thread" THEN {o} ELSE {}
          /\ {p \in {o} : mode[p] # {}} = IF mode[o] # {} THEN {o} ELSE {}
          /\ ~(kind[o] = "thread" /\ mode[o] # {})
      BY <1>3, KindFacts
    <2>4. {x \in Allocated : color'[x] = "gray"} \ Strings =
            ((gray \cup grayagain \cup weak) \ {o}) \cup Visited(N) \cup (IF stays THEN {o} ELSE {})
      <3>1. ASSUME NEW x \in Obj
            PROVE  x \in Allocated \ Strings /\ color'[x] = "gray" <=>
                     x \in ((gray \cup grayagain \cup weak) \ {o}) \cup Visited(N) \cup (IF stays THEN {o} ELSE {})
        BY <1>2, <1>3, <1>6, <1>a, <2>1 DEF Strings, Live, Allocated
      <3>2. ((gray \cup grayagain \cup weak) \ {o}) \cup Visited(N) \cup (IF stays THEN {o} ELSE {}) \subseteq Obj
        BY <1>2, <1>3, <1>a, <2>1 DEF Live, Allocated
      <3> QED BY <3>1, <3>2 DEF Allocated
    <2>5. gray' \cup grayagain' \cup weak' =
            ((gray \cup grayagain \cup weak) \ {o}) \cup Visited(N) \cup (IF stays THEN {o} ELSE {})
      BY <1>2, <1>5, <2>3
    <2>6. gray' \cap grayagain' = {} /\ gray' \cap weak' = {} /\ grayagain' \cap weak' = {}
      BY <1>2, <1>5, <2>2, <2>3, <1>3, <1>a
    <2> QED BY <1>5, <2>4, <2>5, <2>6 DEF GrayListed, Allocated, Strings, isgray
  <1> QED BY <1>1, <1>8, <1>9, <1>10, <1>11 DEF IInv

\* A cycle that starts between two cycles.
LEMMA MarkrootStep ==
  ASSUME IInv, TypeOK', Idle, markroot, UNCHANGED <<mutatorvars, fin, sweepvars>>
  PROVE  IInv'
  <1> USE DEF sweepvars, mutatorvars
  <1> DEFINE N == Newly({Main, Registry})
  <1>1. /\ TypeOK /\ {Main, Registry} \subseteq Live /\ {Main, Registry} \subseteq Obj
        /\ \A x \in Allocated \ tmudata : color[x] = "white"
        /\ {Main, Registry} \cap tmudata = {}
    BY ObjAssumption DEF IInv, LiveClosed, Roots, IdleWhite, KindsOK
  <1>a. /\ N \subseteq Live /\ \A p \in N : color[p] = "white"
        /\ \A p \in {Main, Registry} : iswhite(p) => p \in N
        /\ \A u \in N : kind[u] = "udata" => \A p \in Edges[u] : iswhite(p) => p \in N
    BY <1>1, NewlyFacts
  <1>2. {Main, Registry} \subseteq N
    BY <1>1, <1>a DEF iswhite, Whites, Live
  <1> HIDE DEF N
  <1>3. /\ color' = [x \in Obj |-> IF x \in N THEN MarkColor(x) ELSE color[x]]
        /\ gray' = Visited(N) /\ grayagain' = {} /\ weak' = {} /\ gcstate' = "propagate"
    BY DEF markroot, markobjects, N
  <1>4. \A x \in Obj :
           /\ x \in N => color'[x] = IF kind[x] = "udata" THEN "black" ELSE "gray"
           /\ x \notin N => color'[x] = color[x]
    BY <1>3 DEF MarkColor
  <1>5. Edges' = Edges
    BY EdgesFrame DEF Edges
  <1>6. Live' = Live /\ Dead' = {} /\ Dead = {}
    BY <1>3, <1>4, <1>a DEF IInv, LiveClosed, Idle, Sweeping, Live, Dead, Allocated, isdead
  <1>7. KindsOK'
    <2>1. \A x \in Obj : /\ kind[x] = "udata" => color'[x] # "gray"
                         /\ kind[x] \in {"thread", "string"} => color'[x] # "black"
      BY <1>4, KindFacts
    <2> QED BY <1>5, <1>6, <2>1 DEF IInv, KindsOK, isgray, isblack
  <1>8. LiveClosed' /\ Unswept' /\ IdleWhite'
    BY <1>3, <1>5, <1>6 DEF IInv, LiveClosed, ClosedUnder, Roots, Unswept, IdleWhite, Idle, Sweeping
  <1>9. Marking'
    BY <1>1, <1>2, <1>4 DEF Marking, iswhite, Whites
  <1>10. TriColor'
    <2> SUFFICES ASSUME NEW b \in Allocated \ tmudata, color'[b] = "black",
                        NEW p \in Edges[b]
                 PROVE  color'[p] \notin Whites
      BY <1>5 DEF TriColor, Allocated, isblack, iswhite
    <2>1. b \in N /\ kind[b] = "udata" /\ b \in Obj /\ p \in Obj
      BY <1>1, <1>4, EdgesType DEF Allocated
    <2> QED BY <1>4, <1>a, <2>1 DEF iswhite, Whites
  <1>11. GrayListed'
    <2>1. Visited(N) = {x \in N : kind[x] \notin {"udata", "string"}}
      BY <1>1, <1>a DEF Visited, Live, Allocated, TypeOK, Kinds
    <2>2. \A x \in Allocated : color'[x] = "gray" <=> x \in N /\ kind[x] # "udata"
      BY <1>1, <1>4, <1>a, KindFacts DEF Allocated, IInv, KindsOK
    <2>3. {x \in Allocated : color'[x] = "gray"} \ Strings = Visited(N)
      BY <1>a, <2>1, <2>2 DEF Strings, Live, Allocated
    <2> QED BY <1>3, <2>3 DEF GrayListed, Allocated, Strings, isgray
  <1> QED BY <1>7, <1>8, <1>9, <1>10, <1>11 DEF IInv

-----------------------------------------------------------------------------
(* Sweeping and finalizing.                                                *)

LEMMA SweepStep ==
  ASSUME IInv, TypeOK', Sweeping, NEW o \in Obj, sweep(o),
         UNCHANGED <<running, gcstate, tmudata>>,
         sweepgc \ {o} \subseteq sweepgc', sweepstr \ {o} \subseteq sweepstr'
  PROVE  IInv'
  <1> USE DEF heapvars
  <1>1. TypeOK /\ color'[o] = "white" /\ \A x \in Obj \ {o} : color'[x] = color[x]
    BY DEF sweep, IInv, TypeOK
  <1>2. \A x \in Obj \ {o} : /\ kind'[x] = kind[x] /\ held'[x] = held[x]
                            /\ ents'[x] = ents[x] /\ mode'[x] = mode[x]
                            /\ gctm'[x] = gctm[x] /\ fin'[x] = fin[x]
    BY <1>1 DEF sweep, TypeOK
  <1>3. \A x \in Obj \ {o} : Edges'[x] = Edges[x]
    BY <1>2 DEF Edges, Keys, Values
  <1>4. CASE isdead(o)
    <2>1. kind'[o] = "free" /\ held'[o] = {} /\ ents'[o] = {} /\ mode'[o] = {}
      BY <1>1, <1>4 DEF sweep, TypeOK
    <2>2. Edges'[o] = {}
      BY <2>1 DEF Edges, Keys, Values
    <2>3. Live' = Live /\ o \notin Live /\ Dead' \subseteq Dead \ {o}
      BY <1>1, <1>2, <1>4, <2>1 DEF Live, Dead, Allocated, isdead
    <2>4. KindsOK'
      <3>1. \A x \in Obj :
              /\ kind'[x] \in {"free", "string"} => Edges'[x] = {}
              /\ kind'[x] # "table" => ents'[x] = {} /\ mode'[x] = {}
              /\ kind'[x] = "udata" => color'[x] # "gray"
              /\ kind'[x] \in {"thread", "string"} => color'[x] # "black"
        BY <1>1, <1>2, <1>3, <2>1, <2>2, KindFacts
      <3>2. \A u \in Live' : kind'[u] = "udata" => \A p \in held'[u] : kind'[p] = "table"
        <4> SUFFICES ASSUME NEW u \in Live, kind[u] = "udata", NEW p \in held[u]
                     PROVE  kind'[p] = "table"
          BY <1>2, <2>3 DEF Live, Allocated
        <4>1. kind[p] = "table" /\ p \in Live
          BY <1>1, KindFacts, EdgesType DEF IInv, LiveClosed, ClosedUnder, Live, Allocated
        <4> QED BY <1>2, <2>3, <4>1 DEF Live, Allocated
      <3>3. /\ kind'[Main] = "thread" /\ kind'[Registry] = "table"
            /\ kind'[running'] = "thread"
            /\ \A u \in tmudata' : kind'[u] = "udata"
        BY <1>1, <1>2, <2>3, ObjAssumption DEF IInv, KindsOK, LiveClosed, Roots, TypeOK
      <3> QED BY <3>1, <3>2, <3>3 DEF KindsOK, isgray, isblack
    <2>5. LiveClosed'
      <3>1. ClosedUnder(Live)'
        BY <1>3, <2>3 DEF IInv, LiveClosed, ClosedUnder, Live, Allocated
      <3>2. \A u \in Dead' : kind'[u] = "udata" /\ gctm'[u] => fin'[u]
        BY <1>2, <2>3 DEF IInv, LiveClosed, Dead, Allocated
      <3> QED BY <2>3, <3>1, <3>2 DEF IInv, LiveClosed, Roots, Sweeping
    <2>6. Unswept'
      BY <1>1, <1>2 DEF IInv, Unswept, Sweeping, Allocated
    <2> QED BY <2>4, <2>5, <2>6 DEF IInv, Sweeping, Idle, IdleWhite, Marking, TriColor, GrayListed
  <1>5. CASE ~isdead(o)
    <2>1. UNCHANGED <<kind, held, ents, mode, gctm, fin>>
      BY <1>5 DEF sweep
    <2>2. Edges' = Edges
      BY <2>1, EdgesFrame DEF Edges
    <2>3. Live' = Live /\ Dead' = Dead
      BY <1>1, <1>5, <2>1 DEF Live, Dead, Allocated, isdead
    <2>4. KindsOK'
      BY <1>1, <2>1, <2>2, <2>3 DEF IInv, KindsOK, isgray, isblack
    <2>5. LiveClosed'
      BY <2>1, <2>2, <2>3 DEF IInv, LiveClosed, ClosedUnder, Roots, Sweeping
    <2>6. Unswept'
      BY <1>1, <2>1 DEF IInv, Unswept, Sweeping, Allocated
    <2> QED BY <2>4, <2>5, <2>6 DEF IInv, Sweeping, Idle, IdleWhite, Marking, TriColor, GrayListed
  <1> QED BY <1>4, <1>5

LEMMA SweepActions ==
  ASSUME IInv
  PROVE  /\ \A s \in sweepstr : SweepString(s) => IInv'
         /\ \A o \in sweepgc : Sweep(o) => IInv'
  <1>1. ASSUME NEW s \in sweepstr, SweepString(s) PROVE IInv'
    <2>1. TypeOK' /\ s \in Obj
      BY <1>1, TypeCollector DEF IInv, TypeOK, Collector, singlestep
    <2> QED BY <1>1, <2>1, SweepStep DEF SweepString, Sweeping
  <1>2. ASSUME NEW o \in sweepgc, Sweep(o) PROVE IInv'
    <2>1. TypeOK' /\ o \in Obj
      BY <1>2, TypeCollector DEF IInv, TypeOK, Collector, singlestep
    <2> QED BY <1>2, <2>1, SweepStep DEF Sweep, Sweeping
  <1> QED BY <1>1, <1>2

\* Steps that only move on to the next phase.
LEMMA PhaseFrame ==
  ASSUME IInv, UNCHANGED <<mutatorvars, color, fin, tmudata>>
  PROVE  /\ KindsOK' /\ Live' = Live /\ Dead' = Dead /\ Edges' = Edges
         /\ ClosedUnder(Live)' /\ Roots' \subseteq Live'
         /\ \A u \in Dead' : kind'[u] = "udata" /\ gctm'[u] => fin'[u]
  <1> USE DEF mutatorvars
  <1>1. Edges' = Edges
    BY EdgesFrame DEF Edges
  <1>2. Live' = Live /\ Dead' = Dead
    BY DEF Live, Dead, Allocated, isdead
  <1>3. KindsOK'
    BY <1>1, <1>2 DEF IInv, KindsOK, isgray, isblack
  <1> QED BY <1>1, <1>2, <1>3 DEF IInv, LiveClosed, ClosedUnder, Roots

LEMMA PhaseActions ==
  ASSUME IInv
  PROVE  /\ EndSweepString => IInv'
         /\ EndSweep => IInv'
         /\ EndCycle => IInv'
         /\ FullGC => IInv'
  <1> USE DEF sweepvars, listvars
  <1>1. ASSUME EndSweepString PROVE IInv'
    <2>1. TypeOK'
      BY <1>1, TypeCollector DEF IInv, Collector, singlestep
    <2>2. Unswept'
      BY <1>1 DEF EndSweepString, mutatorvars, IInv, Unswept, Sweeping, Allocated
    <2> QED BY <1>1, <2>1, <2>2, PhaseFrame
        DEF EndSweepString, IInv, LiveClosed, Sweeping, Idle, IdleWhite, Marking, TriColor, GrayListed
  <1>2. ASSUME EndSweep PROVE IInv'
    <2>1. TypeOK'
      BY <1>2, TypeCollector DEF IInv, Collector, singlestep
    <2>2. \A x \in Allocated \ tmudata : color[x] = "white"
      BY <1>2 DEF EndSweep, IInv, Unswept, Sweeping
    <2>3. Dead = {} /\ IdleWhite'
      BY <1>2, <2>2 DEF EndSweep, mutatorvars, IInv, LiveClosed, Roots, Live, Dead, IdleWhite, Allocated, isdead
    <2> QED BY <1>2, <2>1, <2>3, PhaseFrame
        DEF EndSweep, IInv, LiveClosed, Unswept, Sweeping, Marking, TriColor, GrayListed
  <1>3. ASSUME EndCycle PROVE IInv'
    <2>1. TypeOK'
      BY <1>3, TypeCollector DEF IInv, Collector, singlestep
    <2>2. IdleWhite'
      BY <1>3 DEF EndCycle, mutatorvars, IInv, IdleWhite, Idle, Allocated
    <2> QED BY <1>3, <2>1, <2>2, PhaseFrame
        DEF EndCycle, IInv, LiveClosed, Unswept, Sweeping, Marking, TriColor, GrayListed
  <1>4. ASSUME FullGC PROVE IInv'
    <2>1. TypeOK'
      BY <1>4, TypeCollector DEF IInv
    <2>2. CASE gcstate \in {"pause", "propagate"}
      <3>1. Unswept'
        BY <1>4, <2>2 DEF FullGC, mutatorvars, Unswept, Allocated, Strings
      <3> QED BY <1>4, <2>1, <2>2, <3>1, PhaseFrame
          DEF FullGC, IInv, LiveClosed, Sweeping, Idle, IdleWhite, Marking, TriColor, GrayListed
    <2>3. CASE gcstate \notin {"pause", "propagate"}
      <3>1. Unswept' /\ IdleWhite'
        BY <1>4, <2>3 DEF FullGC, mutatorvars, IInv, Unswept, IdleWhite, Idle, Sweeping, Allocated
      <3> QED BY <1>4, <2>1, <2>3, <3>1, PhaseFrame
          DEF FullGC, IInv, LiveClosed, Sweeping, Marking, TriColor, GrayListed
    <2> QED BY <2>2, <2>3
  <1> QED BY <1>1, <1>2, <1>3, <1>4

LEMMA GCTMStep ==
  ASSUME IInv, NEW u \in tmudata, GCTM(u)
  PROVE  IInv'
  <1> USE DEF listvars
  <1> DEFINE S == IF gctm[u] THEN held[running] \cup {u} ELSE held[running]
  <1>1. /\ TypeOK /\ TypeOK' /\ u \in Live /\ u \in Obj /\ kind[u] = "udata"
        /\ running \in Obj /\ kind[running] = "thread" /\ ents[running] = {}
    BY TypeCollector, KindFacts DEF IInv, TypeOK, KindsOK, LiveClosed, Roots, Collector, singlestep
  <1>2. /\ held' = [held EXCEPT ![running] = S]
        /\ UNCHANGED <<kind, ents, mode, gctm, running, fin, gcstate>>
        /\ gcstate = "finalize" /\ tmudata' = tmudata \ {u}
    BY DEF GCTM
  <1>3. color'[u] = "white" /\ \A x \in Obj \ {u} : color'[x] = color[x]
    BY <1>1 DEF GCTM, TypeOK
  <1>4. /\ Edges'[running] = S /\ Edges[running] = held[running]
        /\ \A x \in Obj \ {running} : Edges'[x] = Edges[x]
    <2>1. Keys(running) = {} /\ Values(running) = {}
      BY <1>1 DEF Keys, Values
    <2>2. /\ Edges'[running] = S \cup Keys(running) \cup Values(running)
          /\ \A x \in Obj \ {running} : Edges'[x] = Edges[x]
      <3> HIDE DEF S
      <3> QED BY <1>1, <1>2, HeldFrame
    <2> QED BY <1>1, <2>1, <2>2 DEF Edges
  <1>5. Live' = Live /\ Dead' = Dead /\ Dead = {}
    BY <1>1, <1>2, <1>3 DEF IInv, LiveClosed, Sweeping, Live, Dead, Allocated, isdead
  <1>6. KindsOK'
    <2>1. \A x \in Obj :
            /\ kind'[x] \in {"free", "string"} => Edges'[x] = {}
            /\ kind'[x] # "table" => ents'[x] = {} /\ mode'[x] = {}
            /\ kind'[x] = "udata" => color'[x] # "gray" /\ held'[x] = held[x]
            /\ kind'[x] \in {"thread", "string"} => color'[x] # "black"
      BY <1>1, <1>2, <1>3, <1>4, KindFacts DEF TypeOK
    <2>2. \A x \in Live' : kind'[x] = "udata" => \A p \in held'[x] : kind'[p] = "table"
      BY <1>2, <1>5, <2>1, KindFacts DEF Live, Allocated
    <2> QED BY <1>2, <2>1, <2>2 DEF IInv, KindsOK, isgray, isblack
  <1>7. LiveClosed'
    <2>1. ClosedUnder(Live)'
      BY <1>1, <1>4, <1>5 DEF IInv, LiveClosed, ClosedUnder, Live, Allocated
    <2> QED BY <1>2, <1>5, <2>1 DEF IInv, LiveClosed, Roots
  <1>8. Unswept' /\ IdleWhite'
    BY <1>1, <1>2, <1>3 DEF IInv, Unswept, IdleWhite, Idle, Sweeping, Allocated
  <1> QED BY <1>1, <1>2, <1>6, <1>7, <1>8 DEF IInv, Marking, TriColor, GrayListed

-----------------------------------------------------------------------------
(* The atomic step.                                                        *)

\* propagateall marks what it starts from and leaves no strong reference to a
\* white object behind; starting from more, it marks no less.
LEMMA PropagateAll ==
  ASSUME NEW S
  PROVE  /\ \A p \in propagateall(S) : p \in Obj /\ iswhite(p)
         /\ \A p \in S \cap Obj : iswhite(p) => p \in propagateall(S)
         /\ \A q \in propagateall(S) : \A p \in Strong[q] \cap Obj :
              iswhite(p) => p \in propagateall(S)
         /\ \A R \in SUBSET S : propagateall(R) \subseteq propagateall(S)
  <1>1. \A p \in propagateall(S) : p \in Obj /\ iswhite(p)
    BY DEF propagateall
  <1>2. \A p \in S \cap Obj : iswhite(p) => p \in propagateall(S)
    BY DEF propagateall, Closed
  <1>3. ASSUME NEW q \in propagateall(S), NEW p \in Strong[q] \cap Obj, iswhite(p)
        PROVE  p \in propagateall(S)
    BY <1>3 DEF propagateall, Closed
  <1>4. ASSUME NEW R \in SUBSET S PROVE propagateall(R) \subseteq propagateall(S)
    BY DEF propagateall, Closed
  <1> QED BY <1>1, <1>2, <1>3, <1>4

\* What cleartable leaves in an array part has no key and a value that is not weak.
LEMMA SparedFacts ==
  ASSUME NEW W, NEW M, NEW F, NEW t, NEW e, <<t, e>> \in Spared(W, M, F)
  PROVE  e \in ents[t] /\ e[1] = NIL /\ "v" \notin mode[t]
  <1>1. PICK u \in W :
          <<t, e>> \in {u} \X {x \in ents[u] \ cleartable(u, M, F) : x[1] = NIL /\ "v" \notin mode[u]}
    BY DEF Spared
  <1>2. t = u /\ e \in {x \in ents[u] \ cleartable(u, M, F) : x[1] = NIL /\ "v" \notin mode[u]}
    BY <1>1
  <1> QED BY <1>2

LEMMA AtomicStep ==
  ASSUME IInv, Atomic
  PROVE  IInv'
  <1> DEFINE reached   == propagateall(Again)
             unreached == separateudata(reached)
             pending   == tmudata \cup {u \in unreached : gctm[u]}
             preserved == propagateall(Again \cup marktmu(pending))
             visited   == preserved \cup Revisited
             weaks     == {t \in visited : kind[t] = "table" /\ mode[t] # {}}
             marked    == {o \in Allocated : ~iswhite(o)} \cup preserved
             finalized == {u \in Obj : fin[u]} \cup unreached
             kept      == KeptStrings(weaks, marked, finalized)
  <1>1. PICK array \in SUBSET Spared(weaks, marked, finalized) :
        /\ gcstate = "propagate"
        /\ color' = [o \in Obj |->
                       IF kind[o] = "free" THEN color[o]
                       ELSE AtomicColor(o, visited, weaks, kept, pending)]
        /\ fin' = [o \in Obj |-> o \in finalized]
        /\ ents' = [t \in Obj |-> IF t \in weaks
                                  THEN cleartable(t, marked, finalized)
                                         \cup {e \in ents[t] : <<t, e>> \in array}
                                  ELSE ents[t]]
        /\ tmudata' = pending
        /\ sweepstr' = Strings
        /\ sweepgc' = Allocated \ (Strings \cup pending)
        /\ gcstate' = "sweepstring"
        /\ UNCHANGED <<kind, held, mode, gctm, running>>
    BY DEF Atomic
  <1>2. /\ TypeOK /\ TypeOK' /\ Dead = {} /\ Live = Allocated
        /\ \A x \in Allocated : color[x] # "otherwhite"
    <2>1. TypeOK /\ TypeOK'
      BY TypeCollector DEF IInv, Collector, singlestep
    <2>2. Dead = {}
      BY <1>1 DEF IInv, LiveClosed, Sweeping
    <2> QED BY <2>1, <2>2 DEF Live, Dead, isdead
  <1>3. Revisited = {x \in Allocated : color[x] = "gray"} \ Strings
    BY <1>1 DEF Revisited, IInv, GrayListed, isgray
  <1>4. /\ \A p \in preserved : p \in Obj /\ iswhite(p)
        /\ \A p \in (Again \cup marktmu(pending)) \cap Obj : iswhite(p) => p \in preserved
        /\ \A q \in preserved : \A p \in Strong[q] \cap Obj : iswhite(p) => p \in preserved
        /\ reached \subseteq preserved
    BY PropagateAll
  <1>5. \A u \in unreached : /\ u \in Allocated /\ u \notin tmudata /\ kind[u] = "udata"
                             /\ iswhite(u) /\ u \notin reached /\ ~fin[u]
    BY DEF separateudata, Allocated
  <1>6. \A u \in Obj : kind[u] = "udata" /\ u \notin tmudata /\ iswhite(u) /\ ~fin[u]
                         /\ u \notin reached => u \in unreached
    BY DEF separateudata
  <1>7. /\ tmudata \subseteq pending /\ pending \subseteq Allocated
        /\ \A u \in pending : kind[u] = "udata"
        /\ \A u \in unreached : gctm[u] => u \in pending
        /\ \A u \in pending \ tmudata : iswhite(u)
    <2>1. tmudata \subseteq Allocated /\ \A u \in tmudata : kind[u] = "udata"
      BY DEF IInv, KindsOK, LiveClosed, Roots, Live
    <2> QED BY <1>5, <2>1
  <1>8. /\ \A s \in kept : kind[s] = "string"
        /\ \A t \in weaks : t \in visited /\ kind[t] = "table" /\ mode[t] # {}
        /\ \A t \in visited : kind[t] = "table" /\ mode[t] # {} => t \in weaks
    BY DEF KeptStrings, Strings
  <1>9. \A t \in weaks : \A e \in cleartable(t, marked, finalized) :
          /\ e \in ents[t]
          /\ e[1] \in Obj /\ e[1] # NIL => e[1] \in kept \/ e[1] \in marked
          /\ e[2] \in Obj /\ e[2] # NIL => e[2] \in kept \/ e[2] \in marked
    BY DEF cleartable, iscleared, KeptStrings, Strings
  <1>a. \A t, e : <<t, e>> \in array => e \in ents[t] /\ e[1] = NIL /\ "v" \notin mode[t]
    BY SparedFacts
  <1>10. visited = preserved \cup Revisited
    OBVIOUS
  <1>11. \A p \in marked : p \in preserved \/ ~iswhite(p)
    OBVIOUS
  <1>12. \A u \in Obj : fin'[u] <=> fin[u] \/ u \in unreached
    BY <1>1
  <1>13. /\ \A u \in pending : u \in marktmu(pending)
         /\ \A u \in pending : held[u] \subseteq marktmu(pending)
    BY DEF marktmu
  <1> HIDE DEF reached, unreached, pending, preserved, visited, weaks, marked, finalized, kept
  \* What the new colors say.
  <1>14. \A x \in Obj : /\ kind[x] = "udata" => color'[x] # "gray"
                        /\ kind[x] \in {"thread", "string"} => color'[x] # "black"
    BY <1>1, <1>2, <1>7, <1>8, KindFacts DEF AtomicColor
  <1>15. \A x \in Allocated : color'[x] # "otherwhite" <=>
            x \in visited \cup kept \cup pending \/ ~iswhite(x)
    BY <1>1, <1>2 DEF AtomicColor, Allocated, iswhite, Whites, TypeOK, Colors
  <1>16. Allocated' = Allocated /\ Live' \subseteq Allocated /\ Dead' \subseteq Allocated
    BY <1>1 DEF Allocated, Live, Dead
  <1>17. \A x \in Obj : ents'[x] \subseteq ents[x] /\ Edges'[x] \subseteq Edges[x]
    <2>1. \A x \in Obj : ents'[x] \subseteq ents[x]
      BY <1>1, <1>9, <1>a
    <2> QED BY <1>1, <2>1 DEF Edges, Keys, Values
  <1>18. KindsOK'
    <2>1. \A x \in Obj : /\ kind[x] \in {"free", "string"} => Edges'[x] = {}
                         /\ kind[x] # "table" => ents'[x] = {} /\ mode[x] = {}
      BY <1>17, KindFacts
    <2> QED BY <1>1, <1>2, <1>7, <1>14, <1>16, <2>1 DEF IInv, KindsOK, isgray, isblack
  <1>19. ClosedUnder(Live)'
    <2> SUFFICES ASSUME NEW x \in Live', NEW p \in Edges'[x], iswhite(p)
                 PROVE  p \in visited \cup kept \cup pending
      <3>1. \A x \in Live' : Edges'[x] \subseteq Allocated
        BY <1>2, <1>16, <1>17 DEF IInv, LiveClosed, ClosedUnder, Allocated
      <3> QED BY <1>15, <1>16, <3>1 DEF ClosedUnder, Live, isdead
    <2>1. /\ x \in Allocated /\ x \in Obj /\ p \in Edges[x] /\ p \in Obj
          /\ x \in visited \cup kept \cup pending \/ ~iswhite(x)
      BY <1>2, <1>15, <1>16, <1>17, EdgesType DEF Live, Allocated, isdead
    <2>2. CASE x \in visited
      <3>1. p \in Strong[x] => p \in preserved
        BY <1>4, <1>10, <2>1, <2>2 DEF Again
      <3>2. CASE p \notin Strong[x]
        <4>1. kind[x] = "table" /\ mode[x] # {} /\ p \notin held[x]
          BY <2>1, <3>2, KindFacts DEF Strong, Edges
        <4>2. x \in weaks
          BY <1>8, <2>1, <2>2, <4>1
        <4>3. PICK e \in ents'[x] : p # NIL /\ (p = e[1] \/ p = e[2])
          BY <1>1, <2>1, <4>1 DEF Edges, Keys, Values
        <4>4. <<x, e>> \notin array
          BY <1>a, <2>1, <3>2, <4>3 DEF Strong, Values
        <4>5. e \in cleartable(x, marked, finalized)
          BY <1>1, <2>1, <4>2, <4>3, <4>4
        <4> QED BY <1>9, <1>10, <1>11, <2>1, <4>2, <4>3, <4>5
      <3> QED BY <1>10, <3>1, <3>2
    <2>3. CASE x \in kept
      BY <1>8, <2>1, <2>3, KindFacts
    <2>4. CASE x \in pending /\ x \notin visited
      <3>1. x \in tmudata
        BY <1>4, <1>7, <1>10, <1>13, <2>1, <2>4
      <3>2. p \in held[x]
        BY <1>7, <2>1, <2>4, KindFacts DEF Edges, Keys, Values
      <3> QED BY <1>4, <1>10, <1>13, <2>1, <2>4, <3>2
    <2>5. CASE x \notin visited \cup kept \cup pending
      <3>1. ~iswhite(x) /\ x \notin tmudata /\ x \notin Revisited
        BY <1>7, <1>10, <2>1, <2>5
      <3>2. color[x] = "black"
        BY <1>2, <1>3, <2>1, <3>1, KindFacts DEF iswhite, TypeOK, Colors, Strings
      <3> QED BY <1>1, <2>1, <3>1, <3>2 DEF IInv, TriColor, isblack
    <2> QED BY <2>2, <2>3, <2>4, <2>5
  <1>20. LiveClosed'
    <2>1. Roots' \subseteq Live'
      <3>1. Roots' = {Main, Registry, running} \cup pending
        BY <1>1 DEF Roots
      <3>2. {Main, Registry, running} \cup pending \subseteq Allocated
        BY <1>2, <1>7 DEF IInv, LiveClosed, Roots
      <3>3. ~iswhite(Main) /\ ~iswhite(Registry)
        BY <1>1, ObjAssumption DEF IInv, Marking
      <3>4. running \in visited \/ ~iswhite(running)
        <4>1. running \in Again
          BY DEF Again
        <4>2. running \in Obj
          BY <1>2 DEF TypeOK
        <4> QED BY <1>4, <1>10, <4>1, <4>2
      <3> QED BY <1>15, <1>16, <3>1, <3>2, <3>3, <3>4 DEF Live, isdead
    <2>2. ASSUME NEW u \in Dead', kind[u] = "udata", gctm[u] PROVE fin'[u]
      <3>1. u \in Obj /\ iswhite(u) /\ u \notin visited \cup pending
        BY <1>15, <1>16, <2>2 DEF Dead, isdead, Allocated
      <3> QED BY <1>4, <1>6, <1>7, <1>10, <1>12, <2>2, <3>1
    <2> QED BY <1>1, <1>19, <2>1, <2>2 DEF LiveClosed, Sweeping
  <1>21. Unswept'
    <2> SUFFICES ASSUME NEW x \in Allocated \ pending
                 PROVE  IF kind[x] = "string" THEN x \in sweepstr' ELSE x \in sweepgc'
      BY <1>1, <1>16 DEF Unswept
    <2> QED BY <1>1 DEF Strings, Allocated
  <1> QED BY <1>1, <1>2, <1>18, <1>20, <1>21 DEF IInv, Idle, IdleWhite, Marking, TriColor, GrayListed

-----------------------------------------------------------------------------
(* The theorems.                                                           *)

LEMMA InvInit == Init => IInv
  <1> SUFFICES ASSUME Init PROVE IInv
    OBVIOUS
  <1>1. TypeOK
    BY TypeInit
  <1>2. Edges = [o \in Obj |-> {}]
    BY DEF Init, Edges, Keys, Values
  <1>3. Allocated = {Main, Registry} /\ Live = {Main, Registry} /\ Dead = {}
    BY ObjAssumption DEF Init, Allocated, Live, Dead, isdead
  <1>4. KindsOK
    BY <1>2, <1>3, ObjAssumption DEF Init, KindsOK, isgray, isblack
  <1>5. LiveClosed
    BY <1>2, <1>3, ObjAssumption DEF Init, LiveClosed, ClosedUnder, Roots, Sweeping
  <1>6. Unswept /\ IdleWhite /\ Marking /\ TriColor /\ GrayListed
    BY <1>3 DEF Init, Unswept, IdleWhite, Marking, TriColor, GrayListed, Sweeping, Idle, Allocated
  <1> QED BY <1>1, <1>4, <1>5, <1>6 DEF IInv

LEMMA InvMutator == IInv /\ Mutator => IInv'
  BY NewStep, StackActions, InternStep, SetTableStep, SetNilStep, SetModeStep,
     SetMetatableStep, SetRefStep, SetGcTMStep, SwitchStep DEF Mutator

LEMMA InvCollector == IInv /\ (Collector \/ FullGC) => IInv'
  <1> SUFFICES ASSUME IInv, Collector \/ FullGC PROVE IInv'
    OBVIOUS
  <1>a. TypeOK'
    BY TypeCollector DEF IInv
  <1>1. CASE MarkRoot
    BY <1>a, <1>1, MarkrootStep DEF MarkRoot, Idle
  <1>2. CASE FullMark
    BY <1>a, <1>2, MarkrootStep DEF FullMark, Idle
  <1>3. ASSUME NEW o \in gray, Propagate(o) PROVE IInv'
    BY <1>3, PropagateStep
  <1>4. CASE Atomic
    BY <1>4, AtomicStep
  <1>5. ASSUME NEW u \in tmudata, GCTM(u) PROVE IInv'
    BY <1>5, GCTMStep
  <1> QED BY <1>1, <1>2, <1>3, <1>4, <1>5, SweepActions, PhaseActions
      DEF Collector, singlestep

LEMMA InvNext == IInv /\ [Next]_vars => IInv'
  <1>1. ASSUME IInv, UNCHANGED vars PROVE IInv'
    <2>1. /\ TypeOK' /\ Edges' = Edges /\ Live' = Live /\ Dead' = Dead
      BY <1>1, EdgesFrame DEF IInv, TypeOK, Edges, Live, Dead, Allocated, isdead,
         vars, heapvars, listvars, sweepvars
    <2>2. UNCHANGED <<kind, held, ents, mode, gctm, running, color, fin, gcstate,
                      gray, grayagain, weak, sweepgc, sweepstr, tmudata>>
      BY <1>1 DEF vars, heapvars, listvars, sweepvars
    <2>3. KindsOK' /\ LiveClosed'
      BY <1>1, <2>1, <2>2 DEF IInv, KindsOK, LiveClosed, ClosedUnder, Roots, Sweeping, isgray, isblack
    <2>4. Unswept' /\ IdleWhite' /\ Marking'
      BY <1>1, <2>2 DEF IInv, Unswept, IdleWhite, Marking, Sweeping, Idle, Allocated, iswhite
    <2>5. TriColor' /\ GrayListed'
      BY <1>1, <2>1, <2>2 DEF IInv, TriColor, GrayListed, Allocated, Strings, isblack, iswhite, isgray
    <2> QED BY <2>1, <2>3, <2>4, <2>5 DEF IInv
  <1> QED BY <1>1, InvMutator, InvCollector DEF Next

\* The inductive invariant holds in every state the collector and the program
\* can reach, whatever the heap.
THEOREM Invariance == Spec => []IInv
  BY InvInit, InvNext, PTL DEF Spec

LEMMA InvSafe == IInv => NoDangling
  <1> SUFFICES ASSUME IInv PROVE NoDangling
    OBVIOUS
  <1>1. Roots \subseteq Live /\ Live \subseteq Obj /\ ClosedUnder(Live)
    BY DEF IInv, LiveClosed, Live, Allocated
  <1>2. Live \in {Roots \cup M : M \in SUBSET (Obj \ Roots)}
    <2>1. Live = Roots \cup (Live \ Roots) /\ Live \ Roots \in SUBSET (Obj \ Roots)
      BY <1>1
    <2> QED BY <2>1
  <1>3. Accessible \subseteq Live
    BY <1>1, <1>2 DEF Accessible
  <1> QED BY <1>3 DEF NoDangling, Live

\* No reference the program can follow leads to freed memory.
THEOREM NeverDangling == Spec => []NoDangling
  BY Invariance, InvSafe, PTL

\* While marking, black objects refer to no white ones.
THEOREM TriColorHolds == Spec => []TriColor
  <1>1. IInv => TriColor
    BY DEF IInv
  <1> QED BY <1>1, Invariance, PTL

\* While marking, gray objects and the lists of the collector agree.
THEOREM GrayListedHolds == Spec => []GrayListed
  <1>1. IInv => GrayListed
    BY DEF IInv
  <1> QED BY <1>1, Invariance, PTL

\* Between two cycles nothing but what waits for a finalizer is marked.
THEOREM IdleWhiteHolds == Spec => []IdleWhite
  <1>1. IInv => IdleWhite
    BY DEF IInv
  <1> QED BY <1>1, Invariance, PTL

\* What frees a userdata is a sweep that found it dead.
LEMMA FreedWasDead ==
  ASSUME IInv, Next, NEW u \in Obj, kind[u] = "udata", kind'[u] = "free"
  PROVE  u \in Dead
  <1> USE DEF mutatorvars, heapvars
  <1>1. TypeOK /\ MutatorAssumption
    BY MutatorAssumption DEF IInv
  <1>2. CASE Mutator
    <2>1. ASSUME NEW o \in Obj, NEW k \in NewKinds, New(o, k) PROVE FALSE
      BY <1>1, <2>1 DEF New, TypeOK, Kinds
    <2>2. \/ \E o \in Obj, k \in NewKinds : New(o, k)
          \/ kind' = kind
      BY <1>2 DEF Mutator, Get, Drop, Intern, SetTable, SetNil, SetMode,
         SetMetatable, XMove, SetRef, SetGcTM, Switch
    <2> QED BY <2>1, <2>2
  <1>3. ASSUME NEW o \in Obj, sweep(o) PROVE u \in Dead
    BY <1>1, <1>3 DEF sweep, TypeOK, Dead, Allocated
  <1>4. CASE Collector \/ FullGC
    <2>1. \/ \E s \in sweepstr : SweepString(s)
          \/ \E o \in sweepgc : Sweep(o)
          \/ kind' = kind
      BY <1>4 DEF Collector, singlestep, MarkRoot, Propagate, Atomic, EndSweepString,
         EndSweep, GCTM, EndCycle, FullGC, FullMark
    <2>2. sweepstr \subseteq Obj /\ sweepgc \subseteq Obj
      BY <1>1 DEF TypeOK
    <2> QED BY <1>3, <2>1, <2>2 DEF SweepString, Sweep
  <1> QED BY <1>2, <1>4 DEF Next

\* A userdata with a finalizer is never freed before it was finalized.
THEOREM FinalizeFirstHolds == Spec => FinalizeFirst
  <1>1. IInv /\ [Next]_vars =>
          [\A u \in Obj : kind[u] = "udata" /\ kind'[u] = "free" /\ gctm[u] => fin[u]]_vars
    <2>1. ASSUME IInv, Next, NEW u \in Obj, kind[u] = "udata", kind'[u] = "free", gctm[u]
          PROVE  fin[u]
      BY <2>1, FreedWasDead DEF IInv, LiveClosed
    <2> QED BY <2>1
  <1> QED BY <1>1, Invariance, PTL DEF Spec, FinalizeFirst

-----------------------------------------------------------------------------
(* The collector of LuaGC implements the heap of LuaHeap, for any number   *)
(* of objects.  What the program does is a step of Heap!Program, as it     *)
(* uses accessible objects only; marking and the changes of phase are no   *)
(* steps at all; the atomic step is Heap!Decide, since whatever is in use  *)
(* is marked by then; sweeping a dead object is Heap!Free, since what is   *)
(* not dead refers to nothing that is (LiveClosed).                        *)

(* The words of LuaHeap and those of LuaGC.                                *)

LEMMA HeapWords ==
  /\ Heap!Allocated = Allocated /\ Heap!Roots = Roots
  /\ \A o \in Obj : Heap!Edges(o) = Edges[o] /\ Heap!Strong(o) = Strong[o]
  BY DEF Heap!Allocated, Allocated, Heap!Roots, Roots, Heap!Edges, Edges, Heap!Strong, Strong,
     Heap!Keys, Keys, Heap!Values, Values

\* ReachedFrom looks at the sets that have S only.
LEMMA Supersets ==
  ASSUME NEW S \in SUBSET Obj, NEW T \in SUBSET Obj, S \subseteq T
  PROVE  T \in {S \cup M : M \in SUBSET (Obj \ S)}
  <1>1. T = S \cup (T \ S) /\ T \ S \in SUBSET (Obj \ S)
    OBVIOUS
  <1> QED BY <1>1

LEMMA AccessibleFacts ==
  ASSUME IInv
  PROVE  /\ Heap!Accessible \subseteq Live /\ Heap!Accessible \subseteq Obj
         /\ Roots \subseteq Heap!Accessible
         /\ \A q \in Heap!Accessible : Edges[q] \subseteq Heap!Accessible
  <1>1. /\ Roots \subseteq Live /\ Live \subseteq Obj
        /\ \A q \in Live : Edges[q] \subseteq Live
    BY DEF IInv, LiveClosed, ClosedUnder, Live, Allocated
  <1> DEFINE Sets == {Roots \cup M : M \in SUBSET (Obj \ Roots)}
  <1>2. Live \in Sets /\ \A T \in Sets : Roots \subseteq T /\ T \subseteq Obj
    <2>1. Live \in Sets
      BY <1>1, Supersets
    <2> QED BY <1>1, <2>1
  <1> HIDE DEF Sets
  <1>3. Heap!Accessible = {o \in Obj : \A T \in Sets : (\A q \in T : Edges[q] \subseteq T) => o \in T}
    <2>1. \A T \in Sets : (\A q \in T : Heap!Edges(q) \subseteq T) <=> \A q \in T : Edges[q] \subseteq T
      BY <1>2, HeapWords
    <2>2. Heap!Accessible = {o \in Obj : \A T \in Sets : (\A q \in T : Heap!Edges(q) \subseteq T) => o \in T}
      BY HeapWords DEF Heap!Accessible, Heap!ReachedFrom, Sets
    <2> QED BY <2>1, <2>2
  <1>4. Heap!Accessible \subseteq Live
    BY <1>1, <1>2, <1>3
  <1>5. Roots \subseteq Heap!Accessible
    BY <1>1, <1>2, <1>3
  <1>6. ASSUME NEW q \in Heap!Accessible PROVE Edges[q] \subseteq Heap!Accessible
    <2>1. q \in Live /\ Edges[q] \subseteq Obj
      BY <1>1, <1>4
    <2> QED BY <1>3, <2>1
  <1> QED BY <1>1, <1>4, <1>5, <1>6

LEMMA HandAccessible ==
  ASSUME IInv
  PROVE  /\ Hand \subseteq Heap!Accessible /\ Base \subseteq Heap!Accessible
         /\ running \in Heap!Accessible /\ Main \in Heap!Accessible
         /\ \A p \in Base : Edges[p] \subseteq Heap!Accessible
  <1>1. running \in Heap!Accessible /\ Main \in Heap!Accessible /\ Registry \in Heap!Accessible
    BY AccessibleFacts DEF Roots
  <1>2. Hand \subseteq Edges[running]
    BY EdgesType DEF Hand, IInv, TypeOK
  <1> QED BY <1>1, <1>2, AccessibleFacts DEF Base

-----------------------------------------------------------------------------
(* The program.                                                            *)

\* A step that changes what one accessible object refers to, and gives it no
\* reference but to what is accessible or a string.
LEMMA ProgramFrame ==
  ASSUME IInv, NEW o \in Heap!Accessible, NEW K \in SUBSET (Heap!Accessible \cup Strings),
         UNCHANGED <<kind, fin, tmudata>>,
         \A x \in Obj \ {o} : /\ held'[x] = held[x] /\ ents'[x] = ents[x]
                             /\ mode'[x] = mode[x] /\ gctm'[x] = gctm[x],
         held'[o] \subseteq held[o] \cup K,
         \A e \in ents'[o] : e \in ents[o] \/ {e[1], e[2]} \subseteq K \cup {NIL},
         running' = running \/ running' \in Heap!Accessible
  PROVE  Heap!Program
  <1> DEFINE known == Heap!Accessible \cup {x \in Obj : kind[x] = "free" /\ kind'[x] # "free"}
                                      \cup {s \in Obj : kind[s] = "string"}
  <1>1. K \subseteq known /\ o \in known
    BY DEF Strings
  <1>2. ASSUME NEW x \in Obj, NEW r \in Heap!Edges(x)' PROVE r \in Heap!Edges(x) \/ r \in known
    <2>1. \/ r \in held'[x]
          \/ \E e \in ents'[x] : r \in {e[1], e[2]} /\ r # NIL
      BY <1>2 DEF Heap!Edges, Heap!Keys, Heap!Values
    <2>2. \/ r \in held[x] \/ r \in K
          \/ \E e \in ents[x] : r \in {e[1], e[2]} /\ r # NIL
      BY <2>1
    <2> QED BY <1>1, <2>2 DEF Heap!Edges, Heap!Keys, Heap!Values
  <1>3. \A x \in Obj : \/ /\ held'[x] = held[x] /\ ents'[x] = ents[x]
                          /\ mode'[x] = mode[x] /\ gctm'[x] = gctm[x]
                       \/ x \in known
    BY <1>1
  <1>4. running' = running \/ running' \in known
    OBVIOUS
  <1> HIDE DEF known
  <1>5. known = Heap!Accessible \cup {x \in Obj : kind[x] = "free" /\ kind'[x] # "free"}
                               \cup {s \in Obj : kind[s] = "string"}
    BY DEF known
  <1> QED BY <1>2, <1>3, <1>4, <1>5 DEF Heap!Program

LEMMA NewProgram ==
  ASSUME IInv, NEW o \in Obj, NEW k \in NewKinds, New(o, k)
  PROVE  Heap!Program
  <1>1. /\ TypeOK /\ kind[o] = "free" /\ running \in Obj
        /\ kind' = [kind EXCEPT ![o] = k] /\ k # "free"
        /\ held' = [held EXCEPT ![running] = @ \cup {o}]
        /\ UNCHANGED <<ents, mode, gctm, fin, running, tmudata>>
    BY MutatorAssumption DEF New, IInv, TypeOK, collector, sweepvars, Kinds
  <1> DEFINE known == Heap!Accessible \cup {x \in Obj : kind[x] = "free" /\ kind'[x] # "free"}
                                      \cup {s \in Obj : kind[s] = "string"}
  <1>2. o \in known /\ running \in known
    BY <1>1, HandAccessible DEF TypeOK
  <1>3. \A x \in Heap!Allocated : kind'[x] = kind[x]
    BY <1>1 DEF Heap!Allocated, TypeOK
  <1>4. ASSUME NEW x \in Obj, NEW r \in Heap!Edges(x)' PROVE r \in Heap!Edges(x) \/ r \in known
    BY <1>1, <1>2, <1>4 DEF Heap!Edges, Heap!Keys, Heap!Values, TypeOK
  <1>5. \A x \in Obj : \/ /\ held'[x] = held[x] /\ ents'[x] = ents[x]
                          /\ mode'[x] = mode[x] /\ gctm'[x] = gctm[x]
                       \/ x \in known
    BY <1>1, <1>2 DEF TypeOK
  <1> HIDE DEF known
  <1>6. known = Heap!Accessible \cup {x \in Obj : kind[x] = "free" /\ kind'[x] # "free"}
                               \cup {s \in Obj : kind[s] = "string"}
    BY DEF known
  <1> QED BY <1>1, <1>3, <1>4, <1>5, <1>6 DEF Heap!Program

LEMMA MutatorProgram ==
  ASSUME IInv, Mutator
  PROVE  Heap!Program
  <1> USE DEF collector, sweepvars, listvars
  <1>a. /\ TypeOK /\ Hand \subseteq Heap!Accessible /\ Base \subseteq Heap!Accessible
        /\ running \in Heap!Accessible /\ running \in Obj
        /\ \A p \in Base : Edges[p] \subseteq Heap!Accessible
        /\ Hand \subseteq Obj /\ Base \subseteq Obj
    BY HandAccessible, BaseType DEF IInv, TypeOK
  <1>1. ASSUME NEW o \in Obj, NEW k \in NewKinds, New(o, k) PROVE Heap!Program
    BY <1>1, NewProgram
  <1>2. ASSUME NEW p \in Base, NEW o \in Edges[p], Get(p, o) PROVE Heap!Program
    <2>1. {o} \subseteq Heap!Accessible \cup Strings
      BY <1>a
    <2>2. /\ held'[running] = held[running] \cup {o}
          /\ \A x \in Obj \ {running} : held'[x] = held[x]
          /\ UNCHANGED <<kind, ents, mode, gctm, running, fin, tmudata>>
      BY <1>2, <1>a DEF Get, TypeOK
    <2> QED BY <1>a, <2>1, <2>2, ProgramFrame
  <1>3. ASSUME NEW o \in Hand, Drop(o) PROVE Heap!Program
    <2>1. /\ held'[running] \subseteq held[running] \cup {}
          /\ \A x \in Obj \ {running} : held'[x] = held[x]
          /\ UNCHANGED <<kind, ents, mode, gctm, running, fin, tmudata>>
      BY <1>3, <1>a DEF Drop, TypeOK
    <2> QED BY <1>a, <2>1, ProgramFrame
  <1>4. ASSUME NEW s \in Strings, Intern(s) PROVE Heap!Program
    <2>1. /\ held'[running] = held[running] \cup {s}
          /\ \A x \in Obj \ {running} : held'[x] = held[x]
          /\ UNCHANGED <<kind, ents, mode, gctm, running, fin, tmudata>>
      BY <1>4, <1>a DEF Intern, TypeOK
    <2>2. {s} \subseteq Heap!Accessible \cup Strings
      OBVIOUS
    <2> QED BY <1>a, <2>1, <2>2, ProgramFrame
  <1>5. ASSUME NEW t \in Base, NEW k \in Hand \cup {NIL}, NEW v \in Hand \cup {NIL},
               SetTable(t, k, v)
        PROVE  Heap!Program
    <2>1. /\ \A e \in ents'[t] : e \in ents[t] \/ {e[1], e[2]} \subseteq Hand \cup {NIL}
          /\ \A x \in Obj \ {t} : ents'[x] = ents[x]
          /\ UNCHANGED <<kind, held, mode, gctm, running, fin, tmudata>>
      BY <1>5, <1>a DEF SetTable, TypeOK
    <2>2. Hand \subseteq Heap!Accessible \cup Strings
      BY <1>a
    <2> QED BY <1>a, <2>1, <2>2, ProgramFrame
  <1>6. ASSUME NEW t \in Base, NEW e \in ents[t], SetNil(t, e) PROVE Heap!Program
    <2>1. /\ \A d \in ents'[t] : d \in ents[t]
          /\ \A x \in Obj \ {t} : ents'[x] = ents[x]
          /\ UNCHANGED <<kind, held, mode, gctm, running, fin, tmudata>>
      BY <1>6, <1>a DEF SetNil, TypeOK
    <2> QED BY <1>a, <2>1, ProgramFrame
  <1>7. ASSUME NEW t \in Hand, NEW m \in NewModes, SetMode(t, m) PROVE Heap!Program
    <2>1. /\ \A x \in Obj \ {t} : mode'[x] = mode[x]
          /\ UNCHANGED <<kind, held, ents, gctm, running, fin, tmudata>>
      BY <1>7, <1>a DEF SetMode, TypeOK
    <2> QED BY <1>a, <2>1, ProgramFrame
  <1>8. ASSUME NEW t \in Base, NEW v \in Hand, SetMetatable(t, v) PROVE Heap!Program
    <2>1. /\ held'[t] = {v}
          /\ \A x \in Obj \ {t} : held'[x] = held[x]
          /\ UNCHANGED <<kind, ents, mode, gctm, running, fin, tmudata>>
      BY <1>8, <1>a DEF SetMetatable, TypeOK
    <2>2. {v} \subseteq Heap!Accessible \cup Strings
      BY <1>a
    <2> QED BY <1>a, <2>1, <2>2, ProgramFrame
  <1>9. ASSUME NEW t \in Hand, NEW o \in Hand, XMove(t, o) PROVE Heap!Program
    <2>1. /\ held'[t] = held[t] \cup {o}
          /\ \A x \in Obj \ {t} : held'[x] = held[x]
          /\ UNCHANGED <<kind, ents, mode, gctm, running, fin, tmudata>>
      BY <1>9, <1>a DEF XMove, TypeOK
    <2>2. {o} \subseteq Heap!Accessible \cup Strings
      BY <1>a
    <2> QED BY <1>a, <2>1, <2>2, ProgramFrame
  <1>10. ASSUME NEW o \in Hand, NEW v \in Hand, NEW r \in held[o] \cup {NIL}, SetRef(o, r, v)
         PROVE  Heap!Program
    <2>1. /\ held'[o] \subseteq held[o] \cup {v}
          /\ \A x \in Obj \ {o} : held'[x] = held[x]
          /\ UNCHANGED <<kind, ents, mode, gctm, running, fin, tmudata>>
      BY <1>10, <1>a DEF SetRef, TypeOK
    <2>2. {v} \subseteq Heap!Accessible \cup Strings
      BY <1>a
    <2> QED BY <1>a, <2>1, <2>2, ProgramFrame
  <1>11. ASSUME NEW u \in Hand, SetGcTM(u) PROVE Heap!Program
    <2>1. /\ \A x \in Obj \ {u} : gctm'[x] = gctm[x]
          /\ UNCHANGED <<kind, held, ents, mode, running, fin, tmudata>>
      BY <1>11, <1>a DEF SetGcTM, TypeOK
    <2> QED BY <1>a, <2>1, ProgramFrame
  <1>12. ASSUME NEW t \in Hand \cup {Main}, Switch(t) PROVE Heap!Program
    <2>1. /\ running' \in Heap!Accessible
          /\ UNCHANGED <<kind, held, ents, mode, gctm, fin, tmudata>>
      BY <1>12, <1>a, HandAccessible DEF Switch, heapvars
    <2> QED BY <1>a, <2>1, ProgramFrame
  <1> QED
    BY <1>1, <1>2, <1>3, <1>4, <1>5, <1>6, <1>7, <1>8, <1>9, <1>10, <1>11, <1>12 DEF Mutator

-----------------------------------------------------------------------------
(* The atomic step.                                                        *)

\* What is marked when weak tables are cleared, that is, preserved and what had
\* its color before, includes whatever strong references lead to.
LEMMA MarkedStrong ==
  ASSUME IInv, gcstate = "propagate", gray = {},
         NEW P \in SUBSET Obj, tmudata \subseteq P
  PROVE  Heap!StrongReached \subseteq
           {o \in Allocated : ~iswhite(o)} \cup propagateall(Again \cup marktmu(P))
  <1> DEFINE preserved == propagateall(Again \cup marktmu(P))
             M == {o \in Allocated : ~iswhite(o)} \cup preserved
  <1>1. /\ TypeOK /\ Roots \subseteq Live /\ Live \subseteq Allocated /\ Allocated \subseteq Obj
        /\ \A q \in Live : Edges[q] \subseteq Live
        /\ \A x \in Allocated : x \in Live
    BY DEF IInv, LiveClosed, ClosedUnder, Sweeping, Live, Dead, Allocated
  <1>2. /\ \A p \in preserved : p \in Obj /\ iswhite(p)
        /\ \A p \in (Again \cup marktmu(P)) \cap Obj : iswhite(p) => p \in preserved
        /\ \A q \in preserved : \A p \in Strong[q] \cap Obj : iswhite(p) => p \in preserved
    BY PropagateAll
  <1> HIDE DEF preserved
  <1>3. \A p \in (Again \cup marktmu(P)) \cap Allocated : p \in M
    BY <1>1, <1>2
  <1>4. Revisited = {x \in Allocated : color[x] = "gray"} \ Strings
    BY DEF Revisited, IInv, GrayListed, isgray
  <1>5. Roots \subseteq M
    <2>1. running \in Again /\ tmudata \subseteq marktmu(P)
      BY DEF Again, marktmu
    <2>2. Main \in M /\ Registry \in M
      BY <1>1, ObjAssumption DEF IInv, Marking, Roots
    <2> QED BY <1>1, <1>3, <2>1, <2>2 DEF Roots
  <1>6. ASSUME NEW q \in M, q \in Obj, NEW p \in Strong[q] PROVE p \in M
    <2>1. p \in Edges[q] /\ p \in Obj
      BY <1>1, <1>6, EdgesType
    <2>2. CASE q \in preserved
      <3>1. kind[q] # "free" => p \in Allocated
        BY <1>1, <2>1, <2>2, <1>6 DEF Allocated
      <3>2. kind[q] # "free"
        BY <1>6, <2>1, KindFacts
      <3> QED BY <1>2, <1>6, <2>1, <2>2, <3>1, <3>2
    <2>3. CASE q \notin preserved
      <3>1. q \in Allocated /\ ~iswhite(q) /\ p \in Allocated
        BY <1>1, <1>6, <2>1, <2>3
      <3>2. CASE q \in tmudata
        <4>1. held[q] \subseteq marktmu(P)
          BY <3>2 DEF marktmu
        <4>2. p \in held[q]
          BY <2>1, <3>2, KindFacts DEF Edges, Keys, Values, IInv, KindsOK
        <4> QED BY <1>3, <3>1, <4>1, <4>2
      <3>3. CASE color[q] = "gray"
        <4>1. q \in Revisited
          BY <1>4, <1>6, <2>1, <3>1, <3>3, KindFacts DEF Strings
        <4>2. p \in Again
          BY <1>6, <4>1 DEF Again
        <4> QED BY <1>3, <3>1, <4>2
      <3>4. CASE color[q] = "black" /\ q \notin tmudata
        BY <2>1, <3>1, <3>4 DEF IInv, TriColor, isblack
      <3> QED BY <1>1, <1>6, <3>1, <3>2, <3>3, <3>4 DEF iswhite, TypeOK, Colors
    <2> QED BY <2>2, <2>3
  <1>7. M \in SUBSET Obj
    BY <1>1, <1>2
  <1> HIDE DEF M
  <1>8. \A q \in M : Heap!Strong(q) \subseteq M
    BY <1>6, <1>7, HeapWords
  <1>9. Heap!StrongReached \subseteq M
    <2>1. M \in {Roots \cup T : T \in SUBSET (Obj \ Roots)}
      BY <1>5, <1>7, Supersets
    <2> QED BY <1>8, <2>1, HeapWords DEF Heap!StrongReached, Heap!ReachedFrom
  <1> QED BY <1>9 DEF M, preserved

\* What luaC_separateudata finds unmarked is not in use.
LEMMA ReachedInUse ==
  ASSUME IInv, gcstate = "propagate", gray = {}
  PROVE  Heap!InUse \subseteq {o \in Allocated : ~iswhite(o)} \cup propagateall(Again)
  <1> DEFINE reached == propagateall(Again)
             M == {o \in Allocated : ~iswhite(o)} \cup reached
  <1>1. /\ TypeOK /\ Roots \subseteq Live /\ Live \subseteq Allocated /\ Allocated \subseteq Obj
        /\ \A q \in Live : Edges[q] \subseteq Live
        /\ \A x \in Allocated : x \in Live
    BY DEF IInv, LiveClosed, ClosedUnder, Sweeping, Live, Dead, Allocated
  <1>2. /\ \A p \in reached : p \in Obj /\ iswhite(p)
        /\ \A p \in Again \cap Obj : iswhite(p) => p \in reached
        /\ \A q \in reached : \A p \in Strong[q] \cap Obj : iswhite(p) => p \in reached
    BY PropagateAll
  <1> HIDE DEF reached
  <1>3. \A p \in Again \cap Allocated : p \in M
    BY <1>1, <1>2
  <1>4. Revisited = {x \in Allocated : color[x] = "gray"} \ Strings
    BY DEF Revisited, IInv, GrayListed, isgray
  <1>5. {Main, Registry, running} \subseteq M
    <2>1. running \in Again
      BY DEF Again
    <2>2. Main \in M /\ Registry \in M
      BY <1>1, ObjAssumption DEF IInv, Marking, Roots
    <2> QED BY <1>1, <1>3, <2>1, <2>2 DEF Roots
  <1>6. ASSUME NEW q \in M, q \in Obj, q \notin tmudata, NEW p \in Strong[q] PROVE p \in M
    <2>1. p \in Edges[q] /\ p \in Obj
      BY <1>1, <1>6, EdgesType
    <2>2. CASE q \in reached
      <3>1. kind[q] # "free" => p \in Allocated
        BY <1>1, <2>1, <2>2, <1>6 DEF Allocated
      <3>2. kind[q] # "free"
        BY <1>6, <2>1, KindFacts
      <3> QED BY <1>2, <1>6, <2>1, <2>2, <3>1, <3>2
    <2>3. CASE q \notin reached
      <3>1. q \in Allocated /\ ~iswhite(q) /\ p \in Allocated
        BY <1>1, <1>6, <2>1, <2>3
      <3>3. CASE color[q] = "gray"
        <4>1. q \in Revisited
          BY <1>4, <1>6, <2>1, <3>1, <3>3, KindFacts DEF Strings
        <4>2. p \in Again
          BY <1>6, <4>1 DEF Again
        <4> QED BY <1>3, <3>1, <4>2
      <3>4. CASE color[q] = "black"
        BY <1>6, <2>1, <3>1, <3>4 DEF IInv, TriColor, isblack
      <3> QED BY <1>1, <1>6, <3>1, <3>3, <3>4 DEF iswhite, TypeOK, Colors
    <2> QED BY <2>2, <2>3
  <1>7. M \in SUBSET Obj
    BY <1>1, <1>2
  <1> HIDE DEF M
  <1>8. \A q \in M : (IF q \in tmudata THEN {} ELSE Heap!Strong(q)) \subseteq M
    BY <1>6, <1>7, HeapWords
  <1>9. Heap!InUse \subseteq M
    <2> DEFINE S == {Main, Registry, running}
    <2>1. M \in {S \cup T : T \in SUBSET (Obj \ S)}
      BY <1>5, <1>7, Supersets
    <2> QED BY <1>8, <2>1 DEF Heap!InUse, Heap!ReachedFrom
  <1> QED BY <1>9 DEF M, reached

LEMMA AtomicDecides ==
  ASSUME IInv, Atomic
  PROVE  Heap!Decide
  <1> DEFINE reached   == propagateall(Again)
             unreached == separateudata(reached)
             pending   == tmudata \cup {u \in unreached : gctm[u]}
             preserved == propagateall(Again \cup marktmu(pending))
             visited   == preserved \cup Revisited
             weaks     == {t \in visited : kind[t] = "table" /\ mode[t] # {}}
             marked    == {o \in Allocated : ~iswhite(o)} \cup preserved
             finalized == {u \in Obj : fin[u]} \cup unreached
  <1>1. PICK array \in SUBSET Spared(weaks, marked, finalized) :
        /\ gcstate = "propagate" /\ gray = {}
        /\ fin' = [o \in Obj |-> o \in finalized]
        /\ ents' = [t \in Obj |-> IF t \in weaks
                                  THEN cleartable(t, marked, finalized)
                                         \cup {e \in ents[t] : <<t, e>> \in array}
                                  ELSE ents[t]]
        /\ tmudata' = pending
        /\ UNCHANGED <<kind, held, mode, gctm, running>>
    BY DEF Atomic
  <1>2. TypeOK /\ Live = Allocated /\ \A q \in Allocated : Edges[q] \subseteq Allocated
    BY <1>1 DEF IInv, LiveClosed, ClosedUnder, Sweeping, Live, Dead, Allocated
  <1>3. /\ \A u \in unreached : /\ u \in Obj /\ kind[u] = "udata" /\ ~fin[u]
                               /\ iswhite(u) /\ u \notin reached
        /\ pending \in SUBSET Obj /\ tmudata \subseteq pending
        /\ pending = tmudata \cup {u \in unreached : gctm[u]}
    BY <1>2 DEF separateudata, TypeOK
  <1>4. Heap!InUse \subseteq {o \in Allocated : ~iswhite(o)} \cup reached
    BY <1>1, ReachedInUse
  <1>5. /\ \A p \in (Again \cup marktmu(pending)) \cap Obj : iswhite(p) => p \in preserved
        /\ \A q \in preserved : \A p \in Strong[q] \cap Obj : iswhite(p) => p \in preserved
        /\ \A q \in preserved : q \in Obj /\ iswhite(q)
    BY PropagateAll
  <1> HIDE DEF unreached, pending
  <1>6. Heap!StrongReached \subseteq marked
    BY <1>1, <1>3, MarkedStrong
  <1>7. \A t \in weaks : t \in visited /\ kind[t] = "table" /\ mode[t] # {}
    OBVIOUS
  <1>8. visited = preserved \cup Revisited /\ \A p \in Obj : iswhite(p) /\ p \in preserved => p \in marked
    OBVIOUS
  <1>9. \A p \in Allocated : ~iswhite(p) => p \in marked
    OBVIOUS
  <1>a. \A u \in Obj : u \in finalized <=> fin[u] \/ u \in unreached
    BY <1>3
  <1> HIDE DEF reached, preserved, visited, weaks, marked, finalized
  \* A visited table has marked whatever its mode holds on to.
  <1>10. ASSUME NEW t \in weaks, NEW p \in Strong[t] PROVE p \in marked
    <2>1. t \in visited /\ t \in Obj /\ kind[t] = "table" /\ t \in Allocated
      BY <1>2, <1>5, <1>7, <1>8 DEF Revisited, TypeOK, Allocated
    <2>2. p \in Edges[t] /\ p \in Obj /\ p \in Allocated
      BY <1>2, <2>1, EdgesType
    <2>3. iswhite(p) => p \in preserved
      <3>1. CASE t \in preserved
        BY <1>5, <2>2, <3>1
      <3>2. CASE t \in Revisited
        BY <1>5, <2>2, <3>2 DEF Again
      <3> QED BY <1>8, <2>1, <3>1, <3>2
    <2> QED BY <1>8, <1>9, <2>2, <2>3
  <1>11. ASSUME NEW t \in Obj, NEW e \in ents[t] \ ents'[t]
         PROVE  \/ e[1] \notin Heap!StrongReached /\ "k" \in mode[t]
                \/ e[2] \notin Heap!StrongReached /\ "v" \in mode[t]
                \/ e[2] # NIL /\ fin'[e[2]] /\ mode[t] # {}
    <2>1. t \in weaks /\ e \notin cleartable(t, marked, finalized)
      BY <1>1
    <2>2. iscleared(e[1], TRUE, marked, finalized) \/ iscleared(e[2], FALSE, marked, finalized)
      BY <2>1 DEF cleartable
    <2>3. e[1] # NIL => e[1] \in Keys(t) /\ e[1] \in Obj
      BY <1>2 DEF Keys, TypeOK, Ref
    <2>4. e[2] # NIL => e[2] \in Values(t) /\ e[2] \in Obj
      BY <1>2 DEF Values, TypeOK, Ref
    <2>5. CASE iscleared(e[1], TRUE, marked, finalized)
      <3>1. e[1] # NIL /\ e[1] \notin marked
        BY <2>5 DEF iscleared
      <3>2. e[1] \notin Strong[t]
        BY <1>10, <2>1, <3>1
      <3>3. "k" \in mode[t]
        BY <2>3, <3>1, <3>2 DEF Strong
      <3> QED BY <1>6, <3>1, <3>3
    <2>6. CASE iscleared(e[2], FALSE, marked, finalized)
      <3>1. e[2] # NIL /\ (e[2] \notin marked \/ e[2] \in finalized)
        BY <2>6 DEF iscleared
      <3>2. CASE e[2] \in finalized
        BY <1>1, <1>7, <2>1, <2>4, <3>1, <3>2
      <3>3. CASE e[2] \notin marked
        <4>1. e[2] \notin Strong[t]
          BY <1>10, <2>1, <3>3
        <4>2. "v" \in mode[t]
          BY <2>4, <3>1, <4>1 DEF Strong
        <4> QED BY <1>6, <3>3, <4>2
      <3> QED BY <3>1, <3>2, <3>3
    <2> QED BY <2>2, <2>5, <2>6
  <1>12. \A t \in Obj : ents'[t] \subseteq ents[t]
    BY <1>1 DEF cleartable
  <1>13. unreached \in SUBSET {u \in Obj \ Heap!InUse : kind[u] = "udata" /\ ~fin[u]}
    BY <1>3, <1>4
  <1>14. fin' = [o \in Obj |-> fin[o] \/ o \in unreached]
    <2>1. \A o \in Obj : (o \in finalized) = (fin[o] \/ o \in unreached)
      BY <1>2, <1>a DEF TypeOK
    <2> QED BY <1>1, <2>1
  <1>15. tmudata' = tmudata \cup {u \in unreached : gctm[u]}
    BY <1>1, <1>3
  <1> QED BY <1>1, <1>11, <1>12, <1>13, <1>14, <1>15 DEF Heap!Decide

-----------------------------------------------------------------------------
(* Sweeping and finalizing.                                                *)

\* The memory that luaM_free gave back is not in any list of the sweep: whatever
\* is dead is allocated.
FreeClean == \A o \in Obj : kind[o] = "free" => color[o] # "otherwhite"

LEMMA FreeInit == Init => FreeClean
  BY DEF Init, FreeClean

LEMMA FreeNext ==
  ASSUME IInv, FreeClean, Next
  PROVE  FreeClean'
  <1>a. TypeOK
    BY DEF IInv
  <1>1. ASSUME NEW o \in Obj, NEW k \in NewKinds, New(o, k) PROVE FreeClean'
    BY <1>1, <1>a DEF New, FreeClean, TypeOK
  <1>2. ASSUME NEW o \in Obj, sweep(o) PROVE FreeClean'
    BY <1>2, <1>a DEF sweep, FreeClean, TypeOK, heapvars, isdead
  <1>3. ASSUME kind' = kind, \A x \in Obj : color'[x] = color[x] \/ color'[x] # "otherwhite"
        PROVE  FreeClean'
    BY <1>3 DEF FreeClean
  <1>4. ASSUME NEW S PROVE markobjects(S) => \A x \in Obj : color'[x] = color[x] \/ color'[x] # "otherwhite"
    BY DEF markobjects, MarkColor
  <1>5. CASE Mutator
    <2>1. CASE \E o \in Obj, k \in NewKinds : New(o, k)
      BY <1>1, <2>1
    <2>2. ASSUME NEW t, NEW S, barriert(t, S)
          PROVE  \A x \in Obj : color'[x] = color[x] \/ color'[x] # "otherwhite"
      BY <1>a, <2>2 DEF barriert, TypeOK
    <2>3. ASSUME NEW o, NEW v, barrier(o, v)
          PROVE  \A x \in Obj : color'[x] = color[x] \/ color'[x] # "otherwhite"
      BY <1>a, <1>4, <2>3 DEF barrier, TypeOK
    <2>4. ASSUME NEW s \in Strings, Intern(s)
          PROVE  kind' = kind /\ \A x \in Obj : color'[x] = color[x] \/ color'[x] # "otherwhite"
      BY <1>a, <2>4 DEF Intern, isdead, TypeOK
    <2>5. ASSUME NEW t \in Base, NEW k \in Hand \cup {NIL}, NEW v \in Hand \cup {NIL}, SetTable(t, k, v)
          PROVE  kind' = kind /\ \A x \in Obj : color'[x] = color[x] \/ color'[x] # "otherwhite"
      BY <2>2, <2>5 DEF SetTable
    <2>6. ASSUME NEW t \in Base, NEW v \in Hand, SetMetatable(t, v)
          PROVE  kind' = kind /\ \A x \in Obj : color'[x] = color[x] \/ color'[x] # "otherwhite"
      BY <2>2, <2>6 DEF SetMetatable
    <2>7. ASSUME NEW o \in Hand, NEW v \in Hand, NEW r \in held[o] \cup {NIL}, SetRef(o, r, v)
          PROVE  kind' = kind /\ \A x \in Obj : color'[x] = color[x] \/ color'[x] # "otherwhite"
      BY <2>3, <2>7 DEF SetRef
    <2>8. \/ \E o \in Obj, k \in NewKinds : New(o, k)
          \/ kind' = kind /\ \A x \in Obj : color'[x] = color[x] \/ color'[x] # "otherwhite"
      BY <1>5, <2>4, <2>5, <2>6, <2>7 DEF Mutator, Get, Drop, SetNil, SetMode, XMove, SetGcTM, Switch, heapvars
    <2> QED BY <1>3, <2>1, <2>8
  <1>6. CASE Atomic
    BY <1>a, <1>6 DEF Atomic, FreeClean
  <1>7. CASE (Collector \/ FullGC) /\ ~Atomic
    <2> USE DEF mutatorvars
    <2>1. ASSUME NEW o \in gray, Propagate(o)
          PROVE  kind' = kind /\ \A x \in Obj : color'[x] = color[x] \/ color'[x] # "otherwhite"
      BY <2>1 DEF Propagate, MarkColor
    <2>2. ASSUME NEW u \in tmudata, GCTM(u)
          PROVE  kind' = kind /\ \A x \in Obj : color'[x] = color[x] \/ color'[x] # "otherwhite"
      BY <1>a, <2>2 DEF GCTM, TypeOK
    <2>3. MarkRoot \/ FullMark => kind' = kind /\ \A x \in Obj : color'[x] = color[x] \/ color'[x] # "otherwhite"
      BY <1>4 DEF MarkRoot, FullMark, markroot
    <2>4. \/ kind' = kind /\ \A x \in Obj : color'[x] = color[x] \/ color'[x] # "otherwhite"
          \/ \E s \in sweepstr : SweepString(s)
          \/ \E o \in sweepgc : Sweep(o)
      BY <1>7, <2>1, <2>2, <2>3 DEF Collector, singlestep, EndSweepString, EndSweep, EndCycle, FullGC
    <2>5. sweepstr \subseteq Obj /\ sweepgc \subseteq Obj
      BY <1>a DEF TypeOK
    <2> QED BY <1>2, <1>3, <2>4, <2>5 DEF SweepString, Sweep
  <1> QED BY <1>5, <1>6, <1>7 DEF Next

\* What the sweep finds dead the program cannot reach, and it is freed; the rest
\* is left as it is.
LEMMA SweepFrees ==
  ASSUME IInv, FreeClean, NEW o \in Obj, sweep(o), UNCHANGED <<running, tmudata>>
  PROVE  Heap!Free(o) \/ UNCHANGED Heap!vars
  <1>1. CASE isdead(o)
    <2>1. o \in Dead /\ o \notin Live /\ o \in Heap!Allocated
      BY <1>1 DEF FreeClean, Dead, Live, Allocated, Heap!Allocated, isdead
    <2>2. o \notin Heap!Accessible
      BY <2>1, AccessibleFacts
    <2>3. kind[o] = "udata" /\ gctm[o] => fin[o]
      BY <2>1 DEF IInv, LiveClosed
    <2> QED BY <1>1, <2>1, <2>2, <2>3 DEF sweep, Heap!Free
  <1>2. CASE ~isdead(o)
    BY <1>2 DEF sweep, heapvars, Heap!vars
  <1> QED BY <1>1, <1>2

LEMMA CollectorHeap ==
  ASSUME IInv, FreeClean, Collector \/ FullGC
  PROVE  Heap!Next \/ UNCHANGED Heap!vars
  <1> USE DEF mutatorvars, heapvars, listvars, sweepvars
  <1>a. TypeOK /\ sweepstr \subseteq Obj /\ sweepgc \subseteq Obj
    BY DEF IInv, TypeOK
  <1>1. CASE Atomic
    BY <1>1, AtomicDecides DEF Heap!Next
  <1>2. ASSUME NEW s \in sweepstr, SweepString(s) PROVE Heap!Next \/ UNCHANGED Heap!vars
    BY <1>a, <1>2, SweepFrees DEF SweepString, Heap!Next
  <1>3. ASSUME NEW o \in sweepgc, Sweep(o) PROVE Heap!Next \/ UNCHANGED Heap!vars
    BY <1>a, <1>3, SweepFrees DEF Sweep, Heap!Next
  <1>4. ASSUME NEW u \in tmudata, GCTM(u) PROVE Heap!Next
    <2>1. \A o \in Obj : held'[o] \in {held[o], held[o] \cup {u}}
      BY <1>a, <1>4 DEF GCTM, TypeOK
    <2>2. \A o \in Obj \ {running} : held'[o] = held[o]
      BY <1>a, <1>4 DEF GCTM, TypeOK
    <2> QED BY <1>4, <2>1, <2>2 DEF GCTM, Heap!Finalize, Heap!Next
  <1>5. ASSUME \/ MarkRoot \/ FullMark \/ FullGC \/ EndSweepString \/ EndSweep \/ EndCycle
               \/ \E o \in gray : Propagate(o)
        PROVE  UNCHANGED Heap!vars
    BY <1>5 DEF MarkRoot, FullMark, FullGC, EndSweepString, EndSweep, EndCycle, Propagate, Heap!vars
  <1> QED BY <1>1, <1>2, <1>3, <1>4, <1>5 DEF Collector, singlestep

-----------------------------------------------------------------------------
(* The theorem.                                                            *)

LEMMA HeapInit == Init => Heap!Init
  BY DEF Init, Heap!Init

LEMMA HeapStep == IInv /\ FreeClean /\ [Next]_vars => [Heap!Next]_Heap!vars
  <1>1. UNCHANGED vars => UNCHANGED Heap!vars
    BY DEF vars, heapvars, sweepvars, Heap!vars
  <1>2. IInv /\ Mutator => Heap!Next
    BY MutatorProgram DEF Heap!Next
  <1> QED BY <1>1, <1>2, CollectorHeap DEF Next

LEMMA FreeAlways == Spec => []FreeClean
  <1>1. IInv /\ FreeClean /\ [Next]_vars => FreeClean'
    <2>1. FreeClean /\ UNCHANGED vars => FreeClean'
      BY DEF FreeClean, vars, heapvars
    <2> QED BY <2>1, FreeNext
  <1> QED BY <1>1, FreeInit, Invariance, PTL DEF Spec

\* The collector keeps the promises of LuaHeap: it frees what the program has no
\* way left to reach, finalizes what is not in use, and takes weak pairs only, in
\* every phase, with every barrier and every full collection, whatever the heap.
THEOREM CollectorImplementsHeap == Spec => ImplementsHeap
  BY HeapInit, HeapStep, FreeAlways, Invariance, PTL DEF Spec, ImplementsHeap, Heap!Spec
=============================================================================

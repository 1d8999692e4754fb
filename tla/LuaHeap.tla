------------------------------ MODULE LuaHeap ------------------------------
(***************************************************************************)
(* What the collector promises to the program: memory is freed only once   *)
(* the program has no way left to reach it, a userdata with a finalizer    *)
(* not before that was called, and a table loses a pair only when the pair *)
(* is weak.  There are no colors, lists or phases here, and the program is *)
(* anything that follows references: LuaGC has to be one such heap.        *)
(***************************************************************************)
EXTENDS FiniteSets, Naturals

CONSTANTS Obj, Main, Registry, NIL

VARIABLES kind, held, ents, mode, gctm, running,   \* as in LuaGC
          fin,       \* the userdata whose finalizer was called or is due
          tmudata    \* those of them that wait for it

vars == <<kind, held, ents, mode, gctm, running, fin, tmudata>>

Allocated == {o \in Obj : kind[o] # "free"}
Keys(t)   == {e[1] : e \in ents[t]} \ {NIL}
Values(t) == {e[2] : e \in ents[t]} \ {NIL}
Edges(o)  == held[o] \cup Keys(o) \cup Values(o)
Strong(o) ==
  held[o] \cup (IF "k" \in mode[o] THEN {} ELSE Keys(o))
          \cup (IF "v" \in mode[o] THEN {} ELSE Values(o))

\* The objects that S leads to by the references of refs.
ReachedFrom(S, refs(_)) ==
  LET closed == {T \in {S \cup M : M \in SUBSET (Obj \ S)} : \A q \in T : refs(q) \subseteq T}
  IN  {o \in Obj : \A T \in closed : o \in T}

Roots         == {Main, Registry, running} \cup tmudata
Accessible    == ReachedFrom(Roots, Edges)
StrongReached == ReachedFrom(Roots, Strong)

\* What the program can get at by strong references, but not through a userdata
\* that waits for its finalizer.
InUse == ReachedFrom({Main, Registry, running}, LAMBDA q : IF q \in tmudata THEN {} ELSE Strong(q))

-----------------------------------------------------------------------------
\* The program makes new objects and passes on references it can get at; a
\* string it can always make again.
Program ==
  LET new   == {o \in Obj : kind[o] = "free" /\ kind'[o] # "free"}
      known == Accessible \cup new \cup {s \in Obj : kind[s] = "string"}
  IN /\ UNCHANGED <<fin, tmudata>>
     /\ \A o \in Allocated : kind'[o] = kind[o]
     /\ \A o \in Obj : \A r \in Edges(o)' : r \in Edges(o) \/ r \in known
     /\ \A o \in Obj :
          \/ /\ held'[o] = held[o] /\ ents'[o] = ents[o]
             /\ mode'[o] = mode[o] /\ gctm'[o] = gctm[o]
          \/ o \in known
     /\ running' = running \/ running' \in known

\* Some userdata that only weak references still lead to, or others that wait for
\* their finalizers, are finalized; the ones with a finalizer are kept for it, and
\* weak tables lose the pairs whose key or value goes or was finalized.
Decide ==
  /\ UNCHANGED <<kind, held, mode, gctm, running>>
  /\ \E U \in SUBSET {u \in Obj \ InUse : kind[u] = "udata" /\ ~fin[u]} :
       /\ fin' = [o \in Obj |-> fin[o] \/ o \in U]
       /\ tmudata' = tmudata \cup {u \in U : gctm[u]}
  /\ \A t \in Obj :
       /\ ents'[t] \subseteq ents[t]
       /\ \A e \in ents[t] \ ents'[t] :
            \/ e[1] \notin StrongReached /\ "k" \in mode[t]
            \/ e[2] \notin StrongReached /\ "v" \in mode[t]
            \/ e[2] # NIL /\ fin'[e[2]] /\ mode[t] # {}
            \/ t \notin StrongReached

\* Finalizers run one by one, in no promised order.
Finalize ==
  /\ UNCHANGED <<kind, ents, mode, gctm, running, fin>>
  /\ \E u \in tmudata :
       /\ tmudata' = tmudata \ {u}
       /\ \A o \in Obj : held'[o] \in {held[o], held[o] \cup {u}}
       /\ \A o \in Obj \ {running} : held'[o] = held[o]

\* The memory of o is freed.
Free(o) ==
  /\ o \in Allocated
  /\ kind' = [kind EXCEPT ![o] = "free"]
  /\ o \notin Accessible
  /\ kind[o] = "udata" /\ gctm[o] => fin[o]
  /\ held' = [held EXCEPT ![o] = {}]
  /\ ents' = [ents EXCEPT ![o] = {}]
  /\ mode' = [mode EXCEPT ![o] = {}]
  /\ gctm' = [gctm EXCEPT ![o] = FALSE]
  /\ fin'  = [fin EXCEPT ![o] = FALSE]
  /\ UNCHANGED <<running, tmudata>>

-----------------------------------------------------------------------------
Init ==
  /\ kind = [o \in Obj |-> IF o = Main THEN "thread"
                           ELSE IF o = Registry THEN "table" ELSE "free"]
  /\ held = [o \in Obj |-> {}] /\ ents = [o \in Obj |-> {}]
  /\ mode = [o \in Obj |-> {}] /\ gctm = [o \in Obj |-> FALSE]
  /\ running = Main
  /\ fin = [o \in Obj |-> FALSE] /\ tmudata = {}

Next == Program \/ Decide \/ Finalize \/ \E o \in Obj : Free(o)

Spec == Init /\ [][Next]_vars
=============================================================================

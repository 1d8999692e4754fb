-------------------------------- MODULE MCGC --------------------------------
(* Small heaps for TLC: the collector treats the objects of the program *)
(* alike, so they are a symmetry set.                                   *)
EXTENDS LuaGC, TLC

Symmetry == Permutations(Obj \ {Main, Registry})

WeakKeys  == {{}, {"k"}}
WeakModes == {{}, {"k"}, {"v"}, {"k", "v"}}

\* Two families of heaps: objects of every kind but userdata, among them one
\* coroutine, with one slot on its stack, and one string, and no weak table; a
\* table, of any mode, and a userdata.
Families ==
  LET Count(k) == Cardinality({o \in Obj : kind[o] = k})
      coros    == {t \in Obj \ {Main} : kind[t] = "thread"}
  IN  \/ /\ Count("udata") = 0 /\ Count("string") <= 1 /\ \A t \in Obj : mode[t] = {}
         /\ Cardinality(coros) <= 1 /\ \A t \in coros : Cardinality(held[t]) <= 1
      \/ /\ Count("udata") <= 1 /\ Count("table") <= 2
         /\ Count("closure") = 0 /\ Count("string") = 0 /\ coros = {}

\* The sweep meets what was made last first, the registry and the main thread at
\* the end; but the userdata are linked behind the main thread (lstring.c:107).
SweepOrder ==
  LET swept    == sweepgc \ sweepgc'
      userdata == {o \in Obj : kind[o] = "udata"}
  IN  /\ Registry \in swept => sweepgc' \subseteq {Main} \cup userdata
      /\ Main \in swept => sweepgc' \subseteq userdata
      /\ swept \cap userdata # {} => Main \notin sweepgc'

\* A heap with one table, that the registry does not know of, and userdata ...
OneTable ==
  /\ Cardinality({o \in Obj : kind[o] = "table"}) <= 2
  /\ \A t \in Obj : kind[t] = "table" => held[t] = {}
  /\ ents[Registry] = {}

\* ... and a program that leaves it alone while the collector is at work, and
\* starts a full collection in the finalize phase only.
InTurns ==
  /\ ~Idle => \A o \in Obj : /\ ents'[o] \subseteq ents[o]
                            /\ kind'[o] = kind[o] => UNCHANGED <<held[o], mode[o], gctm[o]>>
  /\ full' = "sweep" => gcstate = "finalize"
=============================================================================

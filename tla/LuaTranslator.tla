--------------------------- MODULE LuaTranslator ---------------------------
(***************************************************************************)
(* ObjectTranslator.cs: objects of C# that a Lua program sees as userdata. *)
(* A userdata is an int, the index of its object in objects; objectsBackMap *)
(* leads back from the object to the index, and luaNet_objects, a table of  *)
(* the registry with weak values, from the index to the userdata.          *)
(*                                                                         *)
(* The three are changed at different times.  The collector takes a        *)
(* userdata out of luaNet_objects when it finds it unreachable and runs    *)
(* its finalizer, which takes the index out of the other two, some time    *)
(* later; pushing an object adds it to these two first, and the collector  *)
(* may run before the userdata is there.                                   *)
(*                                                                         *)
(* Each index is given to one userdata, which is therefore not told from   *)
(* it.  Numbers, strings, booleans, tables, functions and null, which      *)
(* ObjectTranslator.push converts or leaves to others, are left out.       *)
(***************************************************************************)
EXTENDS Integers, Sequences

CONSTANTS
  Object,     \* objects of C#
  Generated,  \* ... of the classes that make_object derives from a table
  EqualTo,    \* Equals and GetHashCode: the first of the objects equal to one
  NULL,
  Reentrant,  \* whether the program has finalizers, written in Lua, that
              \* push objects while the collector runs inside a push
  Failing,    \* ... or that fail
  MaxId,      \* bound: the indices that are given out
  MaxDepth    \* bound: pushes in progress at a time

Index   == 0..MaxId-1
NoIndex == -1

ASSUME ObjectAssumption == Generated \subseteq Object /\ NULL \notin Object
ASSUME EqualAssumption  == EqualTo \in [Object -> Object]
                           /\ \A o \in Generated : EqualTo[o] = o
ASSUME FlagAssumption   == Reentrant \in BOOLEAN /\ Failing \in BOOLEAN
ASSUME BoundAssumption  == MaxId \in Nat /\ MaxDepth \in Nat \ {0}

VARIABLES
  objects,    \* index -> object
  backmap,    \* objectsBackMap: object -> index
  nextObj,    \* the next index
  weaktab,    \* luaNet_objects: the indices whose userdata it has
  tmudata,    \* userdata that wait for their finalizer
  held,       \* <<o, i>>: the program, having pushed o, got i and can reach it
  frames      \* the pushes in progress, the innermost last

maps == <<objects, backmap, nextObj>>
vars == <<maps, weaktab, tmudata, held, frames>>

Userdata == {p[2] : p \in held}

\* The Lua program, or C# called by it, runs: outside of any push, or in a
\* finalizer that the collector called.
Running == frames = <<>> \/ Reentrant

-----------------------------------------------------------------------------
(* Both maps.                                                              *)

IndexOf(o) == backmap[EqualTo[o]]

\* getNetObject, getRawNetObject and getObject, of a userdata.
getNetObject(i) == objects[i]

\* Mutant of NewIndex: an index that was freed is given out again.
NewIndexFreed ==
  IF \E i \in Index : objects[i] = NULL
  THEN CHOOSE i \in Index : objects[i] = NULL /\ \A j \in 0..i-1 : objects[j] # NULL
  ELSE nextObj

NewIndex == nextObj

\* addObject, after both maps became objs and back.
addObject(objs, back, o) ==
  /\ nextObj \in Index
  /\ objects' = [objs EXCEPT ![NewIndex] = o]
  /\ backmap' = [back EXCEPT ![EqualTo[o]] = NewIndex]
  /\ nextObj' = nextObj + 1

-----------------------------------------------------------------------------
(* Pushing an object.                                                      *)

Frame(o, i, b) == [obj |-> o, index |-> i, base |-> b]

\* pushObject finds the userdata in luaNet_objects.
PushFound(o) ==
  /\ Running
  /\ IndexOf(o) \in weaktab
  /\ held' = held \cup {<<o, IndexOf(o)>>}
  /\ UNCHANGED <<maps, weaktab, tmudata, frames>>

\* Mutant of PushStart: collectObject is not called.
PushStartKeeps(o) ==
  /\ Running /\ Len(frames) < MaxDepth
  /\ IndexOf(o) \notin weaktab
  /\ addObject(objects, backmap, o)
  /\ frames' = Append(frames, Frame(o, NewIndex, FALSE))
  /\ UNCHANGED <<weaktab, tmudata, held>>

\* It does not: the object is new, or its userdata awaits the finalizer, and
\* then pushObject does its work.  pushNewObject goes on to create a userdata.
PushStart(o) ==
  /\ Running /\ Len(frames) < MaxDepth
  /\ IndexOf(o) \notin weaktab
  /\ IF IndexOf(o) = NoIndex
     THEN addObject(objects, backmap, o)
     ELSE addObject([objects EXCEPT ![IndexOf(o)] = NULL],
                    [backmap EXCEPT ![EqualTo[o]] = NoIndex], o)
  /\ frames' = Append(frames, Frame(o, NewIndex, FALSE))
  /\ UNCHANGED <<weaktab, tmudata, held>>

\* registerTable pushes an instance that it has just made, by pushObject.
Register(o) ==
  /\ Running /\ Len(frames) < MaxDepth
  /\ \A i \in Index : objects[i] # o
  /\ nextObj + 1 \in Index
  /\ addObject(objects, backmap, o)
  /\ frames' = Append(frames, Frame(o, NewIndex, TRUE))
  /\ UNCHANGED <<weaktab, tmudata, held>>

\* The rest of pushNewObject, after which the program has the userdata; in
\* registerTable the object then gets another index, for the field base.
PushEnd ==
  /\ frames # <<>>
  /\ LET f == frames[Len(frames)]
         outer == SubSeq(frames, 1, Len(frames) - 1)
     IN
     /\ weaktab' = weaktab \cup {f.index}
     /\ held' = held \cup {<<f.obj, f.index>>}
     /\ \/ /\ ~f.base
           /\ frames' = outer
           /\ UNCHANGED maps
        \/ /\ f.base
           /\ addObject(objects, backmap, f.obj)
           /\ frames' = Append(outer, Frame(f.obj, NewIndex, FALSE))
  /\ UNCHANGED tmudata

\* A finalizer fails: the error leaves GCTM, lua_newuserdata and the push.
PushAbort ==
  /\ Failing
  /\ frames # <<>>
  /\ frames' = SubSeq(frames, 1, Len(frames) - 1)
  /\ UNCHANGED <<maps, weaktab, tmudata, held>>

-----------------------------------------------------------------------------
(* The program and the collector.                                          *)

\* The last reference of the program to a userdata goes.
Lose(i) ==
  /\ Running
  /\ i \in Userdata
  /\ held' = {p \in held : p[2] # i}
  /\ UNCHANGED <<maps, weaktab, tmudata, frames>>

\* The atomic step finds a userdata unreachable and clears weak tables of it.
Clear(i) ==
  /\ i \in weaktab \ Userdata
  /\ weaktab' = weaktab \ {i}
  /\ tmudata' = tmudata \cup {i}
  /\ UNCHANGED <<maps, held, frames>>

\* Mutant of Finalize: objectsBackMap keeps the object.
FinalizeHalf(i) ==
  /\ i \in tmudata
  /\ tmudata' = tmudata \ {i}
  /\ objects' = [objects EXCEPT ![i] = NULL]
  /\ UNCHANGED <<backmap, nextObj, weaktab, held, frames>>

\* Mutant of Finalize: the finalizer does nothing.
FinalizeNothing(i) ==
  /\ i \in tmudata
  /\ tmudata' = tmudata \ {i}
  /\ UNCHANGED <<maps, weaktab, held, frames>>

\* GCTM calls the finalizer, MetaFunctions.collectObject.
Finalize(i) ==
  /\ i \in tmudata
  /\ tmudata' = tmudata \ {i}
  /\ \/ /\ objects[i] = NULL
        /\ UNCHANGED <<objects, backmap>>
     \/ /\ objects[i] # NULL
        /\ objects' = [objects EXCEPT ![i] = NULL]
        /\ backmap' = [backmap EXCEPT ![EqualTo[objects[i]]] = NoIndex]
  /\ UNCHANGED <<nextObj, weaktab, held, frames>>

-----------------------------------------------------------------------------
Init ==
  /\ objects = [i \in Index |-> NULL]
  /\ backmap = [o \in Object |-> NoIndex]
  /\ nextObj = 0
  /\ weaktab = {} /\ tmudata = {}
  /\ held = {}
  /\ frames = <<>>

Collector == \E i \in Index : Clear(i) \/ Finalize(i)

Next ==
  \/ \E o \in Object \ Generated : PushFound(o) \/ PushStart(o)
  \/ \E o \in Generated : Register(o)
  \/ PushEnd \/ PushAbort
  \/ \E i \in Index : Lose(i)
  \/ Collector

Spec == Init /\ [][Next]_vars

\* Every allocation of the program pays for some work of the collector, and a
\* push, once the collector is done, comes to its end.
Fairness ==
  /\ \A i \in Index : WF_vars(Clear(i)) /\ WF_vars(Finalize(i))
  /\ WF_vars(PushEnd)

FairSpec == Spec /\ Fairness

-----------------------------------------------------------------------------
(* Properties.                                                             *)

TypeOK ==
  /\ objects \in [Index -> Object \cup {NULL}]
  /\ backmap \in [Object -> Index \cup {NoIndex}]
  /\ nextObj \in 0..MaxId
  /\ weaktab \subseteq Index /\ tmudata \subseteq Index
  /\ held \subseteq Object \X Index
  /\ frames \in Seq([obj : Object, index : Index, base : BOOLEAN])
  /\ Len(frames) <= MaxDepth

\* "Gets the CLR object in the index positon of the Lua stack"
\* (ObjectTranslator.cs:766): a userdata that the program can reach has an
\* object, so that objects[udata] does not throw, whatever was collected.
HeldKnown == \A i \in Userdata : getNetObject(i) # NULL

\* "Pushes a CLR object into the Lua stack as an userdata"
\* (ObjectTranslator.cs:527): what the program gets for an object stands for
\* that object, then and as long as it can reach it.
PushesSelf ==
  \A p \in held : getNetObject(p[2]) \in {p[1], NULL}

\* objectsBackMap is the inverse of objects, but for the two indices that an
\* object of make_object has: pushObject finds every object that has one.
Inverse ==
  /\ \A i \in Index : objects[i] \in Object \ Generated => IndexOf(objects[i]) = i
  /\ \A o \in Object : backmap[o] # NoIndex =>
       objects[backmap[o]] # NULL /\ EqualTo[objects[backmap[o]]] = o

\* Indices are used once: before its turn an index is nowhere, and a userdata
\* is reachable, or waits for its finalizer, or neither, but has an object as
\* long as luaNet_objects leads to it.
Lifecycle ==
  /\ \A i \in Index : i >= nextObj => objects[i] = NULL /\ i \notin weaktab \cup tmudata
  /\ weaktab \cap tmudata = {}
  /\ Userdata \subseteq weaktab
  /\ \A i \in weaktab : objects[i] # NULL

\* The push in progress has its index to itself.
FramesOwn ==
  \A n \in 1..Len(frames) :
    /\ n = 1
    /\ frames[n].index < nextObj
    /\ frames[n].index \notin weaktab \cup tmudata
    /\ objects[frames[n].index] = frames[n].obj
    /\ frames[n].base => frames[n].obj \in Generated

Stands == \A p \in held : getNetObject(p[2]) = p[1]

IInv == TypeOK /\ Inverse /\ Lifecycle /\ FramesOwn /\ Stands

\* Maps, weak table, finalizers and pushes together implement HandleTable.
Table == INSTANCE HandleTable WITH
           handles <- [i \in Userdata |-> getNetObject(i)]
ImplementsHandles == Table!Spec

\* The maps keep no object of C# alive forever: once the program has lost a
\* userdata, its index leaves objects, unless the program gets the userdata
\* back by pushing the object in time.  (The index of a push that failed has
\* no userdata, and stays until the object is pushed again.)
EventuallyReleased ==
  \A i \in Index :
    (i \in (weaktab \cup tmudata) \ Userdata)
      ~> (objects[i] = NULL \/ i \in Userdata)
=============================================================================

------------------------ MODULE LuaTranslator_proofs ------------------------
(* Proofs about the object translator, for objects that are equal only to   *)
(* themselves and for programs whose finalizers push no object while the    *)
(* collector runs inside a push.  MCTranslator shows that both are needed.  *)
EXTENDS LuaTranslator, TLAPS

Distinct == \A o \in Object : EqualTo[o] = o

-----------------------------------------------------------------------------
(* Both maps, whatever the rest of the state.                              *)

\* The maps objs and back are each other's inverse, and the indices from n on
\* are free.
MapsOK(objs, back, n) ==
  /\ objs \in [Index -> Object \cup {NULL}]
  /\ back \in [Object -> Index \cup {NoIndex}]
  /\ \A i \in Index : objs[i] \in Object \ Generated => back[objs[i]] = i
  /\ \A o \in Object : back[o] # NoIndex => objs[back[o]] = o
  /\ \A i \in Index : i >= n => objs[i] = NULL

\* addObject keeps them so, for an object that has no index, or may have two.
LEMMA AddOK ==
  ASSUME Distinct, NEW objs, NEW back, NEW o \in Object,
         nextObj \in Nat, MapsOK(objs, back, nextObj),
         back[o] = NoIndex \/ o \in Generated,
         addObject(objs, back, o)
  PROVE  /\ MapsOK(objects', backmap', nextObj')
         /\ objects' = [objs EXCEPT ![nextObj] = o]
         /\ nextObj \in Index /\ nextObj' = nextObj + 1 /\ nextObj' \in 0..MaxId
  <1> USE ObjectAssumption, EqualAssumption, BoundAssumption
  <1>1. /\ nextObj \in Index
        /\ objects' = [objs EXCEPT ![nextObj] = o]
        /\ backmap' = [back EXCEPT ![o] = nextObj]
        /\ nextObj' = nextObj + 1
    BY DEF addObject, NewIndex, Distinct
  <1>2. objs[nextObj] = NULL
    BY <1>1 DEF MapsOK, Index
  <1>3. \A i \in Index : objects'[i] \in Object \ Generated => backmap'[objects'[i]] = i
    <2> SUFFICES ASSUME NEW i \in Index, objects'[i] \in Object \ Generated
                 PROVE  backmap'[objects'[i]] = i
      OBVIOUS
    <2>1. CASE i = nextObj
      BY <1>1, <2>1 DEF MapsOK
    <2>2. CASE i # nextObj
      <3>1. objects'[i] = objs[i] /\ back[objs[i]] = i
        BY <1>1, <2>2 DEF MapsOK
      <3>2. objs[i] # o
        BY <3>1 DEF Index, NoIndex
      <3> QED
        BY <1>1, <3>1, <3>2 DEF MapsOK
    <2> QED
      BY <2>1, <2>2
  <1>4. \A p \in Object : backmap'[p] # NoIndex => objects'[backmap'[p]] = p
    <2> SUFFICES ASSUME NEW p \in Object, backmap'[p] # NoIndex
                 PROVE  objects'[backmap'[p]] = p
      OBVIOUS
    <2>1. CASE p = o
      BY <1>1, <2>1 DEF MapsOK
    <2>2. CASE p # o
      <3>1. backmap'[p] = back[p] /\ objs[back[p]] = p /\ back[p] \in Index
        BY <1>1, <2>2 DEF MapsOK
      <3>2. back[p] # nextObj
        BY <1>2, <3>1
      <3> QED
        BY <1>1, <3>1, <3>2 DEF MapsOK
    <2> QED
      BY <2>1, <2>2
  <1> QED
    BY <1>1, <1>3, <1>4 DEF MapsOK, Index

\* collectObject of index k, both variants, keeps them so.
LEMMA CollectOK ==
  ASSUME NEW objs, NEW back, NEW n, NEW k \in Index,
         MapsOK(objs, back, n), objs[k] # NULL
  PROVE  MapsOK([objs EXCEPT ![k] = NULL], [back EXCEPT ![objs[k]] = NoIndex], n)
  <1> USE ObjectAssumption, BoundAssumption
  <1> DEFINE O == [objs EXCEPT ![k] = NULL]
             B == [back EXCEPT ![objs[k]] = NoIndex]
  <1>0. objs[k] \in Object
    BY DEF MapsOK
  <1>1. O \in [Index -> Object \cup {NULL}] /\ B \in [Object -> Index \cup {NoIndex}]
    BY DEF MapsOK
  <1>2. ASSUME NEW i \in Index, O[i] \in Object \ Generated PROVE B[O[i]] = i
    <2>1. i # k /\ O[i] = objs[i] /\ back[objs[i]] = i
      BY <1>2 DEF MapsOK
    <2>2. objs[i] # objs[k]
      BY <1>2, <2>1 DEF MapsOK
    <2> QED
      BY <1>0, <1>2, <2>1, <2>2 DEF MapsOK
  <1>3. ASSUME NEW p \in Object, B[p] # NoIndex PROVE O[B[p]] = p
    <2>1. p # objs[k] /\ B[p] = back[p] /\ objs[back[p]] = p /\ back[p] \in Index
      BY <1>0, <1>3 DEF MapsOK
    <2> QED
      BY <2>1 DEF MapsOK
  <1>4. \A i \in Index : i >= n => O[i] = NULL
    BY DEF MapsOK
  <1> QED
    BY <1>1, <1>2, <1>3, <1>4 DEF MapsOK

\* What IInv says of the maps is MapsOK.
LEMMA MapsInv ==
  ASSUME Distinct, TypeOK
  PROVE  Inverse /\ (\A i \in Index : i >= nextObj => objects[i] = NULL)
           <=> MapsOK(objects, backmap, nextObj)
  <1> USE ObjectAssumption DEF TypeOK
  <1>1. Inverse => \A o \in Object : backmap[o] # NoIndex => objects[backmap[o]] = o
    BY DEF Inverse, Distinct
  <1>2. Inverse => \A i \in Index : objects[i] \in Object \ Generated
                                    => backmap[objects[i]] = i
    BY DEF Inverse, Distinct, IndexOf
  <1>3. MapsOK(objects, backmap, nextObj) => Inverse
    BY DEF Inverse, Distinct, IndexOf, MapsOK
  <1> QED
    BY <1>1, <1>2, <1>3 DEF MapsOK

-----------------------------------------------------------------------------
LEMMA InitInv == Distinct /\ Init => IInv
  <1> USE ObjectAssumption, EqualAssumption, BoundAssumption DEF Init
  <1>1. Init => TypeOK
    BY DEF TypeOK, Index
  <1>2. Init => Inverse
    BY DEF Inverse, NoIndex
  <1>3. Init => Lifecycle /\ FramesOwn /\ Stands
    BY DEF Lifecycle, FramesOwn, Stands, Userdata
  <1> QED
    BY <1>1, <1>2, <1>3 DEF IInv

LEMMA ElementOf ==
  ASSUME NEW S, NEW s \in Seq(S), NEW n \in 1..Len(s)
  PROVE  s[n] \in S
  OBVIOUS

\* One push at a time: the frame is there or it is not.
LEMMA OneFrame ==
  ASSUME ~Reentrant, IInv
  PROVE  /\ Running <=> frames = <<>>
         /\ frames # <<>> =>
              /\ Len(frames) = 1
              /\ frames[1] \in [obj : Object, index : Index, base : BOOLEAN]
              /\ SubSeq(frames, 1, Len(frames) - 1) = <<>>
  <1>1. frames \in Seq([obj : Object, index : Index, base : BOOLEAN])
    BY DEF IInv, TypeOK
  <1>2. frames # <<>> => Len(frames) = 1
    <2>1. Len(frames) \in Nat /\ (frames # <<>> => Len(frames) # 0)
      BY <1>1
    <2>2. \A n \in 1..Len(frames) : n = 1
      BY DEF IInv, FramesOwn
    <2>3. frames # <<>> => Len(frames) \in 1..Len(frames)
      BY <2>1
    <2> QED
      BY <2>2, <2>3
  <1>3. ASSUME frames # <<>>
        PROVE  /\ frames[1] \in [obj : Object, index : Index, base : BOOLEAN]
               /\ Len(frames) - 1 = 0
    <2>1. 1 \in 1..Len(frames)
      BY <1>2, <1>3
    <2>2. frames[1] \in [obj : Object, index : Index, base : BOOLEAN]
      BY <1>1, <2>1, ElementOf
    <2> QED
      BY <1>2, <1>3, <2>2
  <1>4. SubSeq(frames, 1, 0) = <<>>
    BY <1>1
  <1> QED
    BY <1>2, <1>3, <1>4 DEF Running

\* A push begins: after addObject, on maps that lack at most some index k
\* that the collector was done with.
LEMMA BeginInv ==
  ASSUME ~Reentrant, Distinct, IInv, frames = <<>>,
         NEW objs, NEW back, NEW o \in Object, NEW b \in BOOLEAN,
         MapsOK(objs, back, nextObj),
         \A i \in weaktab : objs[i] = objects[i],
         back[o] = NoIndex \/ o \in Generated, b => o \in Generated,
         addObject(objs, back, o),
         frames' = Append(frames, Frame(o, NewIndex, b)),
         UNCHANGED <<weaktab, tmudata, held>>
  PROVE  IInv'
  <1> USE ObjectAssumption, EqualAssumption, BoundAssumption
  <1>1. TypeOK /\ Lifecycle /\ Stands
    BY DEF IInv
  <1>2. /\ MapsOK(objects', backmap', nextObj')
        /\ objects' = [objs EXCEPT ![nextObj] = o]
        /\ nextObj \in Index /\ nextObj' = nextObj + 1 /\ nextObj' \in 0..MaxId
    BY <1>1, AddOK DEF TypeOK
  <1>3. frames' = <<Frame(o, nextObj, b)>>
    BY DEF NewIndex
  <1>4. TypeOK'
    <2>1. Frame(o, nextObj, b) \in [obj : Object, index : Index, base : BOOLEAN]
      BY <1>2 DEF Frame
    <2> QED
      BY <1>1, <1>2, <1>3, <2>1 DEF TypeOK, MapsOK
  <1>5. Inverse' /\ \A i \in Index : i >= nextObj' => objects'[i] = NULL
    <2>1. \A i \in Index : objects'[i] \in Object \ Generated
                           => backmap'[EqualTo[objects'[i]]] = i
      BY <1>2 DEF MapsOK, Distinct
    <2>2. \A p \in Object : backmap'[p] # NoIndex =>
            objects'[backmap'[p]] # NULL /\ EqualTo[objects'[backmap'[p]]] = p
      BY <1>2 DEF MapsOK, Distinct
    <2> QED
      BY <1>2, <2>1, <2>2 DEF Inverse, IndexOf, MapsOK
  <1>6. nextObj \notin weaktab \cup tmudata
    BY <1>1, <1>2 DEF Lifecycle, Index
  <1>7. \A i \in weaktab : objects'[i] = objects[i]
    BY <1>1, <1>2, <1>6 DEF TypeOK, MapsOK
  <1>8. Lifecycle'
    BY <1>1, <1>2, <1>5, <1>7 DEF Lifecycle, Userdata, TypeOK, Index
  <1>9. Stands'
    <2>1. \A p \in held : p[2] \in weaktab
      BY <1>1 DEF Lifecycle, Userdata
    <2> QED
      BY <1>1, <1>7, <2>1 DEF Stands, getNetObject
  <1>10. FramesOwn'
    <2>1. Len(frames') = 1 /\ frames'[1] = Frame(o, nextObj, b)
      BY <1>3
    <2>2. objects'[nextObj] = o
      BY <1>2 DEF MapsOK
    <2> QED
      BY <1>2, <1>6, <2>1, <2>2 DEF FramesOwn, Frame, Index
  <1> QED
    BY <1>4, <1>5, <1>8, <1>9, <1>10 DEF IInv

LEMMA PushFoundInv ==
  ASSUME ~Reentrant, Distinct, IInv, NEW o \in Object \ Generated, PushFound(o)
  PROVE  IInv'
  <1> USE ObjectAssumption, EqualAssumption, BoundAssumption
  <1>1. TypeOK /\ Inverse /\ Lifecycle /\ FramesOwn /\ Stands
    BY DEF IInv
  <1> DEFINE k == backmap[o]
  <1>2. /\ k \in weaktab /\ k \in Index /\ objects[k] = o
        /\ held' = held \cup {<<o, k>>}
        /\ UNCHANGED <<maps, weaktab, tmudata, frames>>
    BY <1>1 DEF PushFound, IndexOf, Distinct, TypeOK, Inverse, Index, NoIndex
  <1> HIDE DEF k
  <1>3. TypeOK' /\ Inverse' /\ FramesOwn'
    BY <1>1, <1>2 DEF TypeOK, Inverse, FramesOwn, IndexOf, maps
  <1>4. Lifecycle' /\ Stands'
    BY <1>1, <1>2 DEF Lifecycle, Stands, Userdata, getNetObject, maps
  <1> QED
    BY <1>3, <1>4 DEF IInv

LEMMA PushStartInv ==
  ASSUME ~Reentrant, Distinct, IInv, NEW o \in Object \ Generated, PushStart(o)
  PROVE  IInv'
  <1> USE ObjectAssumption, EqualAssumption
  <1>1. TypeOK /\ Inverse /\ Lifecycle
    BY DEF IInv
  <1>2. frames = <<>> /\ FALSE \in BOOLEAN
    BY OneFrame DEF PushStart
  <1>3. MapsOK(objects, backmap, nextObj)
    BY <1>1, MapsInv DEF Lifecycle
  <1>4. IndexOf(o) = backmap[o] /\ EqualTo[o] = o
    BY DEF IndexOf, Distinct
  <1>5. CASE backmap[o] = NoIndex
    BY <1>2, <1>3, <1>4, <1>5, BeginInv DEF PushStart
  <1>6. CASE backmap[o] # NoIndex
    <2> DEFINE k == backmap[o]
               O == [objects EXCEPT ![k] = NULL]
               B == [backmap EXCEPT ![o] = NoIndex]
    <2>1. k \in Index /\ objects[k] = o /\ k \notin weaktab
      BY <1>1, <1>3, <1>4, <1>6 DEF MapsOK, PushStart
    <2>2. addObject(O, B, o)
      BY <1>4, <1>6 DEF PushStart
    <2>3. MapsOK(O, B, nextObj)
      BY <1>3, <2>1, CollectOK
    <2>4. B[o] = NoIndex /\ \A i \in weaktab : O[i] = objects[i]
      BY <1>1, <2>1 DEF TypeOK
    <2>5. frames' = Append(frames, Frame(o, NewIndex, FALSE))
          /\ UNCHANGED <<weaktab, tmudata, held>>
      BY DEF PushStart
    <2> HIDE DEF O, B
    <2> QED
      BY <1>2, <2>2, <2>3, <2>4, <2>5, BeginInv
  <1> QED
    BY <1>5, <1>6

LEMMA RegisterInv ==
  ASSUME ~Reentrant, Distinct, IInv, NEW o \in Generated, Register(o)
  PROVE  IInv'
  <1>1. frames = <<>> /\ TRUE \in BOOLEAN /\ o \in Object
    BY OneFrame, ObjectAssumption DEF Register
  <1>2. MapsOK(objects, backmap, nextObj)
    BY MapsInv DEF IInv, Lifecycle
  <1> QED
    BY <1>1, <1>2, BeginInv DEF Register

\* The push ends: its frame goes, its userdata is there.
LEMMA EndInv ==
  ASSUME ~Reentrant, Distinct, IInv, frames # <<>>, PushEnd,
         NEW f, f = frames[1]
  PROVE  /\ f \in [obj : Object, index : Index, base : BOOLEAN]
         /\ objects[f.index] = f.obj /\ f.index < nextObj
         /\ f.index \notin weaktab \cup tmudata
         /\ weaktab' = weaktab \cup {f.index}
         /\ held' = held \cup {<<f.obj, f.index>>}
         /\ tmudata' = tmudata
         /\ f.base => f.obj \in Generated /\ addObject(objects, backmap, f.obj)
                      /\ frames' = <<Frame(f.obj, NewIndex, FALSE)>>
         /\ ~f.base => frames' = <<>> /\ UNCHANGED maps
  <1>1. /\ Len(frames) = 1 /\ f \in [obj : Object, index : Index, base : BOOLEAN]
        /\ SubSeq(frames, 1, Len(frames) - 1) = <<>>
    BY OneFrame
  <1>2. 1 \in 1..Len(frames)
    BY <1>1
  <1>3. /\ f.index < nextObj
        /\ f.index \notin weaktab \cup tmudata
        /\ objects[f.index] = f.obj
        /\ f.base => f.obj \in Generated
    BY <1>2 DEF IInv, FramesOwn
  <1>4. /\ weaktab' = weaktab \cup {f.index}
        /\ held' = held \cup {<<f.obj, f.index>>}
        /\ tmudata' = tmudata
        /\ \/ ~f.base /\ frames' = <<>> /\ UNCHANGED maps
           \/ /\ f.base /\ addObject(objects, backmap, f.obj)
              /\ frames' = Append(<<>>, Frame(f.obj, NewIndex, FALSE))
    BY <1>1 DEF PushEnd
  <1>5. \A x : Append(<<>>, x) = <<x>>
    OBVIOUS
  <1> QED
    BY <1>1, <1>3, <1>4, <1>5

LEMMA PushEndInv ==
  ASSUME ~Reentrant, Distinct, IInv, PushEnd
  PROVE  IInv'
  <1> USE ObjectAssumption, EqualAssumption, BoundAssumption
  <1> DEFINE f == frames[1]
  <1>1. TypeOK /\ Inverse /\ Lifecycle /\ Stands /\ frames # <<>>
    BY DEF IInv, PushEnd
  <1>0. f = frames[1]
    OBVIOUS
  <1> HIDE DEF f
  <1>2. /\ f.obj \in Object /\ f.index \in Index /\ f.base \in BOOLEAN
        /\ objects[f.index] = f.obj /\ f.index < nextObj
        /\ f.index \notin weaktab \cup tmudata
        /\ weaktab' = weaktab \cup {f.index}
        /\ held' = held \cup {<<f.obj, f.index>>}
        /\ tmudata' = tmudata
        /\ f.base => f.obj \in Generated /\ addObject(objects, backmap, f.obj)
                     /\ frames' = <<Frame(f.obj, NewIndex, FALSE)>>
        /\ ~f.base => frames' = <<>> /\ UNCHANGED maps
    <2>1. f \in [obj : Object, index : Index, base : BOOLEAN]
      BY <1>0, <1>1, EndInv
    <2> QED
      BY <1>0, <1>1, <2>1, EndInv
  <1>3. CASE ~f.base
    <2>1. frames' = <<>> /\ UNCHANGED maps
      BY <1>2, <1>3
    <2>2. TypeOK'
      BY <1>1, <1>2, <2>1 DEF TypeOK, maps
    <2>3. Inverse' /\ FramesOwn'
      <3>1. Inverse'
        BY <1>1, <2>1 DEF Inverse, IndexOf, maps
      <3>2. FramesOwn'
        BY <2>1 DEF FramesOwn
      <3> QED
        BY <3>1, <3>2
    <2>4. Lifecycle'
      <3>1. UNCHANGED <<objects, nextObj>>
        BY <2>1 DEF maps
      <3>2. \A i \in Index : i >= nextObj' => objects'[i] = NULL /\ i \notin weaktab' \cup tmudata'
        BY <1>1, <1>2, <3>1 DEF Lifecycle, Index
      <3>3. \A i \in weaktab' : objects'[i] # NULL
        BY <1>1, <1>2, <3>1 DEF Lifecycle
      <3>4. weaktab' \cap tmudata' = {} /\ Userdata' \subseteq weaktab'
        BY <1>1, <1>2 DEF Lifecycle, Userdata
      <3> QED
        BY <3>2, <3>3, <3>4 DEF Lifecycle
    <2>5. Stands'
      BY <1>1, <1>2, <2>1 DEF Stands, getNetObject, maps
    <2> QED
      BY <2>2, <2>3, <2>4, <2>5 DEF IInv
  <1>4. CASE f.base
    <2>1. MapsOK(objects, backmap, nextObj)
      BY <1>1, MapsInv DEF Lifecycle
    <2>2. /\ MapsOK(objects', backmap', nextObj')
          /\ objects' = [objects EXCEPT ![nextObj] = f.obj]
          /\ nextObj \in Index /\ nextObj' = nextObj + 1 /\ nextObj' \in 0..MaxId
      BY <1>1, <1>2, <1>4, <2>1, AddOK DEF TypeOK
    <2>3. frames' = <<Frame(f.obj, nextObj, FALSE)>>
      BY <1>2, <1>4 DEF NewIndex
    <2>4. nextObj \notin weaktab' \cup tmudata
      BY <1>1, <1>2, <2>2 DEF Lifecycle, Index
    <2>5. \A i \in weaktab' : i # nextObj /\ objects'[i] = objects[i]
      BY <1>1, <1>2, <2>2, <2>4 DEF TypeOK
    <2>6. TypeOK'
      <3>1. Frame(f.obj, nextObj, FALSE) \in [obj : Object, index : Index, base : BOOLEAN]
        BY <1>2, <2>2 DEF Frame
      <3>2. weaktab' \subseteq Index /\ tmudata' \subseteq Index
            /\ held' \subseteq Object \X Index
        BY <1>1, <1>2 DEF TypeOK
      <3>3. \A S, x : x \in S => <<x>> \in Seq(S) /\ Len(<<x>>) = 1
        OBVIOUS
      <3>4. frames' \in Seq([obj : Object, index : Index, base : BOOLEAN])
            /\ Len(frames') = 1
        BY <2>3, <3>1, <3>3
      <3> QED
        BY <2>2, <3>2, <3>4 DEF TypeOK, MapsOK
    <2>7. Inverse'
      <3>1. \A i \in Index : objects'[i] \in Object \ Generated
                             => backmap'[EqualTo[objects'[i]]] = i
        BY <2>2 DEF MapsOK, Distinct
      <3>2. \A p \in Object : backmap'[p] # NoIndex =>
              objects'[backmap'[p]] # NULL /\ EqualTo[objects'[backmap'[p]]] = p
        BY <2>2 DEF MapsOK, Distinct
      <3> QED
        BY <3>1, <3>2 DEF Inverse, IndexOf
    <2>8. Lifecycle'
      <3>1. \A i \in Index : i >= nextObj' => objects'[i] = NULL /\ i \notin weaktab' \cup tmudata'
        BY <1>1, <1>2, <2>2 DEF MapsOK, Lifecycle, Index
      <3>2. \A i \in weaktab' : objects'[i] # NULL
        BY <1>1, <1>2, <2>5 DEF Lifecycle
      <3>3. weaktab' \cap tmudata' = {} /\ Userdata' \subseteq weaktab'
        BY <1>1, <1>2 DEF Lifecycle, Userdata
      <3> QED
        BY <3>1, <3>2, <3>3 DEF Lifecycle
    <2>9. Stands'
      <3>1. \A p \in held' : p[2] \in weaktab' /\ objects[p[2]] = p[1]
        BY <1>1, <1>2 DEF Lifecycle, Userdata, Stands, getNetObject
      <3> QED
        BY <2>5, <3>1 DEF Stands, getNetObject
    <2>10. FramesOwn'
      <3>1. Len(frames') = 1 /\ frames'[1] = Frame(f.obj, nextObj, FALSE)
        BY <2>3
      <3>2. objects'[nextObj] = f.obj
        BY <2>2 DEF MapsOK
      <3> QED
        BY <1>2, <2>2, <2>4, <3>1, <3>2 DEF FramesOwn, Frame, Index
    <2> QED
      BY <2>6, <2>7, <2>8, <2>9, <2>10 DEF IInv
  <1> QED
    BY <1>2, <1>3, <1>4

LEMMA PushAbortInv ==
  ASSUME ~Reentrant, IInv, PushAbort
  PROVE  IInv'
  <1>1. frames' = <<>> /\ UNCHANGED <<maps, weaktab, tmudata, held>>
    BY OneFrame DEF PushAbort
  <1>2. TypeOK' /\ Inverse' /\ FramesOwn'
    BY <1>1, BoundAssumption DEF IInv, TypeOK, Inverse, IndexOf, FramesOwn, maps
  <1>3. Lifecycle' /\ Stands'
    BY <1>1 DEF IInv, Lifecycle, Stands, Userdata, getNetObject, maps
  <1> QED
    BY <1>2, <1>3 DEF IInv

LEMMA LoseInv ==
  ASSUME ~Reentrant, IInv, NEW i \in Index, Lose(i)
  PROVE  IInv'
  <1>1. TypeOK' /\ Inverse' /\ FramesOwn'
    BY DEF IInv, Lose, TypeOK, Inverse, IndexOf, FramesOwn, maps
  <1>2. Lifecycle' /\ Stands'
    BY DEF IInv, Lose, Lifecycle, Stands, Userdata, getNetObject, maps
  <1> QED
    BY <1>1, <1>2 DEF IInv

LEMMA ClearInv ==
  ASSUME IInv, NEW i \in Index, Clear(i)
  PROVE  IInv'
  <1>1. TypeOK' /\ Inverse'
    BY DEF IInv, Clear, TypeOK, Inverse, IndexOf, maps
  <1>2. FramesOwn'
    BY DEF IInv, Clear, FramesOwn, maps
  <1>3. Lifecycle' /\ Stands'
    BY DEF IInv, Clear, Lifecycle, Stands, Userdata, getNetObject, maps
  <1> QED
    BY <1>1, <1>2, <1>3 DEF IInv

\* The index k of a finalized userdata leaves the maps, and its object, which
\* another userdata may have by then, keeps that one.
LEMMA FinalizeInv ==
  ASSUME ~Reentrant, Distinct, IInv, NEW k \in Index, Finalize(k)
  PROVE  IInv'
  <1> USE ObjectAssumption, EqualAssumption
  <1>1. TypeOK /\ Inverse /\ Lifecycle /\ FramesOwn /\ Stands
    BY DEF IInv
  <1>2. /\ k \in tmudata /\ k \notin weaktab /\ tmudata' = tmudata \ {k}
        /\ UNCHANGED <<nextObj, weaktab, held, frames>>
    BY <1>1 DEF Finalize, Lifecycle
  <1>3. MapsOK(objects, backmap, nextObj)
    BY <1>1, MapsInv DEF Lifecycle
  <1>4. MapsOK(objects', backmap', nextObj) /\ \A i \in Index : i # k => objects'[i] = objects[i]
    <2>1. CASE objects[k] = NULL
      <3>1. UNCHANGED <<objects, backmap>>
        BY <2>1 DEF Finalize
      <3> QED
        BY <1>3, <3>1
    <2>2. CASE objects[k] # NULL
      <3>1. objects' = [objects EXCEPT ![k] = NULL]
            /\ backmap' = [backmap EXCEPT ![EqualTo[objects[k]]] = NoIndex]
        BY <2>2 DEF Finalize
      <3>2. EqualTo[objects[k]] = objects[k]
        BY <1>3, <2>2 DEF MapsOK, Distinct
      <3> QED
        BY <1>1, <1>3, <2>2, <3>1, <3>2, CollectOK DEF TypeOK
    <2> QED
      BY <2>1, <2>2
  <1>5. TypeOK'
    BY <1>1, <1>2, <1>4 DEF TypeOK, MapsOK
  <1>6. Inverse'
    <2>1. \A i \in Index : objects'[i] \in Object \ Generated
                           => backmap'[EqualTo[objects'[i]]] = i
      BY <1>4 DEF MapsOK, Distinct
    <2>2. \A p \in Object : backmap'[p] # NoIndex =>
            objects'[backmap'[p]] # NULL /\ EqualTo[objects'[backmap'[p]]] = p
      BY <1>4 DEF MapsOK, Distinct
    <2> QED
      BY <2>1, <2>2 DEF Inverse, IndexOf
  <1>7. Lifecycle'
    <2>1. \A i \in weaktab : i # k /\ i \in Index
      BY <1>1, <1>2 DEF TypeOK
    <2> QED
      BY <1>1, <1>2, <1>4, <2>1 DEF Lifecycle, Userdata, MapsOK
  <1>8. Stands'
    <2>1. \A p \in held : p[2] # k /\ p[2] \in Index
      BY <1>1, <1>2 DEF Lifecycle, Userdata, TypeOK
    <2> QED
      BY <1>1, <1>2, <1>4, <2>1 DEF Stands, getNetObject
  <1>9. FramesOwn'
    <2> SUFFICES ASSUME NEW n \in 1..Len(frames)
                 PROVE  /\ n = 1
                        /\ frames[n].index < nextObj
                        /\ frames[n].index \notin weaktab \cup tmudata'
                        /\ objects'[frames[n].index] = frames[n].obj
                        /\ frames[n].base => frames[n].obj \in Generated
      BY <1>2 DEF FramesOwn
    <2>1. frames[n] \in [obj : Object, index : Index, base : BOOLEAN]
      BY <1>1, ElementOf DEF TypeOK
    <2>2. frames[n].index # k /\ frames[n].index \in Index
      BY <1>1, <1>2, <2>1 DEF FramesOwn
    <2> QED
      BY <1>1, <1>2, <1>4, <2>2 DEF FramesOwn
  <1> QED
    BY <1>5, <1>6, <1>7, <1>8, <1>9 DEF IInv

LEMMA StepInv == ~Reentrant /\ Distinct /\ IInv /\ [Next]_vars => IInv'
  <1> SUFFICES ASSUME ~Reentrant, Distinct, IInv, [Next]_vars PROVE IInv'
    OBVIOUS
  <1>1. ASSUME NEW o \in Object \ Generated, PushFound(o) \/ PushStart(o) PROVE IInv'
    BY <1>1, PushFoundInv, PushStartInv
  <1>2. ASSUME NEW o \in Generated, Register(o) PROVE IInv'
    BY <1>2, RegisterInv
  <1>3. ASSUME PushEnd \/ PushAbort PROVE IInv'
    BY <1>3, PushEndInv, PushAbortInv
  <1>4. ASSUME NEW i \in Index, Lose(i) \/ Clear(i) \/ Finalize(i) PROVE IInv'
    BY <1>4, LoseInv, ClearInv, FinalizeInv
  <1>5. ASSUME UNCHANGED vars PROVE IInv'
    BY <1>5 DEF vars, maps, IInv, TypeOK, Inverse, IndexOf, Lifecycle, Userdata,
                FramesOwn, Stands, getNetObject
  <1> QED
    BY <1>1, <1>2, <1>3, <1>4, <1>5 DEF Next, Collector

-----------------------------------------------------------------------------
(* The theorems.                                                           *)

\* The maps, the weak table and the finalizers agree in every state.
THEOREM Consistency ==
  ASSUME ~Reentrant, Distinct
  PROVE  Spec => []IInv
  <1>1. Init => IInv
    BY InitInv
  <1>2. IInv /\ [Next]_vars => IInv'
    BY StepInv
  <1> QED
    BY <1>1, <1>2, PTL DEF Spec

\* The lookup of a userdata that the program can reach never fails.
THEOREM AlwaysKnown ==
  ASSUME ~Reentrant, Distinct
  PROVE  Spec => []HeldKnown
  <1>1. IInv => HeldKnown
    BY ObjectAssumption DEF IInv, HeldKnown, Stands, Userdata, TypeOK
  <1> QED
    BY <1>1, Consistency, PTL

\* ... and gives the object that the userdata was pushed for.
THEOREM AlwaysSelf ==
  ASSUME ~Reentrant, Distinct
  PROVE  Spec => []PushesSelf
  <1>1. IInv => PushesSelf
    BY DEF IInv, PushesSelf, Stands
  <1> QED
    BY <1>1, Consistency, PTL

-----------------------------------------------------------------------------
(* Refinement.                                                             *)

\* What the reachable userdata stand for, as HandleTable sees it.
mapped == [i \in Userdata |-> getNetObject(i)]

\* Steps that take nothing from luaNet_objects and give nothing to the program.
LEMMA SameHandles ==
  ASSUME TypeOK, Lifecycle, held' = held,
         \A i \in weaktab : objects'[i] = objects[i]
  PROVE  UNCHANGED mapped
  <1>1. Userdata' = Userdata /\ \A i \in Userdata : objects'[i] = objects[i]
    BY DEF Userdata, Lifecycle
  <1> QED
    BY <1>1 DEF mapped, getNetObject

\* Steps that give userdata k of object o to the program.
LEMMA NewHandle ==
  ASSUME IInv, Distinct, NEW o \in Object, NEW k \in Index,
         objects[k] = o, held' = held \cup {<<o, k>>},
         \A i \in weaktab \cup {k} : objects'[i] = objects[i]
  PROVE  Table!Next
  <1>1. Userdata' = Userdata \cup {k}
    <2>1. <<o, k>>[2] = k
      OBVIOUS
    <2>2. Userdata' \subseteq Userdata \cup {k}
      BY <2>1 DEF Userdata
    <2>3. Userdata \subseteq Userdata'
      BY DEF Userdata
    <2>4. k \in Userdata'
      BY <2>1 DEF Userdata
    <2> QED
      BY <2>2, <2>3, <2>4
  <1>2. Userdata \subseteq weaktab /\ Userdata \subseteq Index
    BY DEF IInv, Lifecycle, Userdata, TypeOK
  <1>3. mapped' = [j \in DOMAIN mapped \cup {k} |-> IF j = k THEN o ELSE mapped[j]]
    BY <1>1, <1>2 DEF mapped, getNetObject
  <1>4. k \in Userdata => mapped[k] = o
    BY DEF mapped, getNetObject
  <1>5. o \in Generated \/ \A j \in Userdata : mapped[j] = o => j = k
    <2> SUFFICES ASSUME o \notin Generated, NEW j \in Userdata, objects[j] = o
                 PROVE  j = k
      BY DEF mapped, getNetObject
    <2> QED
      BY <1>2 DEF IInv, Inverse
  <1>6. Table!Push(o, k)
    BY <1>3, <1>4, <1>5 DEF Table!Push, mapped
  <1> QED
    BY <1>6 DEF Table!Next, Index

LEMMA StepRefines ==
  ASSUME ~Reentrant, Distinct, IInv, [Next]_vars
  PROVE  Table!Next \/ UNCHANGED mapped
  <1> USE ObjectAssumption, EqualAssumption, BoundAssumption
  <1>0. TypeOK /\ Inverse /\ Lifecycle /\ Stands
    BY DEF IInv
  <1>1. ASSUME NEW o \in Object \ Generated, PushFound(o) PROVE Table!Next
    <2>1. PICK k \in Index : k = backmap[o] /\ objects[k] = o
      BY <1>0, <1>1 DEF PushFound, IndexOf, Distinct, TypeOK, Inverse, Index, NoIndex
    <2>2. held' = held \cup {<<o, k>>} /\ UNCHANGED objects
      BY <1>1, <2>1 DEF PushFound, IndexOf, Distinct, maps
    <2> QED
      BY <2>1, <2>2, NewHandle
  <1>2. nextObj \notin weaktab
    BY <1>0 DEF Lifecycle, TypeOK, Index
  <1>3. ASSUME NEW o \in Object \ Generated, PushStart(o) PROVE UNCHANGED mapped
    <2>1. held' = held /\ IndexOf(o) \notin weaktab
      BY <1>3 DEF PushStart
    <2>2. \A i \in weaktab : objects'[i] = objects[i]
      <3>1. \/ objects' = [objects EXCEPT ![nextObj] = o]
            \/ objects' = [[objects EXCEPT ![IndexOf(o)] = NULL] EXCEPT ![nextObj] = o]
        BY <1>3 DEF PushStart, addObject, NewIndex
      <3> QED
        BY <1>0, <1>2, <2>1, <3>1 DEF TypeOK
    <2> QED
      BY <1>0, <2>1, <2>2, SameHandles
  <1>4. ASSUME NEW o \in Generated, Register(o) PROVE UNCHANGED mapped
    <2>1. held' = held /\ objects' = [objects EXCEPT ![nextObj] = o]
      BY <1>4 DEF Register, addObject, NewIndex
    <2>2. \A i \in weaktab : objects'[i] = objects[i]
      BY <1>0, <1>2, <2>1 DEF TypeOK
    <2> QED
      BY <1>0, <2>1, <2>2, SameHandles
  <1>5. ASSUME PushEnd PROVE Table!Next
    <2>1. frames # <<>> /\ \E f : f = frames[1]
      BY <1>5 DEF PushEnd
    <2>2. PICK f : f = frames[1]
      BY <2>1
    <2>3. f \in [obj : Object, index : Index, base : BOOLEAN]
      BY <1>5, <2>1, <2>2, EndInv
    <2>4. PICK o \in Object, k \in Index : o = f.obj /\ k = f.index
      BY <2>3
    <2>5. /\ objects[k] = o /\ k < nextObj /\ held' = held \cup {<<o, k>>}
          /\ addObject(objects, backmap, o) \/ UNCHANGED maps
      BY <1>5, <2>1, <2>2, <2>3, <2>4, EndInv
    <2>6. objects' = [objects EXCEPT ![nextObj] = o] \/ UNCHANGED objects
      BY <2>5 DEF addObject, NewIndex, maps
    <2>7. \A i \in weaktab \cup {k} : objects'[i] = objects[i]
      BY <1>0, <1>2, <2>5, <2>6 DEF TypeOK, Index
    <2> QED
      BY <2>5, <2>7, NewHandle
  <1>6. ASSUME NEW i \in Index, Lose(i) PROVE Table!Next
    <2>1. Userdata' = Userdata \ {i} /\ i \in Userdata /\ UNCHANGED objects
      BY <1>6 DEF Lose, Userdata, maps
    <2>2. mapped' = [j \in DOMAIN mapped \ {i} |-> mapped[j]]
      BY <2>1 DEF mapped, getNetObject
    <2>3. Table!Lose(i)
      BY <2>1, <2>2 DEF Table!Lose, mapped
    <2> QED
      BY <2>1, <2>3 DEF Table!Next
  <1>7. ASSUME PushAbort \/ UNCHANGED vars \/ \E i \in Index : Clear(i)
        PROVE  UNCHANGED mapped
    <2>1. held' = held /\ objects' = objects
      BY <1>7 DEF PushAbort, Clear, vars, maps
    <2> QED
      BY <1>0, <2>1, SameHandles
  <1>8. ASSUME NEW i \in Index, Finalize(i) PROVE UNCHANGED mapped
    <2>1. held' = held /\ i \notin weaktab
          /\ (UNCHANGED objects \/ objects' = [objects EXCEPT ![i] = NULL])
      BY <1>0, <1>8 DEF Finalize, Lifecycle
    <2>2. \A j \in weaktab : objects'[j] = objects[j]
      BY <1>0, <2>1 DEF TypeOK
    <2> QED
      BY <1>0, <2>1, <2>2, SameHandles
  <1> QED
    BY <1>1, <1>3, <1>4, <1>5, <1>6, <1>7, <1>8 DEF Next, Collector

\* Maps, weak table, finalizers and pushes together implement HandleTable: the
\* program never sees a userdata change its object, nor two for one object.
THEOREM ImplementsTable ==
  ASSUME ~Reentrant, Distinct
  PROVE  Spec => ImplementsHandles
  <1>1. Init => Table!Init
    <2> SUFFICES ASSUME Init PROVE mapped = [i \in {} |-> {}]
      BY DEF Table!Init, mapped
    <2>1. Userdata = {}
      BY DEF Init, Userdata
    <2> QED
      BY <2>1 DEF mapped
  <1>2. IInv /\ [Next]_vars => [Table!Next]_mapped
    BY StepRefines
  <1>3. UNCHANGED mapped => UNCHANGED [i \in Userdata |-> getNetObject(i)]
    BY DEF mapped
  <1>4. IInv /\ [Next]_vars => [Table!Next]_([i \in Userdata |-> getNetObject(i)])
    BY <1>2, <1>3
  <1> QED
    BY <1>1, <1>4, Consistency, PTL DEF Spec, ImplementsHandles, Table!Spec
=============================================================================

------------------------- MODULE LuaCoroutine_proofs -------------------------
(***************************************************************************)
(* Proofs about calls and coroutines, for any number of threads and any    *)
(* limits, if the host calls functions on the main thread only             *)
(* (MCCoroutine shows what happens otherwise).                             *)
(*                                                                         *)
(* A step leaves the C stack alone, adds an entry to it, which is a call   *)
(* (PushCall) or a lua_resume (PushResume), or cuts it at an entry, with   *)
(* which a call ends (CutCall) or a coroutine (CutResume); an error cuts   *)
(* it where a return cuts one entry.                                       *)
(***************************************************************************)
EXTENDS LuaCoroutine, FiniteSetTheorems, TLAPS

-----------------------------------------------------------------------------
(* The calls of a thread on the C stack.                                   *)

LEMMA NestedType ==
  ASSUME NEW cs, NEW th, NEW k \in Nat
  PROVE  IsFiniteSet(Nested(cs, th, k)) /\ Cardinality(Nested(cs, th, k)) \in Nat
<1>1. IsFiniteSet(1..k)
  BY FS_Interval
<1>2. Nested(cs, th, k) \subseteq 1..k
  BY DEF Nested
<1>3. IsFiniteSet(Nested(cs, th, k))
  BY <1>1, <1>2, FS_Subset
<1>4. QED
  BY <1>3, FS_CardinalityType

\* They depend on the entries up to k only.
LEMMA NestedSame ==
  ASSUME NEW cs, NEW ds, NEW th, NEW k \in Nat, \A i \in 1..k : cs[i] = ds[i]
  PROVE  Nested(cs, th, k) = Nested(ds, th, k) /\ Pcalls(cs, th, k) = Pcalls(ds, th, k)
BY DEF Nested, Pcalls

LEMMA EntrySame ==
  ASSUME NEW cs, NEW ds, NEW i \in Nat, i >= 1, \A j \in 1..i : cs[j] = ds[j], EntryOK(cs, i)
  PROVE  EntryOK(ds, i)
<1>1. ds[i].kind = "resume" <=> ds[i].th # Main /\ \A j \in 1..i - 1 : ds[j].th # ds[i].th
  BY DEF EntryOK
<1>2. PICK k \in 1..i : /\ cs[k].kind \in {"pcall", "resume"}
                        /\ \A j \in k..i : cs[j].th = cs[i].th
                        /\ \A j \in k + 1..i : cs[j].kind \in {"call", "handler"}
  BY DEF EntryOK
<1>3. /\ ds[k].kind \in {"pcall", "resume"}
      /\ \A j \in k..i : ds[j].th = ds[i].th
      /\ \A j \in k + 1..i : ds[j].kind \in {"call", "handler"}
  BY <1>2
<1>4. QED
  BY <1>1, <1>3 DEF EntryOK

\* An entry that is added is a catcher itself, or the last one's thread calls.
LEMMA EntryNext ==
  ASSUME NEW cs, NEW k \in Nat,
         cs[k + 1].kind = "resume" <=>
           cs[k + 1].th # Main /\ \A j \in 1..k : cs[j].th # cs[k + 1].th,
         \/ cs[k + 1].kind \in {"pcall", "resume"}
         \/ /\ cs[k + 1].kind \in {"call", "handler"}
            /\ k >= 1 /\ cs[k].th = cs[k + 1].th /\ EntryOK(cs, k)
  PROVE  EntryOK(cs, k + 1)
<1>1. cs[k + 1].kind = "resume" <=>
        cs[k + 1].th # Main /\ \A j \in 1..(k + 1) - 1 : cs[j].th # cs[k + 1].th
  <2>1. (k + 1) - 1 = k
    OBVIOUS
  <2>2. QED
    BY <2>1
<1>2. \E h \in 1..k + 1 : /\ cs[h].kind \in {"pcall", "resume"}
                          /\ \A j \in h..k + 1 : cs[j].th = cs[k + 1].th
                          /\ \A j \in h + 1..k + 1 : cs[j].kind \in {"call", "handler"}
  <2>1. CASE cs[k + 1].kind \in {"pcall", "resume"}
    <3>1. k + 1 \in 1..k + 1 /\ k + 1..k + 1 = {k + 1} /\ k + 1 + 1..k + 1 = {}
      OBVIOUS
    <3>2. QED
      BY <2>1, <3>1
  <2>2. CASE cs[k + 1].kind \notin {"pcall", "resume"}
    <3>1. PICK h \in 1..k : /\ cs[h].kind \in {"pcall", "resume"}
                            /\ \A j \in h..k : cs[j].th = cs[k].th
                            /\ \A j \in h + 1..k : cs[j].kind \in {"call", "handler"}
      BY <2>2 DEF EntryOK
    <3>2. \A j \in h..k + 1 : j \in h..k \/ j = k + 1
      OBVIOUS
    <3>3. \A j \in h + 1..k + 1 : j \in h + 1..k \/ j = k + 1
      OBVIOUS
    <3>4. h \in 1..k + 1
      OBVIOUS
    <3>5. QED
      BY <2>2, <3>1, <3>2, <3>3, <3>4
  <2>3. QED
    BY <2>1, <2>2
<1>3. QED
  BY <1>1, <1>2 DEF EntryOK

LEMMA NestedNext ==
  ASSUME NEW cs, NEW th, NEW k \in Nat
  PROVE  /\ cs[k + 1].th = th /\ cs[k + 1].kind # "resume" =>
              Cardinality(Nested(cs, th, k + 1)) = Cardinality(Nested(cs, th, k)) + 1
         /\ ~(cs[k + 1].th = th /\ cs[k + 1].kind # "resume") =>
              Nested(cs, th, k + 1) = Nested(cs, th, k)
<1>1. k + 1 \notin Nested(cs, th, k)
  BY DEF Nested
<1>2. ASSUME cs[k + 1].th = th, cs[k + 1].kind # "resume"
      PROVE  Nested(cs, th, k + 1) = Nested(cs, th, k) \cup {k + 1}
  BY <1>2 DEF Nested
<1>3. ASSUME cs[k + 1].th = th, cs[k + 1].kind # "resume"
      PROVE  Cardinality(Nested(cs, th, k + 1)) = Cardinality(Nested(cs, th, k)) + 1
  BY <1>1, <1>2, <1>3, NestedType, FS_AddElement
<1>4. ASSUME ~(cs[k + 1].th = th /\ cs[k + 1].kind # "resume")
      PROVE  Nested(cs, th, k + 1) = Nested(cs, th, k)
  BY <1>4 DEF Nested
<1>5. QED
  BY <1>3, <1>4

LEMMA NestedNone ==
  ASSUME NEW cs, NEW th, NEW k \in Nat
  PROVE  /\ Nested(cs, th, k) = {} => Cardinality(Nested(cs, th, k)) = 0 /\ Pcalls(cs, th, k) = {}
         /\ Cardinality(Nested(cs, th, k)) = 0 => Nested(cs, th, k) = {}
<1>1. Nested(cs, th, k) = {} => Pcalls(cs, th, k) = {}
  BY DEF Nested, Pcalls
<1>2. QED
  BY <1>1, NestedType, FS_EmptySet

-----------------------------------------------------------------------------
(* The last entry.                                                         *)

N == Len(cstack)

LEMMA Types ==
  ASSUME IInv
  PROVE  /\ N \in Nat /\ cstack \in Seq(EntryType)
         /\ \A i \in 1..N : /\ cstack[i] \in EntryType /\ cstack[i].th \in Thread
                            /\ cstack[i].ci \in Nat /\ cstack[i].nCcalls \in Nat
                            /\ cstack[i].kind \in {"call", "pcall", "handler", "resume"}
         /\ \A th \in Thread : /\ nCcalls[th] \in Nat /\ baseCcalls[th] \in Nat
                               /\ ci[th] \in Seq({"lua", "C"}) /\ Len(ci[th]) \in Nat
         /\ Idle => N = 0
         /\ ~Idle => N \in 1..N /\ L = cstack[N].th /\ Last(cstack) = cstack[N]
<1>1. cstack \in Seq(EntryType) /\ N \in Nat
  BY DEF IInv, TypeOK, N
<1>2. \A i \in 1..N : cstack[i] \in EntryType
  BY <1>1 DEF N
<1>3. \A i \in 1..N : /\ cstack[i].th \in Thread
                      /\ cstack[i].ci \in Nat /\ cstack[i].nCcalls \in Nat
                      /\ cstack[i].kind \in {"call", "pcall", "handler", "resume"}
  BY <1>2 DEF EntryType
<1>4. \A th \in Thread : /\ nCcalls[th] \in Nat /\ baseCcalls[th] \in Nat
                         /\ ci[th] \in Seq({"lua", "C"}) /\ Len(ci[th]) \in Nat
  BY DEF IInv, TypeOK
<1>5. Idle => N = 0
  BY DEF Idle, N
<1>6. ~Idle => N # 0
  BY <1>1 DEF Idle, N
<1>7. L = cstack[N].th /\ Last(cstack) = cstack[N]
  BY DEF L, Last, N
<1>8. QED
  BY <1>1, <1>2, <1>3, <1>4, <1>5, <1>6, <1>7

LEMMA LastEntry ==
  ASSUME IInv, ~Idle
  PROVE  /\ L \in Thread /\ Active(L) /\ status[L] = "ok"
         /\ nCcalls[L] = Level(N) /\ Level(N) >= 1
         /\ Last(cstack).kind = "resume" => L # Main /\ Nested(cstack, L, N) = {}
                                            /\ ~errfunc[L] /\ \A i \in 1..N - 1 : cstack[i].th # L
         /\ err # "throw" => nCcalls[L] < LUAI_MAXCCALLS + Spare
<1>1. L \in Thread /\ Active(L) /\ N \in 1..N /\ L = cstack[N].th /\ Last(cstack) = cstack[N]
  BY Types DEF Active, Entries, N
<1>2. status[L] = "ok"
  BY <1>1 DEF IInv, ThreadsOK
<1>3. nCcalls[L] = baseCcalls[L] + Cardinality(Nested(cstack, L, N))
  BY <1>1 DEF IInv, LevelsOK, N
<1>4. CASE cstack[N].kind = "resume"
  <2>1. L # Main /\ \A i \in 1..N - 1 : cstack[i].th # L
    <3>1. EntryOK(cstack, N)
      BY <1>1 DEF IInv, EntriesOK, N
    <3>2. QED
      BY <1>1, <1>4, <3>1 DEF EntryOK
  <2>2. Nested(cstack, L, N) = {} /\ Pcalls(cstack, L, N) = {}
    BY <1>1, <1>4, <2>1 DEF Nested, Pcalls
  <2>3. ~errfunc[L]
    BY <1>1, <1>2, <2>2 DEF IInv, HandlersOK, N
  <2>4. nCcalls[L] = Level(N)
    <3>1. Cardinality(Nested(cstack, L, N)) = 0
      BY <1>1, <2>2, Types, NestedNone
    <3>2. QED
      BY <1>1, <1>3, <1>4, <3>1, Types DEF Level
  <2>5. QED
    BY <1>1, <1>2, <2>1, <2>2, <2>3, <2>4, Types, LimitAssumption DEF IInv, DepthOK, N, Level
<1>5. CASE cstack[N].kind # "resume"
  <2>1. cstack[N].nCcalls = baseCcalls[L] + Cardinality(Nested(cstack, L, N - 1))
    BY <1>1, <1>5 DEF IInv, LevelsOK, N
  <2>2. Cardinality(Nested(cstack, L, N)) = Cardinality(Nested(cstack, L, N - 1)) + 1
    <3>1. N - 1 \in Nat /\ N - 1 + 1 = N
      BY <1>1
    <3>2. QED
      BY <1>1, <1>5, <3>1, NestedNext
  <2>3. Cardinality(Nested(cstack, L, N - 1)) \in Nat
    BY <1>1, Types, NestedType
  <2>4. nCcalls[L] = Level(N)
    <3>1. Level(N) = cstack[N].nCcalls + 1
      BY <1>1, <1>5 DEF Level
    <3>2. baseCcalls[L] \in Nat
      BY <1>1, Types
    <3>3. QED
      BY <1>3, <2>1, <2>2, <2>3, <3>1, <3>2
  <2>5. QED
    BY <1>1, <1>2, <1>5, <2>4, Types DEF IInv, DepthOK, N, Level
<1>6. QED
  BY <1>4, <1>5

-----------------------------------------------------------------------------
(* A call adds an entry.                                                   *)

\* What the functions s of thread t are when it has yielded.
Rests(t, s) ==
  /\ s # <<>> /\ Last(s) = "C"
  /\ IF Len(s) = 1 THEN t \in Hosted ELSE s[Len(s) - 1] = "lua"

\* What the entry holds, if it is a call on the running thread or the host's.
CallEntry(e) ==
  /\ e \in EntryType /\ e.kind # "resume"
  /\ e.ci = Len(ci[e.th]) /\ e.nCcalls = nCcalls[e.th] /\ e.errfunc = errfunc[e.th]
  /\ e.host => e.kind = "pcall" /\ e.th = Main
  /\ ~e.host => ~Idle /\ e.th = L
  /\ ~Idle => err # "throw" /\ (e.kind # "handler" => err = "none")

LEMMA Appended ==
  ASSUME NEW S, NEW s \in Seq(S), NEW x \in S
  PROVE  /\ Append(s, x) \in Seq(S) /\ Len(Append(s, x)) = Len(s) + 1 /\ Len(s) \in Nat
         /\ \A i \in 1..Len(s) : Append(s, x)[i] = s[i]
         /\ Append(s, x)[Len(s) + 1] = x
OBVIOUS

LEMMA Prefix ==
  ASSUME NEW S, NEW s \in Seq(S), NEW k \in Nat, k <= Len(s)
  PROVE  /\ SubSeq(s, 1, k) \in Seq(S) /\ Len(SubSeq(s, 1, k)) = k
         /\ \A i \in 1..k : SubSeq(s, 1, k)[i] = s[i] /\ i \in 1..Len(s)
<1>1. SubSeq(s, 1, k) = [i \in 1..k |-> s[i]] /\ Len(s) \in Nat
  OBVIOUS
<1>2. \A i \in 1..k : s[i] \in S /\ i \in 1..Len(s)
  BY <1>1
<1>3. [i \in 1..k |-> s[i]] \in Seq(S) /\ Len([i \in 1..k |-> s[i]]) = k
  BY <1>2
<1>4. QED
  BY <1>1, <1>2, <1>3

LEMMA PushCall ==
  ASSUME IInv, NEW e, CallEntry(e), NEW f \in {"lua", "C"},
         luaD_call(e, f),
         errfunc' \in [Thread -> BOOLEAN],
         \A t \in Thread \ {e.th} : errfunc'[t] = errfunc[t],
         e.kind # "pcall" => errfunc' = errfunc,
         UNCHANGED <<status, top, baseCcalls, start>>
  PROVE  IInv'
<1> DEFINE th == e.th
           n  == nCcalls[th] + 1
<1>1. /\ th \in Thread /\ (th = Main \/ Active(th)) /\ status[th] = "ok"
      /\ e.kind \in {"call", "pcall", "handler"}
      /\ e.ci = Len(ci[th]) /\ e.nCcalls = nCcalls[th] /\ nCcalls[th] \in Nat
  <2>1. th \in Thread /\ e.kind \in {"call", "pcall", "handler"}
    BY DEF CallEntry, EntryType
  <2>2. (th = Main \/ Active(th)) /\ status[th] = "ok"
    BY LastEntry DEF CallEntry, IInv, ThreadsOK
  <2>3. QED
    BY <2>1, <2>2, Types DEF CallEntry
<1>2. /\ Len(cstack') = N + 1 /\ N \in Nat /\ cstack' \in Seq(EntryType)
      /\ \A i \in 1..N : cstack'[i] = cstack[i]
      /\ cstack'[N + 1] = e
  <2>1. cstack' = Append(cstack, e)
    BY DEF luaD_call
  <2>2. QED
    BY <2>1, Types, Appended DEF N, CallEntry
<1>3. \/ n = LUAI_MAXCCALLS /\ err' = "run" /\ ci' = ci
      \/ n # LUAI_MAXCCALLS /\ n >= LUAI_MAXCCALLS + Spare /\ err' = "throw" /\ ci' = ci
      \/ /\ n # LUAI_MAXCCALLS /\ ~(n >= LUAI_MAXCCALLS + Spare) /\ err' = "none"
         /\ ci' = [ci EXCEPT ![th] = Append(@, f)]
  BY DEF luaD_call
<1>4. nCcalls' = [nCcalls EXCEPT ![th] = n]
  BY DEF luaD_call
<1>5. /\ ci' \in [Thread -> Seq({"lua", "C"})]
      /\ \A t \in Thread : /\ Len(ci[t]) \in Nat /\ Len(ci'[t]) \in Nat
                           /\ Len(ci[t]) <= Len(ci'[t])
                           /\ \A i \in 1..Len(ci[t]) : ci'[t][i] = ci[t][i]
                           /\ t # th => ci'[t] = ci[t]
      /\ ci' = ci \/ Len(ci'[th]) = Len(ci[th]) + 1
      /\ err' = "none" => Len(ci'[th]) = Len(ci[th]) + 1
  <2>1. ci \in [Thread -> Seq({"lua", "C"})]
    BY DEF IInv, TypeOK
  <2>2. CASE ci' = ci
    BY <1>3, <2>1, <2>2, <1>1, Appended
  <2>3. CASE ci' = [ci EXCEPT ![th] = Append(@, f)]
    <3>1. \A t \in Thread : t # th => ci'[t] = ci[t]
      BY <2>1, <2>3
    <3>2. ci'[th] = Append(ci[th], f) /\ ci[th] \in Seq({"lua", "C"})
      BY <1>1, <2>1, <2>3
    <3>3. /\ ci'[th] \in Seq({"lua", "C"}) /\ Len(ci'[th]) = Len(ci[th]) + 1
          /\ \A i \in 1..Len(ci[th]) : ci'[th][i] = ci[th][i]
      BY <3>2, Appended
    <3>4. ci' \in [Thread -> Seq({"lua", "C"})]
      BY <1>1, <2>1, <2>3, <3>2, <3>3
    <3>5. \A t \in Thread : Len(ci[t]) \in Nat /\ Len(ci'[t]) \in Nat
      BY <2>1, <3>4
    <3>6. QED
      BY <3>1, <3>3, <3>4, <3>5
  <2>4. QED
    BY <1>3, <2>2, <2>3
<1>6. TypeOK'
  <2>1. nCcalls' \in [Thread -> Nat]
    BY <1>1, <1>4 DEF IInv, TypeOK
  <2>2. cstack' # <<>> /\ L' = th /\ Last(cstack') = e
    BY <1>2 DEF L, Last
  <2>3. err' \in {"none", "run", "throw"}
    BY <1>3
  <2>4. err' = "none" => Len(ci'[th]) > e.ci
    BY <1>1, <1>5
  <2>5. QED
    BY <1>2, <1>5, <2>1, <2>2, <2>3, <2>4 DEF IInv, TypeOK, Idle
<1>7. /\ \A t, k : k \in 0..N => Nested(cstack', t, k) = Nested(cstack, t, k)
                                 /\ Pcalls(cstack', t, k) = Pcalls(cstack, t, k)
      /\ \A t : t # th => Nested(cstack', t, N + 1) = Nested(cstack, t, N)
      /\ Cardinality(Nested(cstack', th, N + 1)) = Cardinality(Nested(cstack, th, N)) + 1
      /\ \A t : Cardinality(Nested(cstack, t, N)) \in Nat
      /\ \A t : Nested(cstack, t, N) \subseteq Nested(cstack', t, N + 1)
      /\ \A t : Pcalls(cstack, t, N) \subseteq Pcalls(cstack', t, N + 1)
      /\ N + 1 \in Nested(cstack', th, N + 1)
      /\ e.kind = "pcall" => N + 1 \in Pcalls(cstack', th, N + 1)
  <2>1. \A t, k : k \in 0..N => Nested(cstack', t, k) = Nested(cstack, t, k)
                                /\ Pcalls(cstack', t, k) = Pcalls(cstack, t, k)
    BY <1>2 DEF Nested, Pcalls
  <2>2. /\ \A t : t # th => Nested(cstack', t, N + 1) = Nested(cstack', t, N)
        /\ Cardinality(Nested(cstack', th, N + 1)) = Cardinality(Nested(cstack', th, N)) + 1
    BY <1>1, <1>2, NestedNext
  <2>3. \A t : Cardinality(Nested(cstack, t, N)) \in Nat
    BY <1>2, NestedType
  <2>4. /\ \A t : Nested(cstack, t, N) \subseteq Nested(cstack', t, N + 1)
        /\ \A t : Pcalls(cstack, t, N) \subseteq Pcalls(cstack', t, N + 1)
        /\ N + 1 \in Nested(cstack', th, N + 1)
        /\ e.kind = "pcall" => N + 1 \in Pcalls(cstack', th, N + 1)
    BY <1>1, <1>2 DEF Nested, Pcalls
  <2>5. N \in 0..N
    BY <1>2
  <2>6. QED
    BY <2>1, <2>2, <2>3, <2>4, <2>5
<1>8. \A t \in Thread : Active(t)' <=> Active(t) \/ t = th
  <2>1. DOMAIN cstack = 1..N /\ DOMAIN cstack' = 1..N + 1
    BY <1>2, Types DEF N
  <2>2. QED
    BY <1>2, <2>1 DEF Active, Entries
<1>9. EntriesOK'
  <2>1. ASSUME NEW i \in 1..N
        PROVE  EntryOK(cstack', i)
    <3>1. EntryOK(cstack, i)
      BY DEF IInv, EntriesOK, N
    <3>2. i \in Nat /\ i >= 1 /\ \A j \in 1..i : cstack[j] = cstack'[j]
      BY <1>2
    <3>3. QED
      BY <3>1, <3>2, EntrySame
  <2>2. th # Main => \E j \in 1..N : cstack'[j].th = th
    BY <1>1, <1>2, Types DEF Active, Entries, N
  <2>3. ASSUME e.kind # "pcall"
        PROVE  N \in 1..N /\ cstack'[N].th = th /\ e.kind \in {"call", "handler"}
    BY <1>1, <1>2, <2>3, Types DEF CallEntry
  <2>4. EntryOK(cstack', N + 1)
    <3>1. cstack'[N + 1].kind = "resume" <=>
            cstack'[N + 1].th # Main /\ \A j \in 1..N : cstack'[j].th # cstack'[N + 1].th
      BY <1>1, <1>2, <2>2
    <3>2. \/ cstack'[N + 1].kind \in {"pcall", "resume"}
          \/ /\ cstack'[N + 1].kind \in {"call", "handler"}
             /\ N >= 1 /\ cstack'[N].th = cstack'[N + 1].th /\ EntryOK(cstack', N)
      BY <1>2, <2>1, <2>3
    <3> DEFINE ds == cstack'
    <3>3. /\ N \in Nat
          /\ ds[N + 1].kind = "resume" <=> ds[N + 1].th # Main /\ \A j \in 1..N : ds[j].th # ds[N + 1].th
          /\ \/ ds[N + 1].kind \in {"pcall", "resume"}
             \/ /\ ds[N + 1].kind \in {"call", "handler"}
                /\ N >= 1 /\ ds[N].th = ds[N + 1].th /\ EntryOK(ds, N)
      BY <1>2, <3>1, <3>2
    <3> HIDE DEF ds
    <3>4. EntryOK(ds, N + 1)
      BY <3>3, EntryNext
    <3>5. QED
      BY <3>4 DEF ds
  <2>5. \A i \in 1..N + 1 : i \in 1..N \/ i = N + 1
    BY <1>2
  <2>6. QED
    BY <1>2, <2>1, <2>4, <2>5 DEF EntriesOK
<1>10. LevelsOK'
  <2>1. ASSUME NEW i \in 1..N + 1, cstack'[i].kind # "resume"
        PROVE  cstack'[i].nCcalls = baseCcalls[cstack'[i].th]
                                      + Cardinality(Nested(cstack', cstack'[i].th, i - 1))
    <3>1. i - 1 \in 0..N
      BY <1>2
    <3>2. CASE i \in 1..N
      <4>1. cstack'[i] = cstack[i]
        BY <1>2, <3>2
      <4>2. cstack[i].nCcalls = baseCcalls[cstack[i].th] + Cardinality(Nested(cstack, cstack[i].th, i - 1))
        BY <2>1, <3>2, <4>1 DEF IInv, LevelsOK, N
      <4>3. Nested(cstack', cstack[i].th, i - 1) = Nested(cstack, cstack[i].th, i - 1)
        BY <1>7, <3>1
      <4>4. QED
        BY <4>1, <4>2, <4>3
    <3>3. CASE i = N + 1
      <4>1. nCcalls[th] = baseCcalls[th] + Cardinality(Nested(cstack, th, N))
        BY <1>1 DEF IInv, LevelsOK, N
      <4>2. i - 1 = N
        BY <1>2, <3>3
      <4>3. QED
        BY <1>1, <1>2, <1>7, <3>1, <3>3, <4>1, <4>2
    <3>4. QED
      BY <1>2, <3>2, <3>3
  <2>2. ASSUME NEW t \in Thread, Active(t)' \/ t = Main
        PROVE  nCcalls'[t] = baseCcalls[t] + Cardinality(Nested(cstack', t, N + 1))
    <3>1. nCcalls[t] = baseCcalls[t] + Cardinality(Nested(cstack, t, N))
      BY <1>1, <1>8, <2>2 DEF IInv, LevelsOK, N
    <3>2. /\ Cardinality(Nested(cstack, t, N)) \in Nat
          /\ nCcalls[t] \in Nat /\ baseCcalls[t] \in Nat
      BY <1>7, Types
    <3>3. nCcalls'[t] = IF t = th THEN n ELSE nCcalls[t]
      BY <1>4 DEF IInv, TypeOK
    <3>4. CASE t = th
      BY <1>7, <3>1, <3>2, <3>3, <3>4
    <3>5. CASE t # th
      BY <1>7, <3>1, <3>3, <3>5
    <3>6. QED
      BY <3>4, <3>5
  <2>3. baseCcalls' = baseCcalls /\ baseCcalls[Main] = 0
    BY DEF IInv, LevelsOK
  <2>4. QED
    BY <1>2, <2>1, <2>2, <2>3 DEF LevelsOK
<1>11. HeightsOK'
  <2>1. \A i \in 1..N : /\ cstack[i].th \in Thread /\ cstack[i].ci \in Nat
                        /\ cstack[i].ci <= Len(ci[cstack[i].th])
                        /\ cstack[i].ci <= Len(ci'[cstack[i].th])
                        /\ cstack[i].th = th => cstack[i].ci <= e.ci
    <3>1. \A i \in 1..N : cstack[i].ci <= Len(ci[cstack[i].th])
      BY DEF IInv, HeightsOK, N
    <3>2. \A i \in 1..N : cstack[i].th \in Thread /\ cstack[i].ci \in Nat
      BY Types
    <3>3. \A t \in Thread : Len(ci[t]) \in Nat /\ Len(ci'[t]) \in Nat /\ Len(ci[t]) <= Len(ci'[t])
      BY <1>5
    <3>4. e.ci = Len(ci[th])
      BY <1>1
    <3>5. QED
      BY <3>1, <3>2, <3>3, <3>4
  <2>2. \A i \in 1..N : cstack[i].kind # "resume" /\ cstack[i].th # Main => cstack[i].ci >= 1
    BY DEF IInv, HeightsOK, N
  <2>3. \A i \in 1..N : \A j \in i + 1..N : cstack[j].th = cstack[i].th => cstack[i].ci <= cstack[j].ci
    BY DEF IInv, HeightsOK, N
  <2>4. th # Main => e.ci >= 1
    <3>1. th # Main => ci[th] # <<>> /\ ci[th] \in Seq({"lua", "C"})
      BY <1>1, Types DEF IInv, ThreadsOK
    <3>2. QED
      BY <1>1, <3>1
  <2>5. e.ci <= Len(ci'[th])
    BY <1>1, <1>5
  <2>6. ASSUME NEW i \in 1..N + 1
        PROVE  /\ cstack'[i].ci <= Len(ci'[cstack'[i].th])
               /\ cstack'[i].kind # "resume" /\ cstack'[i].th # Main => cstack'[i].ci >= 1
               /\ \A j \in i + 1..N + 1 : cstack'[j].th = cstack'[i].th => cstack'[i].ci <= cstack'[j].ci
    <3>1. CASE i \in 1..N
      <4>1. \A j \in i + 1..N + 1 : j \in i + 1..N \/ j = N + 1
        BY <1>2
      <4>2. \A j \in i + 1..N : j \in 1..N
        BY <1>2, <3>1
      <4>3. QED
        BY <1>2, <2>1, <2>2, <2>3, <3>1, <4>1, <4>2
    <3>2. CASE i = N + 1
      <4>1. i + 1..N + 1 = {}
        BY <1>2, <3>2
      <4>2. QED
        BY <1>2, <2>4, <2>5, <3>2, <4>1
    <3>3. QED
      BY <1>2, <3>1, <3>2
  <2>7. ASSUME NEW i \in 1..N, cstack'[i + 1].kind # "handler"
        PROVE  /\ cstack[i].ci < Len(ci[cstack[i].th])
               /\ \A j \in i + 1..N : cstack[j].th = cstack[i].th => cstack[i].ci < cstack[j].ci
    <3>1. CASE i \in 1..N - 1
      <4>1. cstack[i + 1].kind # "handler"
        BY <1>2, <2>7, <3>1
      <4>2. QED
        BY <3>1, <4>1 DEF IInv, HeightsOK, N
    <3>2. CASE i = N
      <4>1. e.kind # "handler" /\ ~Idle
        BY <1>2, <2>7, <3>2, Types
      <4>2. cstack[N].ci < Len(ci[cstack[N].th])
        BY <1>2, <4>1, Types DEF IInv, TypeOK, CallEntry
      <4>3. i + 1..N = {}
        BY <1>2, <3>2
      <4>4. QED
        BY <3>2, <4>2, <4>3
    <3>3. QED
      BY <1>2, <3>1, <3>2
  <2>8. ASSUME NEW i \in 1..N, cstack'[i + 1].kind # "handler"
        PROVE  /\ cstack'[i].ci < Len(ci'[cstack'[i].th])
               /\ \A j \in i + 1..N + 1 : cstack'[j].th = cstack'[i].th => cstack'[i].ci < cstack'[j].ci
    <3>1. cstack'[i] = cstack[i] /\ cstack[i].th \in Thread /\ cstack[i].ci \in Nat
      BY <1>2, Types
    <3>2. cstack[i].ci < Len(ci'[cstack[i].th])
      <4>1. cstack[i].ci < Len(ci[cstack[i].th])
        BY <2>7, <2>8
      <4>2. \A t \in Thread : Len(ci[t]) \in Nat /\ Len(ci'[t]) \in Nat /\ Len(ci[t]) <= Len(ci'[t])
        BY <1>5
      <4>3. QED
        BY <3>1, <4>1, <4>2
    <3>3. \A j \in i + 1..N + 1 : (j \in i + 1..N /\ j \in 1..N) \/ j = N + 1
      BY <1>2
    <3>4. cstack[i].th = th => cstack[i].ci < e.ci
      BY <1>1, <2>7, <2>8
    <3>5. QED
      BY <1>2, <2>7, <2>8, <3>1, <3>2, <3>3, <3>4
  <2>9. N + 1 - 1 = N
    BY <1>2
  <2>10. QED
    BY <1>2, <2>6, <2>8, <2>9 DEF HeightsOK
<1>12. HandlersOK'
  <2>1. ASSUME NEW i \in 1..N + 1, cstack'[i].kind # "resume", cstack'[i].errfunc
        PROVE  Pcalls(cstack', cstack'[i].th, i - 1) # {}
    <3>1. CASE i \in 1..N
      <4>1. i - 1 \in 0..N /\ cstack'[i] = cstack[i]
        BY <1>2, <3>1
      <4>2. Pcalls(cstack, cstack[i].th, i - 1) # {}
        BY <2>1, <3>1, <4>1 DEF IInv, HandlersOK, N
      <4>3. QED
        BY <1>7, <4>1, <4>2
    <3>2. CASE i = N + 1
      <4>1. i - 1 = N /\ cstack'[i] = e /\ N \in 0..N
        BY <1>2, <3>2
      <4>2. errfunc[th]
        BY <2>1, <4>1 DEF CallEntry
      <4>3. Pcalls(cstack, th, N) # {}
        BY <1>1, <4>2 DEF IInv, HandlersOK, N
      <4>4. QED
        BY <1>7, <4>1, <4>3
    <3>3. QED
      BY <1>2, <3>1, <3>2
  <2>2. ASSUME NEW t \in Thread, status'[t] # "error", errfunc'[t]
        PROVE  Pcalls(cstack', t, N + 1) # {}
    <3>1. CASE t = th /\ e.kind = "pcall"
      BY <1>7, <3>1
    <3>2. CASE t # th \/ e.kind # "pcall"
      <4>1. errfunc'[t] = errfunc[t] /\ status'[t] = status[t]
        BY <3>2
      <4>2. Pcalls(cstack, t, N) # {}
        BY <2>2, <4>1 DEF IInv, HandlersOK, N
      <4>3. QED
        BY <1>7, <4>2
    <3>3. QED
      BY <3>1, <3>2
  <2>3. QED
    BY <1>2, <2>1, <2>2 DEF HandlersOK
<1>13. ThreadsOK'
  <2>1. \A t \in Thread : Active(t) => status[t] = "ok" /\ (t # Main => ci[t] # <<>>)
    BY DEF IInv, ThreadsOK
  <2>2. \A t \in Thread : ci[t] # <<>> => ci'[t] # <<>>
    <3>1. \A t \in Thread : ci[t] \in Seq({"lua", "C"}) /\ ci'[t] \in Seq({"lua", "C"})
      BY <1>5, Types
    <3>2. \A t \in Thread : ci[t] # <<>> => Len(ci[t]) # 0
      BY <3>1
    <3>3. QED
      BY <1>5, <3>1, <3>2
  <2>3. QED
    BY <1>1, <1>8, <2>1, <2>2 DEF IInv, ThreadsOK
<1>14. FramesOK'
  <2> SUFFICES ASSUME NEW t \in Coroutine, Active(t)' \/ status'[t] = "yield",
                      NEW i \in 1..Len(ci'[t]), ci'[t][i] = "C"
               PROVE  \/ i > 1 /\ ci'[t][i - 1] = "lua"
                      \/ i = 1 /\ t \in Hosted
                      \/ \E j \in Nested(cstack', t, N + 1) : cstack'[j].ci = i - 1
    BY <1>2 DEF FramesOK
  <2>1. t \in Thread /\ t # Main /\ (Active(t) \/ status[t] = "yield")
    BY <1>1, <1>8, ThreadAssumption DEF Thread
  <2>2. CASE i \in 1..Len(ci[t])
    <3>1. ci[t][i] = "C"
      BY <1>5, <2>1, <2>2
    <3>2. \/ i > 1 /\ ci[t][i - 1] = "lua"
          \/ i = 1 /\ t \in Hosted
          \/ \E j \in Nested(cstack, t, N) : cstack[j].ci = i - 1
      BY <2>1, <2>2, <3>1 DEF IInv, FramesOK, N
    <3>3. CASE i > 1 /\ ci[t][i - 1] = "lua"
      <4>1. i - 1 \in 1..Len(ci[t])
        BY <1>5, <2>1, <2>2, <3>3
      <4>2. QED
        BY <1>5, <2>1, <3>3, <4>1
    <3>4. CASE \E j \in Nested(cstack, t, N) : cstack[j].ci = i - 1
      <4>1. PICK j \in Nested(cstack, t, N) : cstack[j].ci = i - 1
        BY <3>4
      <4>2. j \in 1..N
        BY DEF Nested
      <4>3. QED
        BY <1>2, <1>7, <4>1, <4>2
    <3>5. QED
      BY <3>2, <3>3, <3>4
  <2>3. CASE i \notin 1..Len(ci[t])
    <3>1. t = th /\ i = Len(ci[th]) + 1
      BY <1>5, <2>1, <2>3
    <3>2. N + 1 \in Nested(cstack', t, N + 1) /\ cstack'[N + 1].ci = i - 1
      BY <1>1, <1>2, <1>5, <1>7, <3>1
    <3>3. QED
      BY <3>2
  <2>4. QED
    BY <2>2, <2>3
<1>15. DepthOK'
  <2>1. LUAI_MAXCCALLS \in Nat \ {0} /\ Spare \in Nat \ {0}
    BY LimitAssumption
  <2>2. \A i \in 1..N : Level(i)' = Level(i)
    BY <1>2, Types DEF Level
  <2>3. \A i : i = N + 1 => Level(i)' = n
    BY <1>1, <1>2 DEF Level
  <2>4. nCcalls[th] < LUAI_MAXCCALLS + Spare
    <3>1. CASE ~Idle /\ th = L
      BY <3>1, LastEntry DEF CallEntry
    <3>2. CASE ~(~Idle /\ th = L)
      <4>1. th = Main /\ ~(err = "throw" /\ L = Main)
        BY <3>2 DEF CallEntry, IInv, TypeOK
      <4>2. QED
        BY <4>1 DEF IInv, DepthOK
    <3>3. QED
      BY <3>1, <3>2
  <2>5. n \in Nat /\ n >= 1 /\ n <= LUAI_MAXCCALLS + Spare
    BY <1>1, <2>1, <2>4
  <2>6. err' # "throw" => n < LUAI_MAXCCALLS + Spare
    BY <1>3, <2>1, <2>5
  <2>7. ASSUME NEW i \in 1..N
        PROVE  /\ Level(i) < LUAI_MAXCCALLS + Spare
               /\ Level(i) <= LUAI_MAXCCALLS + Spare
    <3>1. i < N \/ err # "throw"
      BY <1>2, Types DEF CallEntry
    <3>2. QED
      BY <3>1 DEF IInv, DepthOK, N
  <2>8. ASSUME NEW i \in 1..N, NEW j \in i..N, \A h \in i + 1..j : ~cstack'[h].host
        PROVE  j - i + 1 <= Level(j)
    <3>1. \A h \in i + 1..j : cstack'[h] = cstack[h]
      BY <1>2
    <3>2. QED
      BY <2>8, <3>1 DEF IInv, DepthOK, N
  <2>9. ASSUME NEW i \in 1..N, \A h \in i + 1..N + 1 : ~cstack'[h].host
        PROVE  N + 1 - i + 1 <= n
    <3>1. N + 1 \in i + 1..N + 1 /\ N \in i..N
      BY <1>2
    <3>2. ~e.host
      BY <1>2, <2>9, <3>1
    <3>3. nCcalls[th] = Level(N)
      BY <3>2, LastEntry DEF CallEntry
    <3>4. \A h \in i + 1..N : h \in i + 1..N + 1
      BY <1>2
    <3>5. N - i + 1 <= Level(N)
      BY <2>8, <2>9, <3>1, <3>4
    <3>6. QED
      BY <1>1, <1>2, <3>3, <3>5
  <2>10. ASSUME NEW i \in 1..N + 1
         PROVE  /\ Level(i)' <= LUAI_MAXCCALLS + Spare
                /\ i < N + 1 \/ err' # "throw" => Level(i)' < LUAI_MAXCCALLS + Spare
                /\ \A j \in i..N + 1 :
                     (\A h \in i + 1..j : ~cstack'[h].host) => j - i + 1 <= Level(j)'
    <3>1. CASE i = N + 1
      <4>1. \A j \in i..N + 1 : j = N + 1
        BY <1>2, <3>1
      <4>2. QED
        BY <1>2, <2>3, <2>5, <2>6, <3>1, <4>1
    <3>2. CASE i \in 1..N
      <4>1. \A j \in i..N + 1 : (j \in i..N /\ j \in 1..N) \/ j = N + 1
        BY <1>2, <3>2
      <4>2. ASSUME NEW j \in i..N + 1, \A h \in i + 1..j : ~cstack'[h].host
            PROVE  j - i + 1 <= Level(j)'
        <5>1. CASE j \in i..N /\ j \in 1..N
          BY <2>2, <2>8, <3>2, <4>2, <5>1
        <5>2. CASE j = N + 1
          <6>1. Level(j)' = n
            BY <2>3, <5>2
          <6>2. \A h \in i + 1..N + 1 : ~cstack'[h].host
            BY <4>2, <5>2
          <6>3. N + 1 - i + 1 <= n
            BY <2>9, <3>2, <6>2
          <6>4. QED
            BY <1>2, <2>5, <5>2, <6>1, <6>3
        <5>3. QED
          BY <4>1, <5>1, <5>2
      <4>3. QED
        BY <2>2, <2>7, <3>2, <4>2
    <3>3. QED
      BY <1>2, <3>1, <3>2
  <2>11. nCcalls'[Main] < LUAI_MAXCCALLS + Spare \/ (err' = "throw" /\ L' = Main)
    <3>1. L' = th /\ Main \in Thread
      BY <1>2 DEF L, Last, Thread
    <3>2. CASE th = Main
      <4>1. nCcalls'[Main] = n
        BY <1>4, <3>1, <3>2 DEF IInv, TypeOK
      <4>2. QED
        BY <2>6, <3>1, <3>2, <4>1
    <3>3. CASE th # Main
      <4>1. nCcalls'[Main] = nCcalls[Main]
        BY <1>4, <3>1, <3>3 DEF IInv, TypeOK
      <4>2. ~(err = "throw" /\ L = Main)
        BY <3>3 DEF CallEntry, IInv, TypeOK
      <4>3. QED
        BY <4>1, <4>2 DEF IInv, DepthOK
    <3>4. QED
      BY <3>2, <3>3
  <2>12. QED
    BY <1>2, <2>10, <2>11 DEF DepthOK
<1>16. YieldClean'
  <2> SUFFICES ASSUME NEW c \in Thread, status'[c] = "yield"
               PROVE  /\ ~Active(c)' /\ ~errfunc'[c] /\ Rests(c, ci'[c])
    BY DEF YieldClean, Rests
  <2>1. c # th /\ status[c] = "yield"
    BY <1>1
  <2>2. ci'[c] = ci[c] /\ errfunc'[c] = errfunc[c]
    BY <1>5, <2>1
  <2>3. QED
    BY <1>8, <2>1, <2>2 DEF IInv, YieldClean, Rests
<1>17. QED
  BY <1>6, <1>9, <1>10, <1>11, <1>12, <1>13, <1>14, <1>15, <1>16 DEF IInv
-----------------------------------------------------------------------------
(* lua_resume adds an entry.                                               *)

\* What lua_resume of c changes, by thread.
Resumed(c, n, e) ==
  /\ cstack' = Append(cstack, e) /\ err' = err
  /\ ci' \in [Thread -> Seq({"lua", "C"})]
  /\ \A t \in Thread : t # c => ci'[t] = ci[t]
  /\ Len(ci'[c]) >= 1
  /\ \A i \in 1..Len(ci'[c]) :
       ci'[c][i] = "C" => \/ i = 1 /\ c \in Hosted
                          \/ /\ status[c] = "yield" /\ i \in 1..Len(ci[c])
                             /\ ci'[c][i] = ci[c][i]
                             /\ i > 1 => ci'[c][i - 1] = ci[c][i - 1]
  /\ nCcalls' \in [Thread -> Nat] /\ baseCcalls' \in [Thread -> Nat]
  /\ nCcalls'[c] = n + 1 /\ baseCcalls'[c] = n + 1 /\ status'[c] = "ok"
  /\ \A t \in Thread : t # c => /\ nCcalls'[t] = nCcalls[t] /\ baseCcalls'[t] = baseCcalls[t]
                                /\ status'[t] = status[t]
  /\ status' \in [Thread -> {"ok", "yield", "error"}]
  /\ errfunc' = errfunc
  /\ top' \in [Thread -> BOOLEAN] /\ start' \in [Hosted -> BOOLEAN]

LEMMA PushResume ==
  ASSUME IInv, NEW c \in Coroutine, NEW n \in Nat, NEW e \in EntryType,
         e.kind = "resume", e.th = c, e.ci = 0,
         status[c] = "yield" \/ (status[c] = "ok" /\ ci[c] = <<>>),
         Idle \/ err = "none",
         n < LUAI_MAXCCALLS,
         ~e.host => ~Idle /\ n = nCcalls[L],
         Resumed(c, n, e)
  PROVE  IInv'
<1>1. /\ c \in Thread /\ c # Main /\ ~Active(c) /\ ~errfunc[c]
      /\ \A i \in 1..N : cstack[i].th # c
      /\ \A k \in 0..N : Nested(cstack, c, k) = {} /\ Pcalls(cstack, c, k) = {}
  <2>1. c \in Thread /\ c # Main
    BY ThreadAssumption DEF Thread
  <2>2. ~Active(c)
    BY <2>1 DEF IInv, YieldClean, ThreadsOK
  <2>3. \A i \in 1..N : cstack[i].th # c
    BY <2>2, Types DEF Active, Entries, N
  <2>4. \A k \in 0..N : Nested(cstack, c, k) = {} /\ Pcalls(cstack, c, k) = {}
    BY <2>3, Types DEF Nested, Pcalls
  <2>5. N \in 0..N
    BY Types
  <2>6. ~errfunc[c]
    BY <2>1, <2>4, <2>5 DEF IInv, HandlersOK, N
  <2>7. QED
    BY <2>1, <2>2, <2>3, <2>4, <2>6
<1>2. /\ Len(cstack') = N + 1 /\ N \in Nat /\ cstack' \in Seq(EntryType)
      /\ \A i \in 1..N : cstack'[i] = cstack[i]
      /\ cstack'[N + 1] = e
  BY Types, Appended DEF N, Resumed
<1>3. /\ ci' \in [Thread -> Seq({"lua", "C"})]
      /\ \A t \in Thread : t # c => ci'[t] = ci[t]
      /\ Len(ci'[c]) >= 1
      /\ \A i \in 1..Len(ci'[c]) :
           ci'[c][i] = "C" => \/ i = 1 /\ c \in Hosted
                              \/ /\ status[c] = "yield" /\ i \in 1..Len(ci[c])
                                 /\ ci'[c][i] = ci[c][i]
                                 /\ i > 1 => ci'[c][i - 1] = ci[c][i - 1]
  BY DEF Resumed
<1>4. /\ \A t, k : k \in 0..N => Nested(cstack', t, k) = Nested(cstack, t, k)
                                 /\ Pcalls(cstack', t, k) = Pcalls(cstack, t, k)
      /\ \A t : Nested(cstack', t, N + 1) = Nested(cstack, t, N)
      /\ \A t : Pcalls(cstack', t, N + 1) = Pcalls(cstack, t, N)
      /\ N \in 0..N
  BY <1>2 DEF Nested, Pcalls
<1>5. \A t \in Thread : Active(t)' <=> Active(t) \/ t = c
  <2>1. DOMAIN cstack = 1..N /\ DOMAIN cstack' = 1..N + 1
    BY <1>2, Types DEF N
  <2>2. QED
    BY <1>2, <2>1 DEF Active, Entries
<1>6. /\ nCcalls' \in [Thread -> Nat] /\ baseCcalls' \in [Thread -> Nat]
      /\ nCcalls'[c] = n + 1 /\ baseCcalls'[c] = n + 1 /\ status'[c] = "ok"
      /\ \A t \in Thread : t # c => /\ nCcalls'[t] = nCcalls[t] /\ baseCcalls'[t] = baseCcalls[t]
                                    /\ status'[t] = status[t]
      /\ status' \in [Thread -> {"ok", "yield", "error"}]
  BY DEF Resumed
<1>7. L' = c /\ Last(cstack') = e /\ cstack' # <<>>
  BY <1>2 DEF L, Last
<1>8. TypeOK'
  <2>1. err' \in {"none", "run", "throw", "lost"} /\ errfunc' \in [Thread -> BOOLEAN]
    BY DEF IInv, TypeOK, Resumed
  <2>2. top' \in [Thread -> BOOLEAN] /\ start' \in [Hosted -> BOOLEAN]
    BY DEF Resumed
  <2>3. err' = "none" => Len(ci'[L']) > Last(cstack').ci
    BY <1>3, <1>7
  <2>4. QED
    BY <1>2, <1>3, <1>6, <1>7, <2>1, <2>2, <2>3 DEF TypeOK, Idle
<1>9. \A i \in 1..N + 1 : i \in 1..N \/ i = N + 1
  BY <1>2
<1>10. EntriesOK'
  <2>1. ASSUME NEW i \in 1..N
        PROVE  EntryOK(cstack', i)
    <3>1. EntryOK(cstack, i)
      BY DEF IInv, EntriesOK, N
    <3>2. i \in Nat /\ i >= 1 /\ \A j \in 1..i : cstack[j] = cstack'[j]
      BY <1>2
    <3>3. QED
      BY <3>1, <3>2, EntrySame
  <2>2. cstack'[N + 1].th = c /\ cstack'[N + 1].kind = "resume" /\ \A j \in 1..N : cstack'[j].th # c
    BY <1>1, <1>2
  <2>3. EntryOK(cstack', N + 1)
    BY <1>1, <1>2, <2>2, EntryNext
  <2>4. QED
    BY <1>2, <1>9, <2>1, <2>3 DEF EntriesOK
<1>11. LevelsOK'
  <2>1. ASSUME NEW i \in 1..N + 1, cstack'[i].kind # "resume"
        PROVE  cstack'[i].nCcalls = baseCcalls'[cstack'[i].th]
                                      + Cardinality(Nested(cstack', cstack'[i].th, i - 1))
    <3>1. i \in 1..N /\ i - 1 \in 0..N
      BY <1>2, <1>9, <2>1
    <3>2. cstack'[i] = cstack[i] /\ cstack[i].th \in Thread /\ cstack[i].th # c
      BY <1>1, <1>2, <3>1, Types
    <3>3. cstack[i].nCcalls = baseCcalls[cstack[i].th] + Cardinality(Nested(cstack, cstack[i].th, i - 1))
      BY <2>1, <3>1, <3>2 DEF IInv, LevelsOK, N
    <3>4. baseCcalls'[cstack[i].th] = baseCcalls[cstack[i].th]
      BY <1>6, <3>2
    <3>5. Nested(cstack', cstack[i].th, i - 1) = Nested(cstack, cstack[i].th, i - 1)
      BY <1>4, <3>1
    <3>6. QED
      BY <3>2, <3>3, <3>4, <3>5
  <2>2. ASSUME NEW t \in Thread, Active(t)' \/ t = Main
        PROVE  nCcalls'[t] = baseCcalls'[t] + Cardinality(Nested(cstack', t, N + 1))
    <3>1. CASE t = c
      <4>1. Cardinality(Nested(cstack', t, N + 1)) = 0
        BY <1>1, <1>2, <1>4, <3>1, NestedNone
      <4>2. QED
        BY <1>6, <3>1, <4>1
    <3>2. CASE t # c
      BY <1>4, <1>5, <1>6, <2>2, <3>2 DEF IInv, LevelsOK, N
    <3>3. QED
      BY <3>1, <3>2
  <2>3. baseCcalls'[Main] = 0
    BY <1>1, <1>6 DEF IInv, LevelsOK, Thread
  <2>4. QED
    BY <1>2, <2>1, <2>2, <2>3 DEF LevelsOK
<1>12. HeightsOK'
  <2>1. ASSUME NEW i \in 1..N
        PROVE  /\ cstack'[i].ci <= Len(ci'[cstack'[i].th])
               /\ cstack'[i].kind # "resume" /\ cstack'[i].th # Main => cstack'[i].ci >= 1
               /\ \A j \in i + 1..N + 1 : cstack'[j].th = cstack'[i].th => cstack'[i].ci <= cstack'[j].ci
    <3>1. /\ cstack[i].ci <= Len(ci[cstack[i].th])
          /\ cstack[i].kind # "resume" /\ cstack[i].th # Main => cstack[i].ci >= 1
          /\ \A j \in i + 1..N : cstack[j].th = cstack[i].th => cstack[i].ci <= cstack[j].ci
      BY DEF IInv, HeightsOK, N
    <3>2. cstack'[i] = cstack[i] /\ ci'[cstack[i].th] = ci[cstack[i].th] /\ cstack[i].th # c
      BY <1>1, <1>2, <1>3, Types
    <3>3. \A j \in i + 1..N + 1 : (j \in i + 1..N /\ cstack'[j] = cstack[j]) \/ cstack'[j].th = c
      BY <1>2
    <3>4. QED
      BY <3>1, <3>2, <3>3
  <2>2. ASSUME NEW i \in 1..N + 1
        PROVE  /\ cstack'[i].ci <= Len(ci'[cstack'[i].th])
               /\ cstack'[i].kind # "resume" /\ cstack'[i].th # Main => cstack'[i].ci >= 1
               /\ \A j \in i + 1..N + 1 : cstack'[j].th = cstack'[i].th => cstack'[i].ci <= cstack'[j].ci
    <3>1. N + 1 + 1..N + 1 = {} /\ cstack'[N + 1].ci <= Len(ci'[cstack'[N + 1].th])
      BY <1>2, <1>3
    <3>2. cstack'[N + 1].kind = "resume"
      BY <1>2
    <3>3. QED
      BY <1>9, <2>1, <3>1, <3>2
  <2>3. ASSUME NEW i \in 1..N, cstack'[i + 1].kind # "handler"
        PROVE  /\ cstack'[i].ci < Len(ci'[cstack'[i].th])
               /\ \A j \in i + 1..N + 1 : cstack'[j].th = cstack'[i].th => cstack'[i].ci < cstack'[j].ci
    <3>1. cstack'[i] = cstack[i] /\ ci'[cstack[i].th] = ci[cstack[i].th] /\ cstack[i].th # c
      BY <1>1, <1>2, <1>3, Types
    <3>2. \A j \in i + 1..N + 1 : (j \in i + 1..N /\ cstack'[j] = cstack[j]) \/ cstack'[j].th = c
      BY <1>2
    <3>3. CASE i \in 1..N - 1
      <4>1. cstack[i + 1].kind # "handler"
        BY <1>2, <2>3, <3>3
      <4>2. /\ cstack[i].ci < Len(ci[cstack[i].th])
            /\ \A j \in i + 1..N : cstack[j].th = cstack[i].th => cstack[i].ci < cstack[j].ci
        BY <3>3, <4>1 DEF IInv, HeightsOK, N
      <4>3. QED
        BY <3>1, <3>2, <4>2
    <3>4. CASE i = N
      <4>1. ~Idle /\ err = "none" /\ L = cstack[N].th /\ Last(cstack) = cstack[N]
        BY <1>2, <3>4, Types
      <4>2. Len(ci[L]) > cstack[N].ci
        BY <4>1 DEF IInv, TypeOK
      <4>3. i + 1..N = {}
        BY <1>2, <3>4
      <4>4. cstack[N].ci \in Nat /\ Len(ci[L]) \in Nat
        BY <1>2, <3>4, <4>1, Types
      <4>5. cstack[i].ci < Len(ci[cstack[i].th])
        BY <3>4, <4>1, <4>2, <4>4
      <4>6. \A j \in i + 1..N + 1 : cstack'[j].th = c
        BY <3>2, <4>3
      <4>7. QED
        BY <3>1, <4>5, <4>6
    <3>5. i \in 1..N - 1 \/ i = N
      BY <1>2
    <3>6. QED
      BY <3>3, <3>4, <3>5
  <2>4. Len(cstack') = N + 1 /\ Len(cstack') - 1 = N
    BY <1>2
  <2>5. QED
    BY <2>2, <2>3, <2>4 DEF HeightsOK
<1>13. HandlersOK'
  <2>1. ASSUME NEW i \in 1..N + 1, cstack'[i].kind # "resume", cstack'[i].errfunc
        PROVE  Pcalls(cstack', cstack'[i].th, i - 1) # {}
    <3>1. i \in 1..N /\ i - 1 \in 0..N
      BY <1>2, <1>9, <2>1
    <3>2. cstack'[i] = cstack[i]
      BY <1>2, <3>1
    <3>3. Pcalls(cstack, cstack[i].th, i - 1) # {}
      BY <2>1, <3>1, <3>2 DEF IInv, HandlersOK, N
    <3>4. QED
      BY <1>4, <3>1, <3>2, <3>3
  <2>2. ASSUME NEW t \in Thread, status'[t] # "error", errfunc'[t]
        PROVE  Pcalls(cstack', t, N + 1) # {}
    <3>1. t # c /\ status[t] # "error" /\ errfunc[t]
      BY <1>1, <1>6, <2>2 DEF Resumed
    <3>2. QED
      BY <1>4, <3>1 DEF IInv, HandlersOK, N
  <2>3. QED
    BY <1>2, <2>1, <2>2 DEF HandlersOK
<1>14. ThreadsOK'
  <2>1. ci'[c] # <<>>
    BY <1>1, <1>3
  <2>2. status'[Main] = "ok"
    BY <1>1, <1>6 DEF IInv, ThreadsOK, Thread
  <2>3. ASSUME NEW t \in Thread, Active(t)'
        PROVE  status'[t] = "ok" /\ (t # Main => ci'[t] # <<>>)
    <3>1. CASE t = c
      BY <1>6, <2>1, <3>1
    <3>2. CASE t # c
      <4>1. Active(t) /\ ci'[t] = ci[t] /\ status'[t] = status[t]
        BY <1>3, <1>5, <1>6, <2>3, <3>2
      <4>2. QED
        BY <4>1 DEF IInv, ThreadsOK
    <3>3. QED
      BY <3>1, <3>2
  <2>4. QED
    BY <2>2, <2>3 DEF ThreadsOK
<1>15. FramesOK'
  <2>0. Len(cstack') = N + 1
    BY <1>2
  <2> SUFFICES ASSUME NEW t \in Coroutine, Active(t)' \/ status'[t] = "yield",
                      NEW i \in 1..Len(ci'[t]), ci'[t][i] = "C"
               PROVE  \/ i > 1 /\ ci'[t][i - 1] = "lua"
                      \/ i = 1 /\ t \in Hosted
                      \/ \E j \in Nested(cstack', t, N + 1) : cstack'[j].ci = i - 1
    BY <2>0 DEF FramesOK
  <2>1. t \in Thread
    BY DEF Thread
  <2>2. CASE t = c
    <3>1. \/ i = 1 /\ c \in Hosted
          \/ status[c] = "yield" /\ i \in 1..Len(ci[c]) /\ ci[c][i] = "C"
      BY <1>3, <2>2
    <3>2. ASSUME ~(i = 1 /\ c \in Hosted)
          PROVE  i > 1 /\ ci[c][i - 1] = "lua"
      BY <1>1, <1>4, <3>1, <3>2 DEF IInv, FramesOK, N
    <3>3. QED
      BY <1>3, <2>2, <3>2
  <2>3. CASE t # c
    <3>1. ci'[t] = ci[t] /\ (Active(t) \/ status[t] = "yield")
      BY <1>3, <1>5, <1>6, <2>1, <2>3
    <3>2. \/ i > 1 /\ ci[t][i - 1] = "lua"
          \/ i = 1 /\ t \in Hosted
          \/ \E j \in Nested(cstack, t, N) : cstack[j].ci = i - 1
      BY <3>1 DEF IInv, FramesOK, N
    <3>3. \A j \in Nested(cstack, t, N) : cstack'[j] = cstack[j]
      BY <1>2 DEF Nested
    <3>4. QED
      BY <1>4, <3>1, <3>2, <3>3
  <2>4. QED
    BY <2>2, <2>3
<1>16. DepthOK'
  <2>1. LUAI_MAXCCALLS \in Nat \ {0} /\ Spare \in Nat \ {0}
    BY LimitAssumption
  <2>2. \A i \in 1..N : Level(i)' = Level(i)
    <3>1. \A i \in 1..N : cstack[i].th \in Thread /\ cstack[i].th # c
      BY <1>1, Types
    <3>2. QED
      BY <1>2, <1>6, <3>1 DEF Level
  <2>3. \A i : i = N + 1 => Level(i)' = n + 1
    BY <1>2, <1>6 DEF Level
  <2>4. n + 1 \in Nat /\ n + 1 >= 1 /\ n + 1 < LUAI_MAXCCALLS + Spare
    BY <2>1
  <2>5. ASSUME NEW i \in 1..N
        PROVE  Level(i) < LUAI_MAXCCALLS + Spare /\ Level(i) <= LUAI_MAXCCALLS + Spare
    <3>1. i < N \/ err # "throw"
      BY <1>2, Types
    <3>2. QED
      BY <3>1 DEF IInv, DepthOK, N
  <2>6. ASSUME NEW i \in 1..N, NEW j \in i..N, \A h \in i + 1..j : ~cstack'[h].host
        PROVE  j - i + 1 <= Level(j)
    <3>1. \A h \in i + 1..j : cstack'[h] = cstack[h]
      BY <1>2
    <3>2. QED
      BY <2>6, <3>1 DEF IInv, DepthOK, N
  <2>7. ASSUME NEW i \in 1..N, \A h \in i + 1..N + 1 : ~cstack'[h].host
        PROVE  N + 1 - i + 1 <= n + 1
    <3>1. N + 1 \in i + 1..N + 1 /\ N \in i..N
      BY <1>2
    <3>2. ~e.host
      BY <1>2, <2>7, <3>1
    <3>3. n = Level(N)
      BY <3>2, LastEntry
    <3>4. \A h \in i + 1..N : h \in i + 1..N + 1
      BY <1>2
    <3>5. N - i + 1 <= Level(N)
      BY <2>6, <2>7, <3>1, <3>4
    <3>6. QED
      BY <1>2, <3>3, <3>5
  <2>8. ASSUME NEW i \in 1..N + 1
        PROVE  /\ Level(i)' <= LUAI_MAXCCALLS + Spare
               /\ i < N + 1 \/ err' # "throw" => Level(i)' < LUAI_MAXCCALLS + Spare
               /\ \A j \in i..N + 1 :
                    (\A h \in i + 1..j : ~cstack'[h].host) => j - i + 1 <= Level(j)'
    <3>1. CASE i = N + 1
      <4>1. \A j \in i..N + 1 : j = N + 1
        BY <1>2, <3>1
      <4>2. QED
        BY <1>2, <2>1, <2>3, <2>4, <3>1, <4>1
    <3>2. CASE i \in 1..N
      <4>1. \A j \in i..N + 1 : (j \in i..N /\ j \in 1..N) \/ j = N + 1
        BY <1>2, <3>2
      <4>2. ASSUME NEW j \in i..N + 1, \A h \in i + 1..j : ~cstack'[h].host
            PROVE  j - i + 1 <= Level(j)'
        <5>1. CASE j \in i..N /\ j \in 1..N
          BY <2>2, <2>6, <3>2, <4>2, <5>1
        <5>2. CASE j = N + 1
          <6>1. Level(j)' = n + 1
            BY <2>3, <5>2
          <6>2. \A h \in i + 1..N + 1 : ~cstack'[h].host
            BY <4>2, <5>2
          <6>3. N + 1 - i + 1 <= n + 1
            BY <2>7, <3>2, <6>2
          <6>4. QED
            BY <1>2, <5>2, <6>1, <6>3
        <5>3. QED
          BY <4>1, <5>1, <5>2
      <4>3. QED
        BY <2>2, <2>5, <3>2, <4>2
    <3>3. QED
      BY <1>9, <3>1, <3>2
  <2>9. nCcalls'[Main] < LUAI_MAXCCALLS + Spare \/ (err' = "throw" /\ L' = Main)
    <3>1. Main \in Thread /\ nCcalls'[Main] = nCcalls[Main]
      BY <1>1, <1>6 DEF Thread
    <3>2. err # "throw"
      BY DEF IInv, TypeOK
    <3>3. QED
      BY <3>1, <3>2 DEF IInv, DepthOK
  <2>10. Len(cstack') = N + 1
    BY <1>2
  <2>11. QED
    BY <2>8, <2>9, <2>10 DEF DepthOK
<1>17. YieldClean'
  <2> SUFFICES ASSUME NEW t \in Thread, status'[t] = "yield"
               PROVE  /\ ~Active(t)' /\ ~errfunc'[t] /\ Rests(t, ci'[t])
    BY DEF YieldClean, Rests
  <2>1. t # c /\ status[t] = "yield"
    BY <1>6
  <2>2. ci'[t] = ci[t] /\ errfunc'[t] = errfunc[t]
    BY <1>3, <2>1 DEF Resumed
  <2>3. QED
    BY <1>5, <2>1, <2>2 DEF IInv, YieldClean, Rests
<1>18. QED
  BY <1>8, <1>10, <1>11, <1>12, <1>13, <1>14, <1>15, <1>16, <1>17 DEF IInv
-----------------------------------------------------------------------------
(* The end of a call or a coroutine, whose entry is k, cuts the C stack.   *)

\* What it changes, by thread: entry k is the thread's that ran, as are the calls
\* above it that an error ends too.
Cut(k) ==
  /\ ~Idle /\ k \in 1..N
  /\ \A j \in k..N : cstack[j].th = L
  /\ \A j \in k + 1..N : cstack[j].kind \in {"call", "handler"}
  /\ cstack' = SubSeq(cstack, 1, k - 1)
  /\ ci' \in [Thread -> Seq({"lua", "C"})] /\ nCcalls' \in [Thread -> Nat]
  /\ status' \in [Thread -> {"ok", "yield", "error"}] /\ errfunc' \in [Thread -> BOOLEAN]
  /\ \A t \in Thread : t # L => /\ ci'[t] = ci[t] /\ nCcalls'[t] = nCcalls[t]
                                /\ status'[t] = status[t] /\ errfunc'[t] = errfunc[t]
  /\ baseCcalls' = baseCcalls
  /\ top' \in [Thread -> BOOLEAN] /\ start' \in [Hosted -> BOOLEAN]

\* A call is forgotten.
CutCall(k) ==
  /\ Cut(k) /\ cstack[k].kind # "resume"
  /\ nCcalls'[L] = cstack[k].nCcalls /\ status'[L] = status[L]
  /\ Len(ci'[L]) = cstack[k].ci /\ \A i \in 1..Len(ci'[L]) : ci'[L][i] = ci[L][i]
  /\ errfunc'[L] = IF cstack[k].kind = "pcall" THEN cstack[k].errfunc ELSE errfunc[L]
  /\ err' = IF cstack[k].kind = "handler" THEN "throw" ELSE "none"

\* A coroutine ends, or yields.
CutResume(k) ==
  /\ Cut(k) /\ cstack[k].kind = "resume"
  /\ status'[L] = "error" \/ ~errfunc'[L]
  /\ status'[L] = "yield" =>
       /\ Rests(L, ci'[L])
       /\ \A i \in 1..Len(ci'[L]) :
            ci'[L][i] = "C" => (i > 1 /\ ci'[L][i - 1] = "lua") \/ (i = 1 /\ L \in Hosted)
  /\ err' = "none"

LEMMA CutEntries ==
  ASSUME IInv, NEW k, Cut(k)
  PROVE  /\ k \in 1..N /\ k - 1 \in 0..N /\ N \in Nat
         /\ cstack' \in Seq(EntryType) /\ Len(cstack') = k - 1
         /\ \A i \in 1..k - 1 : i \in 1..N - 1 /\ cstack'[i] = cstack[i] /\ k \in i + 1..N
         /\ \A t, i : i \in 0..k - 1 => Nested(cstack', t, i) = Nested(cstack, t, i)
                                        /\ Pcalls(cstack', t, i) = Pcalls(cstack, t, i)
         /\ \A t : t # L => Nested(cstack', t, k - 1) = Nested(cstack, t, N)
                            /\ Pcalls(cstack', t, k - 1) = Pcalls(cstack, t, N)
         /\ \A t : Active(t)' => Active(t) /\ \E i \in 1..k - 1 : cstack[i].th = t
         /\ \A i \in 1..k - 1 : cstack[i].th = L => cstack[k].kind # "resume"
         /\ cstack[k].kind # "resume" => cstack[k].nCcalls < LUAI_MAXCCALLS + Spare
         /\ cstack[k].kind = "resume" => L # Main
<1>1. k \in 1..N /\ k - 1 \in 0..N /\ k - 1 \in Nat /\ k - 1 <= N /\ N \in Nat
  BY Types DEF Cut
<1>2. \A i \in 1..k - 1 : i \in 1..N - 1 /\ k \in i + 1..N
  BY <1>1
<1>3. /\ cstack' \in Seq(EntryType) /\ Len(cstack') = k - 1
      /\ \A i \in 1..k - 1 : cstack'[i] = cstack[i]
  <2>1. cstack' = SubSeq(cstack, 1, k - 1) /\ cstack \in Seq(EntryType)
    BY Types DEF Cut
  <2> DEFINE h == k - 1
  <2>2. h \in Nat /\ h <= Len(cstack)
    BY <1>1 DEF N
  <2> HIDE DEF h
  <2>3. /\ SubSeq(cstack, 1, h) \in Seq(EntryType) /\ Len(SubSeq(cstack, 1, h)) = h
        /\ \A i \in 1..h : SubSeq(cstack, 1, h)[i] = cstack[i]
    BY <2>1, <2>2, Prefix
  <2>4. QED
    BY <2>1, <2>3 DEF h
<1>4. /\ \A t, i : i \in 0..k - 1 => Nested(cstack', t, i) = Nested(cstack, t, i)
                                     /\ Pcalls(cstack', t, i) = Pcalls(cstack, t, i)
  <2>1. \A i \in 0..k - 1 : \A j \in 1..i : j \in 1..k - 1
    BY <1>1
  <2>2. QED
    BY <1>3, <2>1 DEF Nested, Pcalls
<1>5. \A j \in 1..N : j \in 1..k - 1 \/ cstack[j].th = L
  BY <1>1 DEF Cut
<1>6. \A t : t # L => Nested(cstack', t, k - 1) = Nested(cstack, t, N)
                      /\ Pcalls(cstack', t, k - 1) = Pcalls(cstack, t, N)
  <2>1. k - 1 \in 0..k - 1 /\ \A j \in 1..k - 1 : j \in 1..N
    BY <1>1, <1>2
  <2>2. \A t : t # L => Nested(cstack, t, k - 1) = Nested(cstack, t, N)
                        /\ Pcalls(cstack, t, k - 1) = Pcalls(cstack, t, N)
    BY <1>5, <2>1 DEF Nested, Pcalls
  <2>3. QED
    BY <1>4, <2>1, <2>2
<1>7. \A t : Active(t)' => Active(t) /\ \E i \in 1..k - 1 : cstack[i].th = t
  <2>1. DOMAIN cstack = 1..N /\ DOMAIN cstack' = 1..k - 1
    BY <1>1, <1>3, Types DEF N
  <2>2. QED
    BY <1>1, <1>2, <1>3, <2>1 DEF Active, Entries
<1>8. EntryOK(cstack, k) /\ cstack[k].th = L
  BY <1>1 DEF IInv, EntriesOK, N, Cut
<1>9. \A i \in 1..k - 1 : cstack[i].th = L => cstack[k].kind # "resume"
  BY <1>8 DEF EntryOK
<1>10. cstack[k].kind = "resume" => L # Main
  BY <1>8 DEF EntryOK
<1>11. cstack[k].kind # "resume" => cstack[k].nCcalls < LUAI_MAXCCALLS + Spare
  <2>1. Level(k) <= LUAI_MAXCCALLS + Spare /\ cstack[k].nCcalls \in Nat
    BY <1>1, Types DEF IInv, DepthOK, N
  <2>2. QED
    BY <2>1, LimitAssumption DEF Level
<1>12. QED
  BY <1>1, <1>2, <1>3, <1>4, <1>6, <1>7, <1>9, <1>10, <1>11
LEMMA CutStep ==
  ASSUME IInv, NEW k, CutCall(k) \/ CutResume(k)
  PROVE  IInv'
<1> DEFINE M == k - 1
<1>1. /\ k \in 1..N /\ M \in 0..N /\ N \in Nat
      /\ Len(cstack') = M
      /\ \A i \in 1..M : i \in 1..N - 1 /\ cstack'[i] = cstack[i] /\ k \in i + 1..N
      /\ Cut(k) /\ ~Idle
  BY CutEntries DEF CutCall, CutResume, Cut
<1>2. /\ \A t, i : i \in 0..M => Nested(cstack', t, i) = Nested(cstack, t, i)
                                 /\ Pcalls(cstack', t, i) = Pcalls(cstack, t, i)
      /\ \A t : t # L => Nested(cstack', t, M) = Nested(cstack, t, N)
                         /\ Pcalls(cstack', t, M) = Pcalls(cstack, t, N)
  BY <1>1, CutEntries
<1>3. /\ \A t : Active(t)' => Active(t) /\ \E i \in 1..M : cstack[i].th = t
      /\ \A i \in 1..M : cstack[i].th = L => cstack[k].kind # "resume"
  BY <1>1, CutEntries
<1>4. /\ L \in Thread /\ Active(L) /\ status[L] = "ok" /\ cstack[k].th = L
      /\ Len(ci[L]) \in Nat /\ cstack[k].ci \in Nat /\ cstack[k].ci <= Len(ci[L])
  <2>1. L \in Thread /\ Active(L) /\ status[L] = "ok"
    BY <1>1, LastEntry
  <2>2. cstack[k].th = L
    BY <1>1 DEF Cut
  <2>3. Len(ci[L]) \in Nat /\ cstack[k].ci \in Nat
    BY <1>1, <2>1, Types
  <2>4. cstack[k].ci <= Len(ci[L])
    BY <1>1, <2>2 DEF IInv, HeightsOK, N
  <2>5. QED
    BY <2>1, <2>2, <2>3, <2>4
<1>5. \A t \in Thread : t # L => /\ ci'[t] = ci[t] /\ nCcalls'[t] = nCcalls[t]
                                 /\ status'[t] = status[t] /\ errfunc'[t] = errfunc[t]
  BY <1>1 DEF Cut
<1>6. cstack[k].kind # "resume" =>
        /\ nCcalls'[L] = cstack[k].nCcalls /\ status'[L] = "ok"
        /\ Len(ci'[L]) = cstack[k].ci /\ \A i \in 1..Len(ci'[L]) : ci'[L][i] = ci[L][i]
        /\ errfunc'[L] = IF cstack[k].kind = "pcall" THEN cstack[k].errfunc ELSE errfunc[L]
  BY <1>4 DEF CutCall, CutResume
<1>7. cstack[k].kind = "resume" =>
        /\ L # Main
        /\ status'[L] = "error" \/ ~errfunc'[L]
        /\ status'[L] = "yield" =>
             /\ Rests(L, ci'[L])
             /\ \A i \in 1..Len(ci'[L]) :
                  ci'[L][i] = "C" => (i > 1 /\ ci'[L][i - 1] = "lua") \/ (i = 1 /\ L \in Hosted)
  BY <1>1, CutEntries DEF CutCall, CutResume
<1>8. err' = IF cstack[k].kind = "handler" THEN "throw" ELSE "none"
  BY DEF CutCall, CutResume
<1>9. \A i \in 1..M : /\ cstack[i].th \in Thread /\ cstack[i].ci \in Nat /\ cstack[i].nCcalls \in Nat
                      /\ cstack[i].th = L => cstack[i].ci <= cstack[k].ci
  <2>1. \A i \in 1..M : i \in 1..N /\ k \in i + 1..N
    BY <1>1
  <2>2. \A i \in 1..M : cstack[i].th = L => cstack[i].ci <= cstack[k].ci
    BY <1>1, <1>4, <2>1 DEF IInv, HeightsOK, N
  <2>3. QED
    BY <2>1, <2>2, Types
<1>10. ASSUME NEW i \in 1..M, i < M => cstack[i + 1].kind # "handler", i = M => cstack[k].kind # "handler"
       PROVE  /\ cstack[i].ci < Len(ci'[cstack[i].th])
              /\ \A j \in i + 1..M : cstack[j].th = cstack[i].th => cstack[i].ci < cstack[j].ci
  <2>1. i \in 1..N - 1 /\ k \in i + 1..N
    BY <1>1
  <2>2. cstack[i + 1].kind # "handler"
    <3>1. CASE i < M
      BY <1>10, <3>1
    <3>2. CASE ~(i < M)
      <4>1. i = M /\ i + 1 = k
        BY <1>1, <3>2
      <4>2. QED
        BY <1>10, <4>1
    <3>3. QED
      BY <3>1, <3>2
  <2>3. /\ cstack[i].ci < Len(ci[cstack[i].th])
        /\ \A j \in i + 1..N : cstack[j].th = cstack[i].th => cstack[i].ci < cstack[j].ci
    BY <2>1, <2>2 DEF IInv, HeightsOK, N
  <2>4. cstack[i].ci < Len(ci'[cstack[i].th])
    <3>1. CASE cstack[i].th = L
      BY <1>3, <1>4, <1>6, <2>1, <2>3, <3>1
    <3>2. CASE cstack[i].th # L
      BY <1>5, <1>9, <2>3, <3>2
    <3>3. QED
      BY <3>1, <3>2
  <2>5. \A j \in i + 1..M : j \in i + 1..N
    BY <1>1
  <2>6. QED
    BY <2>3, <2>4, <2>5
<1>11. TypeOK'
  <2>1. cstack' # <<>> => L' = cstack[M].th /\ Last(cstack') = cstack[M] /\ M \in 1..M
    <3>1. cstack' \in Seq(EntryType)
      BY <1>1, CutEntries
    <3>2. cstack' # <<>> => M \in 1..M
      BY <1>1, <3>1
    <3>3. QED
      BY <1>1, <3>2 DEF L, Last
  <2>2. cstack' # <<>> /\ err' = "none" => Len(ci'[L']) > Last(cstack').ci
    <3> SUFFICES ASSUME cstack' # <<>>, err' = "none"
                 PROVE  Len(ci'[L']) > Last(cstack').ci
      OBVIOUS
    <3>1. cstack[k].kind # "handler" /\ M \in 1..M
      BY <1>8, <2>1
    <3>2. cstack[M].ci < Len(ci'[cstack[M].th])
      BY <1>10, <3>1
    <3>3. Len(ci'[cstack[M].th]) \in Nat /\ cstack[M].ci \in Nat
      BY <1>1, <1>9, <3>1 DEF Cut
    <3>4. QED
      BY <2>1, <3>2, <3>3
  <2>3. cstack' = <<>> => err' = "none"
    <3>1. ASSUME cstack[k].kind = "handler"
          PROVE  M # 0
      <4>1. PICK h \in 1..k : cstack[h].kind \in {"pcall", "resume"}
        BY <1>1 DEF IInv, EntriesOK, EntryOK, N
      <4>2. h # k
        BY <3>1, <4>1
      <4>3. QED
        BY <1>1, <4>2
    <3>2. cstack' = <<>> => M = 0
      BY <1>1
    <3>3. QED
      BY <1>8, <3>1, <3>2
  <2>4. err' \in {"none", "run", "throw"}
    BY <1>8
  <2>5. cstack' \in Seq(EntryType)
    BY <1>1, CutEntries
  <2>6. QED
    BY <1>1, <2>2, <2>3, <2>4, <2>5 DEF IInv, TypeOK, Idle, Cut
<1>12. EntriesOK'
  <2>1. ASSUME NEW i \in 1..M
        PROVE  EntryOK(cstack', i)
    <3>1. i \in 1..N /\ i \in Nat /\ i >= 1 /\ \A j \in 1..i : j \in 1..M
      BY <1>1
    <3>2. EntryOK(cstack, i)
      BY <3>1 DEF IInv, EntriesOK, N
    <3>3. \A j \in 1..i : cstack[j] = cstack'[j]
      BY <1>1, <3>1
    <3>4. QED
      BY <3>1, <3>2, <3>3, EntrySame
  <2>2. QED
    BY <1>1, <2>1 DEF EntriesOK
<1>13. LevelsOK'
  <2>1. baseCcalls' = baseCcalls /\ baseCcalls[Main] = 0
    BY <1>1 DEF IInv, LevelsOK, Cut
  <2>2. ASSUME NEW i \in 1..M, cstack'[i].kind # "resume"
        PROVE  cstack'[i].nCcalls = baseCcalls[cstack'[i].th]
                                      + Cardinality(Nested(cstack', cstack'[i].th, i - 1))
    <3>1. i \in 1..N /\ i - 1 \in 0..M /\ cstack'[i] = cstack[i]
      BY <1>1
    <3>2. cstack[i].nCcalls = baseCcalls[cstack[i].th] + Cardinality(Nested(cstack, cstack[i].th, i - 1))
      BY <2>2, <3>1 DEF IInv, LevelsOK, N
    <3>3. QED
      BY <1>2, <3>1, <3>2
  <2>3. ASSUME NEW t \in Thread, Active(t)' \/ t = Main
        PROVE  nCcalls'[t] = baseCcalls[t] + Cardinality(Nested(cstack', t, M))
    <3>1. CASE t = L
      <4>1. cstack[k].kind # "resume"
        BY <1>3, <1>7, <2>3, <3>1
      <4>2. cstack[k].nCcalls = baseCcalls[L] + Cardinality(Nested(cstack, L, k - 1))
        BY <1>1, <1>4, <4>1 DEF IInv, LevelsOK, N
      <4>3. M \in 0..M
        BY <1>1
      <4>4. QED
        BY <1>2, <1>6, <3>1, <4>1, <4>2, <4>3
    <3>2. CASE t # L
      <4>1. nCcalls[t] = baseCcalls[t] + Cardinality(Nested(cstack, t, N))
        BY <1>3, <2>3 DEF IInv, LevelsOK, N
      <4>2. QED
        BY <1>2, <1>5, <3>2, <4>1
    <3>3. QED
      BY <3>1, <3>2
  <2>4. QED
    BY <1>1, <2>1, <2>2, <2>3 DEF LevelsOK
<1>14. HeightsOK'
  <2>1. ASSUME NEW i \in 1..M
        PROVE  /\ cstack'[i].ci <= Len(ci'[cstack'[i].th])
               /\ cstack'[i].kind # "resume" /\ cstack'[i].th # Main => cstack'[i].ci >= 1
               /\ \A j \in i + 1..M : cstack'[j].th = cstack'[i].th => cstack'[i].ci <= cstack'[j].ci
    <3>1. i \in 1..N /\ cstack'[i] = cstack[i]
      BY <1>1
    <3>2. /\ cstack[i].ci <= Len(ci[cstack[i].th])
          /\ cstack[i].kind # "resume" /\ cstack[i].th # Main => cstack[i].ci >= 1
          /\ \A j \in i + 1..N : cstack[j].th = cstack[i].th => cstack[i].ci <= cstack[j].ci
      BY <3>1 DEF IInv, HeightsOK, N
    <3>3. \A j \in i + 1..M : j \in i + 1..N /\ cstack'[j] = cstack[j]
      BY <1>1
    <3>4. cstack[i].ci <= Len(ci'[cstack[i].th])
      <4>1. CASE cstack[i].th = L
        BY <1>3, <1>6, <1>9, <4>1
      <4>2. CASE cstack[i].th # L
        BY <1>5, <1>9, <3>2, <4>2
      <4>3. QED
        BY <4>1, <4>2
    <3>5. QED
      BY <3>1, <3>2, <3>3, <3>4
  <2>2. ASSUME NEW i \in 1..M - 1, cstack'[i + 1].kind # "handler"
        PROVE  /\ cstack'[i].ci < Len(ci'[cstack'[i].th])
               /\ \A j \in i + 1..M : cstack'[j].th = cstack'[i].th => cstack'[i].ci < cstack'[j].ci
    <3>1. i \in 1..M /\ i + 1 \in 1..M /\ i # M /\ \A j \in i + 1..M : j \in 1..M
      BY <1>1
    <3>2. \A j \in 1..M : cstack'[j] = cstack[j]
      BY <1>1
    <3>3. cstack[i + 1].kind # "handler"
      BY <2>2, <3>1, <3>2
    <3>4. /\ cstack[i].ci < Len(ci'[cstack[i].th])
          /\ \A j \in i + 1..M : cstack[j].th = cstack[i].th => cstack[i].ci < cstack[j].ci
      BY <1>10, <3>1, <3>3
    <3>5. QED
      BY <3>1, <3>2, <3>4
  <2>3. QED
    BY <1>1, <2>1, <2>2 DEF HeightsOK
<1>15. HandlersOK'
  <2>1. ASSUME NEW i \in 1..M, cstack'[i].kind # "resume", cstack'[i].errfunc
        PROVE  Pcalls(cstack', cstack'[i].th, i - 1) # {}
    <3>1. i \in 1..N /\ i - 1 \in 0..M /\ cstack'[i] = cstack[i]
      BY <1>1
    <3>2. Pcalls(cstack, cstack[i].th, i - 1) # {}
      BY <2>1, <3>1 DEF IInv, HandlersOK, N
    <3>3. QED
      BY <1>2, <3>1, <3>2
  <2>2. ASSUME NEW t \in Thread, status'[t] # "error", errfunc'[t]
        PROVE  Pcalls(cstack', t, M) # {}
    <3>1. CASE t = L
      <4>1. cstack[k].kind # "resume" /\ M \in 0..M
        BY <1>1, <1>7, <2>2, <3>1
      <4>2. Pcalls(cstack, L, M) # {}
        <5>1. CASE cstack[k].kind = "pcall"
          <6>1. cstack[k].errfunc
            BY <1>6, <2>2, <3>1, <5>1
          <6>2. QED
            BY <1>1, <1>4, <4>1, <6>1 DEF IInv, HandlersOK, N
        <5>2. CASE cstack[k].kind # "pcall"
          <6>1. errfunc[L] /\ status[L] # "error"
            BY <1>4, <1>6, <2>2, <3>1, <4>1, <5>2
          <6>2. Pcalls(cstack, L, N) # {}
            BY <1>4, <6>1 DEF IInv, HandlersOK, N
          <6>3. \A j \in 1..N : j \in 1..M \/ j = k \/ j \in k + 1..N
            BY <1>1
          <6>4. \A j \in 1..N : j \in 1..M \/ cstack[j].kind # "pcall"
            BY <1>1, <5>2, <6>3 DEF Cut
          <6>5. QED
            BY <6>2, <6>4 DEF Pcalls
        <5>3. QED
          BY <5>1, <5>2
      <4>3. QED
        BY <1>2, <3>1, <4>1, <4>2
    <3>2. CASE t # L
      <4>1. status[t] # "error" /\ errfunc[t]
        BY <1>5, <2>2, <3>2
      <4>2. Pcalls(cstack, t, N) # {}
        BY <4>1 DEF IInv, HandlersOK, N
      <4>3. QED
        BY <1>2, <3>2, <4>2
    <3>3. QED
      BY <3>1, <3>2
  <2>3. QED
    BY <1>1, <2>1, <2>2 DEF HandlersOK
<1>16. ThreadsOK'
  <2>1. status'[Main] = "ok"
    <3>1. Main \in Thread /\ status[Main] = "ok"
      BY DEF Thread, IInv, ThreadsOK
    <3>2. QED
      BY <1>5, <1>6, <1>7, <3>1
  <2>2. ASSUME NEW t \in Thread, Active(t)'
        PROVE  status'[t] = "ok" /\ (t # Main => ci'[t] # <<>>)
    <3>1. CASE t = L
      <4>1. cstack[k].kind # "resume"
        BY <1>3, <2>2, <3>1
      <4>2. t # Main => cstack[k].ci >= 1
        BY <1>1, <1>4, <3>1, <4>1 DEF IInv, HeightsOK, N
      <4>3. QED
        BY <1>4, <1>6, <3>1, <4>1, <4>2
    <3>2. CASE t # L
      BY <1>3, <1>5, <2>2, <3>2 DEF IInv, ThreadsOK
    <3>3. QED
      BY <3>1, <3>2
  <2>3. QED
    BY <2>1, <2>2 DEF ThreadsOK
<1>17. FramesOK'
  <2>0. Len(cstack') = M
    BY <1>1
  <2> SUFFICES ASSUME NEW t \in Coroutine, Active(t)' \/ status'[t] = "yield",
                      NEW i \in 1..Len(ci'[t]), ci'[t][i] = "C"
               PROVE  \/ i > 1 /\ ci'[t][i - 1] = "lua"
                      \/ i = 1 /\ t \in Hosted
                      \/ \E j \in Nested(cstack', t, M) : cstack'[j].ci = i - 1
    BY <2>0 DEF FramesOK
  <2>1. t \in Thread
    BY DEF Thread
  <2>2. \A j \in Nested(cstack, t, M) : cstack'[j] = cstack[j]
    BY <1>1 DEF Nested
  <2>3. CASE t = L /\ cstack[k].kind # "resume"
    <3>1. /\ Len(ci'[L]) = cstack[k].ci /\ ci[L][i] = "C" /\ i \in 1..cstack[k].ci
          /\ i - 1 \in 1..cstack[k].ci => ci'[L][i - 1] = ci[L][i - 1]
      BY <1>6, <2>3
    <3>2. i \in 1..Len(ci[L]) /\ i - 1 < cstack[k].ci /\ (i > 1 => i - 1 \in 1..cstack[k].ci)
      BY <1>4, <3>1
    <3>3. \/ i > 1 /\ ci[L][i - 1] = "lua"
          \/ i = 1 /\ L \in Hosted
          \/ \E j \in Nested(cstack, L, N) : cstack[j].ci = i - 1
      BY <1>4, <2>3, <3>1, <3>2 DEF IInv, FramesOK, N
    <3>4. ASSUME NEW j \in Nested(cstack, L, N), cstack[j].ci = i - 1
          PROVE  j \in Nested(cstack, L, M)
      <4>1. j \in 1..N /\ cstack[j].th = L /\ cstack[j].kind # "resume"
        BY DEF Nested
      <4>2. ASSUME j \notin 1..M
            PROVE  FALSE
        <5>1. j = k \/ j \in k + 1..N
          BY <1>1, <4>1, <4>2
        <5>2. j \in k + 1..N => cstack[k].ci <= cstack[j].ci
          BY <1>1, <1>4, <4>1 DEF IInv, HeightsOK, N
        <5>3. cstack[j].ci < cstack[k].ci /\ cstack[j].ci \in Nat
          BY <3>2, <3>4, <4>1, Types
        <5>4. QED
          BY <1>4, <5>1, <5>2, <5>3
      <4>3. QED
        BY <4>1, <4>2 DEF Nested
    <3>5. Nested(cstack', t, M) = Nested(cstack, t, M)
      BY <1>1, <1>2
    <3>6. QED
      BY <2>2, <2>3, <3>1, <3>2, <3>3, <3>4, <3>5
  <2>4. CASE t = L /\ cstack[k].kind = "resume"
    <3>1. status'[L] = "yield"
      BY <1>3, <2>4
    <3>2. QED
      BY <1>7, <2>4, <3>1
  <2>5. CASE t # L
    <3>1. ci'[t] = ci[t] /\ (Active(t) \/ status[t] = "yield")
      BY <1>3, <1>5, <2>1, <2>5
    <3>2. \/ i > 1 /\ ci[t][i - 1] = "lua"
          \/ i = 1 /\ t \in Hosted
          \/ \E j \in Nested(cstack, t, N) : cstack[j].ci = i - 1
      BY <3>1 DEF IInv, FramesOK, N
    <3>3. Nested(cstack', t, M) = Nested(cstack, t, N) /\ Nested(cstack', t, M) = Nested(cstack, t, M)
      BY <1>1, <1>2, <2>5
    <3>4. QED
      BY <2>2, <3>1, <3>2, <3>3
  <2>6. QED
    BY <2>3, <2>4, <2>5
<1>18. DepthOK'
  <2>1. \A i \in 1..M : Level(i)' = Level(i)
    BY <1>1 DEF Level, Cut
  <2>2. ASSUME NEW i \in 1..M
        PROVE  /\ Level(i) <= LUAI_MAXCCALLS + Spare /\ Level(i) < LUAI_MAXCCALLS + Spare
               /\ \A j \in i..N : (\A h \in i + 1..j : ~cstack[h].host) => j - i + 1 <= Level(j)
    <3>1. i \in 1..N /\ i < N
      BY <1>1
    <3>2. Level(i) <= LUAI_MAXCCALLS + Spare /\ Level(i) < LUAI_MAXCCALLS + Spare
      BY <3>1 DEF IInv, DepthOK, N
    <3>3. \A j \in i..N : (\A h \in i + 1..j : ~cstack[h].host) => j - i + 1 <= Level(j)
      BY <3>1 DEF IInv, DepthOK, N
    <3>4. QED
      BY <3>2, <3>3
  <2>3. ASSUME NEW i \in 1..M, NEW j \in i..M, \A h \in i + 1..j : ~cstack'[h].host
        PROVE  j - i + 1 <= Level(j)'
    <3>1. j \in i..N /\ j \in 1..M /\ \A h \in i + 1..j : h \in 1..M
      BY <1>1
    <3>2. \A h \in i + 1..j : ~cstack[h].host
      BY <1>1, <2>3, <3>1
    <3>3. QED
      BY <2>1, <2>2, <3>1, <3>2
  <2>4. nCcalls'[Main] < LUAI_MAXCCALLS + Spare \/ (err' = "throw" /\ L' = Main)
    <3>1. CASE L = Main
      BY <1>1, <1>6, <1>7, <3>1, CutEntries
    <3>2. CASE L # Main
      <4>1. Main \in Thread /\ nCcalls[Main] < LUAI_MAXCCALLS + Spare
        BY <3>2 DEF IInv, DepthOK, Thread
      <4>2. QED
        BY <1>5, <3>2, <4>1
    <3>3. QED
      BY <3>1, <3>2
  <2>5. \A i \in 1..M : Level(i)' <= LUAI_MAXCCALLS + Spare /\ Level(i)' < LUAI_MAXCCALLS + Spare
    BY <2>1, <2>2
  <2>6. QED
    BY <1>1, <2>3, <2>4, <2>5 DEF DepthOK
<1>19. YieldClean'
  <2> SUFFICES ASSUME NEW t \in Thread, status'[t] = "yield"
               PROVE  /\ ~Active(t)' /\ ~errfunc'[t] /\ Rests(t, ci'[t])
    BY DEF YieldClean, Rests
  <2>1. CASE t = L
    <3>1. cstack[k].kind = "resume" /\ ~Active(t)'
      BY <1>3, <1>6, <2>1
    <3>2. QED
      BY <1>7, <2>1, <3>1
  <2>2. CASE t # L
    <3>1. ci'[t] = ci[t] /\ status[t] = "yield" /\ errfunc'[t] = errfunc[t]
      BY <1>5, <2>2
    <3>2. QED
      BY <1>3, <3>1 DEF IInv, YieldClean, Rests
  <2>3. QED
    BY <2>1, <2>2
<1>20. QED
  BY <1>11, <1>12, <1>13, <1>14, <1>15, <1>16, <1>17, <1>18, <1>19 DEF IInv
-----------------------------------------------------------------------------
(* The steps.                                                              *)

LEMMA Init_IInv ==
  Init => IInv
<1> SUFFICES ASSUME Init
             PROVE  IInv
  OBVIOUS
<1>1. cstack = <<>> /\ Len(cstack) = 0 /\ 1..0 = {} /\ 1..Len(cstack) - 1 = {} /\ DOMAIN cstack = {}
  BY DEF Init
<1>2. Main \in Thread /\ \A th \in Thread : ~Active(th)
  BY <1>1 DEF Thread, Active, Entries
<1>3. TypeOK
  <2>1. \A th \in Thread : ci[th] = <<>>
    BY DEF Init
  <2>2. <<>> \in Seq({"lua", "C"}) /\ <<>> \in Seq(EntryType)
    OBVIOUS
  <2>3. ci \in [Thread -> Seq({"lua", "C"})] /\ cstack \in Seq(EntryType)
    BY <2>2 DEF Init
  <2>4. QED
    BY <1>1, <2>3 DEF Init, TypeOK, Idle
<1>4. EntriesOK
  BY <1>1 DEF EntriesOK
<1>5. LevelsOK
  <2>1. \A th : Nested(cstack, th, Len(cstack)) = {}
    BY <1>1 DEF Nested
  <2>2. \A th : Cardinality(Nested(cstack, th, Len(cstack))) = 0
    BY <2>1, FS_EmptySet
  <2>3. \A th \in Thread : nCcalls[th] = 0 /\ baseCcalls[th] = 0
    BY DEF Init
  <2>4. QED
    BY <1>1, <1>2, <2>2, <2>3 DEF LevelsOK
<1>6. HeightsOK
  BY <1>1 DEF HeightsOK
<1>7. HandlersOK
  BY <1>1 DEF HandlersOK, Init
<1>8. ThreadsOK
  BY <1>2 DEF ThreadsOK, Init
<1>9. FramesOK
  BY <1>2 DEF FramesOK, Init, Thread
<1>10. DepthOK
  BY <1>1, <1>2, LimitAssumption DEF DepthOK, Init
<1>11. YieldClean
  BY DEF YieldClean, Init
<1>12. QED
  BY <1>3, <1>4, <1>5, <1>6, <1>7, <1>8, <1>9, <1>10, <1>11 DEF IInv
\* A function in progress is added to the thread that runs, or the last one, which
\* is not the only one of its entry, is taken away.
Framed ==
  /\ ~Idle /\ err = "none" /\ err' = "none"
  /\ ci' \in [Thread -> Seq({"lua", "C"})]
  /\ \A t \in Thread : t # L => ci'[t] = ci[t]
  /\ Len(ci'[L]) > Last(cstack).ci
  /\ \A i \in 1..Len(ci'[L]) : ci'[L][i] = "C" =>
       \/ i > 1 /\ ci'[L][i - 1] = "lua"
       \/ i \in 1..Len(ci[L]) /\ ci[L][i] = "C" /\ (i > 1 => ci'[L][i - 1] = ci[L][i - 1])

\* A step leaves the C stack alone, and what it counts, but may end a thread that
\* is not on it.
Quiet ==
  /\ UNCHANGED <<errfunc, cstack>>
  /\ nCcalls' \in [Thread -> Nat] /\ baseCcalls' \in [Thread -> Nat]
  /\ \A t \in Thread : Active(t) \/ t = Main =>
       nCcalls'[t] = nCcalls[t] /\ baseCcalls'[t] = baseCcalls[t]
  /\ status' \in [Thread -> {"ok", "yield", "error"}]
  /\ \A t \in Thread : \/ status'[t] = status[t]
                       \/ status'[t] = "error" /\ ~Active(t) /\ t # Main
  /\ top' \in [Thread -> BOOLEAN] /\ start' \in [Hosted -> BOOLEAN]
  /\ \/ Framed
     \/ ci' = ci /\ err' = err
     \/ ci' = ci /\ err = "none" /\ (err' = "lost" \/ (err' = "run" /\ ~Idle))

\* The threads of the entries.
LEMMA Onstack ==
  ASSUME IInv
  PROVE  \A i \in 1..Len(cstack) : cstack[i].th \in Thread /\ Active(cstack[i].th)
<1>1. DOMAIN cstack = 1..Len(cstack) /\ \A i \in 1..N : cstack[i].th \in Thread
  BY Types
<1>2. QED
  BY <1>1 DEF Active, Entries, N

LEMMA QuietStep ==
  ASSUME IInv, Quiet
  PROVE  IInv'
<1>1. /\ cstack' = cstack /\ errfunc' = errfunc
      /\ \A t \in Thread : \/ status'[t] = status[t]
                           \/ status'[t] = "error" /\ ~Active(t) /\ t # Main
  BY DEF Quiet
<1>2. \A t \in Thread : Active(t) \/ t = Main =>
        nCcalls'[t] = nCcalls[t] /\ baseCcalls'[t] = baseCcalls[t]
  BY DEF Quiet
<1>3. (\A t : Active(t)' <=> Active(t)) /\ L' = L /\ (Idle' <=> Idle) /\ Main \in Thread
  BY <1>1 DEF Active, Entries, L, Idle, Thread
<1>4. /\ ci' \in [Thread -> Seq({"lua", "C"})]
      /\ \A i \in 1..N : cstack[i].ci <= Len(ci'[cstack[i].th])
      /\ \A i \in 1..N : cstack[i].ci < Len(ci[cstack[i].th]) => cstack[i].ci < Len(ci'[cstack[i].th])
      /\ \A t \in Thread : Active(t) /\ t # Main /\ ci[t] # <<>> => ci'[t] # <<>>
  <2>1. \A i \in 1..N : cstack[i].ci <= Len(ci[cstack[i].th])
    BY DEF IInv, HeightsOK, N
  <2>2. CASE ci' = ci
    BY <2>1, <2>2 DEF IInv, TypeOK
  <2>3. CASE Framed
    <3>1. N \in 1..N /\ L = cstack[N].th /\ cstack[N].ci < Len(ci'[L])
          /\ Len(ci'[L]) \in Nat /\ cstack[N].ci \in Nat /\ ci' \in [Thread -> Seq({"lua", "C"})]
          /\ \A t \in Thread : t # L => ci'[t] = ci[t]
      <4>1. ~Idle /\ ci' \in [Thread -> Seq({"lua", "C"})] /\ L \in Thread
        BY <2>3, LastEntry DEF Framed
      <4>2. N \in 1..N /\ L = cstack[N].th /\ Last(cstack) = cstack[N] /\ cstack[N].ci \in Nat
        BY <4>1, Types
      <4>3. QED
        BY <2>3, <4>1, <4>2 DEF Framed
    <3>2. ASSUME NEW i \in 1..N, cstack[i].th = L
          PROVE  cstack[i].ci <= cstack[N].ci /\ cstack[i].ci \in Nat
      <4>1. i # N => N \in i + 1..N
        BY <3>1, Types
      <4>2. i # N => cstack[i].ci <= cstack[N].ci
        BY <3>1, <3>2, <4>1 DEF IInv, HeightsOK, N
      <4>3. QED
        BY <4>2, Types
    <3>3. \A i \in 1..N : cstack[i].th \in Thread
      BY Types
    <3>4. \A i \in 1..N : cstack[i].th = L => cstack[i].ci < Len(ci'[L])
      BY <3>1, <3>2
    <3>5. \A i \in 1..N : cstack[i].th = L => cstack[i].ci <= Len(ci'[L])
      BY <3>1, <3>2
    <3>6. L \in Thread /\ ci'[L] # <<>>
      BY <3>1, <3>3
    <3>7. QED
      BY <2>1, <3>1, <3>3, <3>4, <3>5, <3>6
  <2>4. QED
    BY <2>2, <2>3 DEF Quiet
<1>5. TypeOK'
  <2>1. err' \in {"none", "run", "throw", "lost"} /\ (Idle => err' \in {"none", "lost"})
    BY DEF Quiet, Framed, IInv, TypeOK
  <2>2. ~Idle /\ err' = "none" => Len(ci'[L]) > Last(cstack).ci
    BY DEF Quiet, Framed, IInv, TypeOK
  <2>3. nCcalls' \in [Thread -> Nat] /\ top' \in [Thread -> BOOLEAN] /\ start' \in [Hosted -> BOOLEAN]
    BY DEF Quiet
  <2>4. /\ status' \in [Thread -> {"ok", "yield", "error"}] /\ errfunc' \in [Thread -> BOOLEAN]
        /\ baseCcalls' \in [Thread -> Nat] /\ cstack' \in Seq(EntryType)
    BY <1>1 DEF IInv, TypeOK, Quiet
  <2>5. ~Idle' /\ err' = "none" => Len(ci'[L']) > Last(cstack').ci
    BY <1>1, <1>3, <2>2
  <2>6. QED
    BY <1>3, <1>4, <2>1, <2>3, <2>4, <2>5 DEF TypeOK
<1>6. EntriesOK'
  <2>1. \A i \in 1..Len(cstack) : EntryOK(cstack, i)
    BY DEF IInv, EntriesOK
  <2>2. \A i \in 1..Len(cstack') : EntryOK(cstack', i)
    BY <1>1, <2>1
  <2>3. QED
    BY <2>2 DEF EntriesOK
<1>7. LevelsOK'
  <2>1. \A t \in Thread : Active(t)' \/ t = Main =>
          nCcalls'[t] = baseCcalls'[t] + Cardinality(Nested(cstack, t, Len(cstack)))
    BY <1>2, <1>3 DEF IInv, LevelsOK
  <2>2. \A i \in 1..Len(cstack) : baseCcalls'[cstack[i].th] = baseCcalls[cstack[i].th]
    BY <1>2, Onstack
  <2>3. baseCcalls'[Main] = 0
    BY <1>2, <1>3 DEF IInv, LevelsOK
  <2>4. QED
    BY <1>1, <2>1, <2>2, <2>3 DEF IInv, LevelsOK
<1>8. HeightsOK'
  <2>1. \A i \in 1..Len(cstack) :
          /\ cstack[i].ci <= Len(ci'[cstack[i].th])
          /\ cstack[i].kind # "resume" /\ cstack[i].th # Main => cstack[i].ci >= 1
          /\ \A j \in i + 1..Len(cstack) : cstack[j].th = cstack[i].th => cstack[i].ci <= cstack[j].ci
    BY <1>4 DEF IInv, HeightsOK, N
  <2>2. \A i \in 1..Len(cstack) - 1 : cstack[i + 1].kind # "handler" =>
          /\ cstack[i].ci < Len(ci'[cstack[i].th])
          /\ \A j \in i + 1..Len(cstack) : cstack[j].th = cstack[i].th => cstack[i].ci < cstack[j].ci
    <3>1. \A i \in 1..N - 1 : i \in 1..N
      BY Types
    <3>2. QED
      BY <1>4, <3>1 DEF IInv, HeightsOK, N
  <2>3. QED
    BY <1>1, <2>1, <2>2 DEF HeightsOK
<1>9. HandlersOK'
  BY <1>1 DEF IInv, HandlersOK
<1>10. ThreadsOK'
  BY <1>1, <1>3, <1>4 DEF IInv, ThreadsOK
<1>11. YieldClean'
  <2> SUFFICES ASSUME NEW t \in Thread, status'[t] = "yield"
               PROVE  /\ ~Active(t)' /\ ~errfunc[t] /\ Rests(t, ci'[t])
    BY <1>1 DEF YieldClean, Rests
  <2>1. status[t] = "yield" /\ ~Active(t)
    BY <1>1 DEF IInv, YieldClean
  <2>2. Framed => t # L
    BY <2>1, LastEntry DEF Framed
  <2>3. ci'[t] = ci[t]
    BY <2>2 DEF Quiet, Framed
  <2>4. QED
    BY <1>3, <2>1, <2>3 DEF IInv, YieldClean, Rests
<1>12. FramesOK'
  <2> SUFFICES ASSUME NEW t \in Coroutine, Active(t) \/ status'[t] = "yield",
                      NEW i \in 1..Len(ci'[t]), ci'[t][i] = "C"
               PROVE  \/ i > 1 /\ ci'[t][i - 1] = "lua"
                      \/ i = 1 /\ t \in Hosted
                      \/ \E j \in Nested(cstack, t, Len(cstack)) : cstack[j].ci = i - 1
    BY <1>1, <1>3 DEF FramesOK
  <2>1. t \in Thread
    BY DEF Thread
  <2>6. Active(t) \/ status[t] = "yield"
    BY <1>1, <2>1
  <2>2. \A h \in 1..Len(ci[t]) : ci[t][h] = "C" =>
          \/ h > 1 /\ ci[t][h - 1] = "lua"
          \/ h = 1 /\ t \in Hosted
          \/ \E j \in Nested(cstack, t, Len(cstack)) : cstack[j].ci = h - 1
    BY <2>6 DEF IInv, FramesOK
  <2>3. CASE ci'[t] = ci[t]
    BY <2>2, <2>3
  <2>4. CASE Framed /\ t = L
    BY <2>2, <2>4 DEF Framed
  <2>5. QED
    BY <2>1, <2>3, <2>4 DEF Quiet, Framed
<1>13. DepthOK'
  <2>1. \A i \in 1..Len(cstack) : Level(i)' = Level(i)
    BY <1>1, <1>2, Onstack DEF Level
  <2>2. err' = "throw" <=> err = "throw"
    BY DEF Quiet, Framed
  <2>3. nCcalls'[Main] = nCcalls[Main]
    BY <1>2, <1>3
  <2>4. \A i \in 1..Len(cstack) :
          /\ Level(i)' <= LUAI_MAXCCALLS + Spare
          /\ i < Len(cstack) \/ err' # "throw" => Level(i)' < LUAI_MAXCCALLS + Spare
          /\ \A j \in i..Len(cstack) :
               (\A h \in i + 1..j : ~cstack[h].host) => j - i + 1 <= Level(j)'
    BY <2>1, <2>2 DEF IInv, DepthOK
  <2>5. nCcalls'[Main] < LUAI_MAXCCALLS + Spare \/ (err' = "throw" /\ L' = Main)
    BY <1>3, <2>2, <2>3 DEF IInv, DepthOK
  <2>6. QED
    BY <1>1, <2>4, <2>5 DEF DepthOK
<1>14. QED
  BY <1>5, <1>6, <1>7, <1>8, <1>9, <1>10, <1>11, <1>12, <1>13 DEF IInv
\* What Running says.
LEMMA RunningFacts ==
  ASSUME IInv, NEW f, Running(f)
  PROVE  /\ ~Idle /\ err = "none" /\ L \in Thread /\ N \in 1..N /\ N \in Nat
         /\ L = cstack[N].th /\ Last(cstack) = cstack[N] /\ cstack[N].ci \in Nat
         /\ ci[L] \in Seq({"lua", "C"}) /\ Len(ci[L]) \in Nat /\ Len(ci[L]) > cstack[N].ci
         /\ ci[L][Len(ci[L])] = f
<1>1. ~Idle /\ err = "none" /\ Last(ci[L]) = f
  BY DEF Running
<1>2. L \in Thread /\ N \in 1..N /\ N \in Nat /\ L = cstack[N].th /\ Last(cstack) = cstack[N]
  BY <1>1, Types, LastEntry
<1>3. ci[L] \in Seq({"lua", "C"}) /\ Len(ci[L]) \in Nat /\ cstack[N].ci \in Nat
  BY <1>2, Types
<1>4. Len(ci[L]) > cstack[N].ci
  BY <1>1, <1>2 DEF IInv, TypeOK
<1>5. QED
  BY <1>1, <1>2, <1>3, <1>4 DEF Last

LEMMA Call_IInv ==
  ASSUME IInv, NEW f \in {"lua", "C"}, Call(f)
  PROVE  IInv'
<1> DEFINE S == {"lua", "C"}
<1>1. /\ Running("lua") /\ ci' = [ci EXCEPT ![L] = Append(@, f)]
      /\ UNCHANGED <<status, top, nCcalls, baseCcalls, errfunc, start, cstack, err>>
  BY DEF Call
<1>2. /\ ~Idle /\ err = "none" /\ L \in Thread /\ Last(cstack) = cstack[N] /\ cstack[N].ci \in Nat
      /\ Len(ci[L]) \in Nat /\ Len(ci[L]) > cstack[N].ci /\ ci[L][Len(ci[L])] = "lua"
      /\ ci \in [Thread -> Seq(S)] /\ ci[L] \in Seq(S)
  BY <1>1, RunningFacts DEF IInv, TypeOK
<1> HIDE DEF S
<1>3. f \in S
  BY DEF S
<1>4. /\ Append(ci[L], f) \in Seq(S) /\ Len(Append(ci[L], f)) = Len(ci[L]) + 1
      /\ \A i \in 1..Len(ci[L]) : Append(ci[L], f)[i] = ci[L][i]
  BY <1>2, <1>3, Appended
<1>5. ci'[L] = Append(ci[L], f) /\ ci' \in [Thread -> Seq(S)] /\ \A t \in Thread : t # L => ci'[t] = ci[t]
  BY <1>1, <1>2, <1>4
<1>6. ASSUME NEW i \in 1..Len(ci'[L]), ci'[L][i] = "C"
      PROVE  \/ i > 1 /\ ci'[L][i - 1] = "lua"
             \/ i \in 1..Len(ci[L]) /\ ci[L][i] = "C" /\ (i > 1 => ci'[L][i - 1] = ci[L][i - 1])
  <2>1. i = Len(ci[L]) + 1 \/ i \in 1..Len(ci[L])
    BY <1>2, <1>4, <1>5
  <2>2. CASE i = Len(ci[L]) + 1
    <3>1. i > 1 /\ i - 1 = Len(ci[L]) /\ i - 1 \in 1..Len(ci[L])
      BY <1>2, <2>2
    <3>2. QED
      BY <1>2, <1>4, <1>5, <3>1
  <2>3. CASE i \in 1..Len(ci[L])
    <3>1. i > 1 => i - 1 \in 1..Len(ci[L])
      BY <1>2, <2>3
    <3>2. QED
      BY <1>4, <1>5, <1>6, <2>3, <3>1
  <2>4. QED
    BY <2>1, <2>2, <2>3
<1>7. Len(ci'[L]) > Last(cstack).ci
  BY <1>2, <1>4, <1>5
<1>8. Framed
  BY <1>1, <1>2, <1>5, <1>6, <1>7 DEF Framed, S
<1>9. Quiet
  BY <1>1, <1>8 DEF Quiet, IInv, TypeOK
<1>10. QED
  BY <1>9, QuietStep

LEMMA NestedCall_IInv ==
  ASSUME IInv, NEW f \in {"lua", "C"}, NestedCall(f)
  PROVE  IInv'
<1>1. /\ ~Idle /\ err = "none" /\ L \in Thread /\ luaD_call(Entry("call", L, FALSE), f)
      /\ UNCHANGED <<status, top, baseCcalls, errfunc, start>>
  BY RunningFacts DEF NestedCall
<1>2. CallEntry(Entry("call", L, FALSE))
  BY <1>1, Types DEF CallEntry, Entry, EntryType, IInv, TypeOK
<1>3. errfunc \in [Thread -> BOOLEAN]
  BY DEF IInv, TypeOK
<1>4. QED
  BY <1>1, <1>2, <1>3, PushCall

LEMMA Pcall_IInv ==
  ASSUME IInv, NEW f \in {"lua", "C"}, NEW handler \in BOOLEAN, Pcall(f, handler)
  PROVE  IInv'
<1> DEFINE e == Entry("pcall", L, FALSE)
<1>1. /\ ~Idle /\ err = "none" /\ L \in Thread /\ luaD_call(e, f)
      /\ errfunc' = [errfunc EXCEPT ![L] = handler]
      /\ UNCHANGED <<status, top, baseCcalls, start>>
  BY RunningFacts DEF Pcall
<1>2. CallEntry(e)
  BY <1>1, Types DEF CallEntry, Entry, EntryType, IInv, TypeOK
<1>3. errfunc' \in [Thread -> BOOLEAN] /\ \A t \in Thread \ {e.th} : errfunc'[t] = errfunc[t]
  BY <1>1 DEF IInv, TypeOK, Entry
<1>4. e.kind = "pcall"
  BY DEF Entry
<1> HIDE DEF e
<1>5. QED
  BY <1>1, <1>2, <1>3, <1>4, PushCall

LEMMA callFunction_IInv ==
  ASSUME IInv, NEW f \in {"lua", "C"}, callFunction(Main, f)
  PROVE  IInv'
<1> DEFINE e == Entry("pcall", Main, TRUE)
<1>1. /\ ~Idle => err = "none"
      /\ luaD_call(e, f)
      /\ errfunc' = [errfunc EXCEPT ![Main] = FALSE]
      /\ UNCHANGED <<status, top, baseCcalls, start>>
  BY RunningFacts DEF callFunction, HostActs
<1>2. Main \in Thread
  BY DEF Thread
<1>3. CallEntry(e)
  BY <1>1, <1>2, Types DEF CallEntry, Entry, EntryType, IInv, TypeOK
<1>4. errfunc' \in [Thread -> BOOLEAN] /\ \A t \in Thread \ {e.th} : errfunc'[t] = errfunc[t]
  BY <1>1 DEF IInv, TypeOK, Entry
<1>5. e.kind = "pcall"
  BY DEF Entry
<1> HIDE DEF e
<1>6. QED
  BY <1>1, <1>3, <1>4, <1>5, PushCall

LEMMA Handle_IInv ==
  ASSUME IInv, Handle
  PROVE  IInv'
<1>1. /\ ~Idle /\ err = "run" /\ L \in Thread /\ luaD_call(Entry("handler", L, FALSE), "lua")
      /\ UNCHANGED <<status, top, baseCcalls, errfunc, start>>
  BY LastEntry DEF Handle, IInv, TypeOK
<1>2. CallEntry(Entry("handler", L, FALSE))
  BY <1>1, Types DEF CallEntry, Entry, EntryType, IInv, TypeOK
<1>3. errfunc \in [Thread -> BOOLEAN]
  BY DEF IInv, TypeOK
<1>4. QED
  BY <1>1, <1>2, <1>3, PushCall
LEMMA Raise_IInv ==
  ASSUME IInv, ~Idle, err = "none", err' = "run",
         UNCHANGED <<ci, status, top, nCcalls, baseCcalls, errfunc, start, cstack>>
  PROVE  IInv'
<1>1. Quiet
  BY DEF Quiet, IInv, TypeOK
<1>2. QED
  BY <1>1, QuietStep

\* What the last function of a thread leaves.
LEMMA Popped ==
  ASSUME NEW s \in Seq({"lua", "C"}), Len(s) > 0
  PROVE  /\ Front(s) \in Seq({"lua", "C"}) /\ Len(Front(s)) = Len(s) - 1 /\ Len(s) \in Nat
         /\ \A i \in 1..Len(Front(s)) : Front(s)[i] = s[i] /\ i \in 1..Len(s)
<1> DEFINE S == {"lua", "C"}
           h == Len(s) - 1
<1>1. s \in Seq(S) /\ h \in Nat /\ h <= Len(s) /\ Len(s) \in Nat
  OBVIOUS
<1>2. Front(s) = SubSeq(s, 1, h)
  BY DEF Front
<1> HIDE DEF S, h
<1>3. /\ SubSeq(s, 1, h) \in Seq(S) /\ Len(SubSeq(s, 1, h)) = h
      /\ \A i \in 1..h : SubSeq(s, 1, h)[i] = s[i] /\ i \in 1..Len(s)
  BY <1>1, Prefix
<1>4. /\ Front(s) \in Seq(S) /\ Len(Front(s)) = h
      /\ \A i \in 1..Len(Front(s)) : Front(s)[i] = s[i] /\ i \in 1..Len(s)
  BY <1>2, <1>3
<1>5. QED
  BY <1>1, <1>4 DEF S, h

LEMMA Return_IInv ==
  ASSUME IInv, Return
  PROVE  IInv'
<1>1. /\ ci' = [ci EXCEPT ![L] = Front(@)]
      /\ UNCHANGED <<status, baseCcalls, start>>
  BY DEF Return
<1>2. /\ ~Idle /\ err = "none" /\ L \in Thread /\ N \in 1..N /\ N \in Nat
      /\ L = cstack[N].th /\ Last(cstack) = cstack[N] /\ cstack[N].ci \in Nat
      /\ ci[L] \in Seq({"lua", "C"}) /\ Len(ci[L]) \in Nat /\ Len(ci[L]) > cstack[N].ci
  BY RunningFacts DEF Return
<1>3. /\ Front(ci[L]) \in Seq({"lua", "C"}) /\ Len(Front(ci[L])) = Len(ci[L]) - 1
      /\ \A i \in 1..Len(Front(ci[L])) : Front(ci[L])[i] = ci[L][i] /\ i \in 1..Len(ci[L])
  <2>1. ci[L] \in Seq({"lua", "C"}) /\ Len(ci[L]) > 0
    BY <1>2
  <2>2. QED
    BY <2>1, Popped
<1>4. ci \in [Thread -> Seq({"lua", "C"})]
  BY DEF IInv, TypeOK
<1>5. /\ ci' \in [Thread -> Seq({"lua", "C"})] /\ ci'[L] = Front(ci[L])
      /\ \A t \in Thread : t # L => ci'[t] = ci[t]
  BY <1>1, <1>2, <1>3, <1>4
<1>6. CASE Len(ci[L]) - 1 > cstack[N].ci
  <2>1. UNCHANGED <<top, nCcalls, errfunc, cstack, err>>
    BY <1>2, <1>6 DEF Return
  <2>2. Len(ci'[L]) > Last(cstack).ci
    BY <1>2, <1>3, <1>5, <1>6
  <2>3. ASSUME NEW i \in 1..Len(ci'[L]), ci'[L][i] = "C"
        PROVE  i \in 1..Len(ci[L]) /\ ci[L][i] = "C" /\ (i > 1 => ci'[L][i - 1] = ci[L][i - 1])
    <3>1. i > 1 => i - 1 \in 1..Len(ci'[L])
      BY <1>2, <1>3, <1>5, <2>3
    <3>2. QED
      BY <1>3, <1>5, <2>3, <3>1
  <2>4. Framed
    BY <1>2, <1>5, <2>1, <2>2, <2>3 DEF Framed
  <2>5. Quiet
    BY <1>1, <2>1, <2>4 DEF Quiet, IInv, TypeOK
  <2>6. QED
    BY <2>5, QuietStep
<1>7. CASE ~(Len(ci[L]) - 1 > cstack[N].ci)
  <2>1. Leave /\ top' \in [Thread -> BOOLEAN]
    <3>1. /\ Leave
          /\ IF cstack[N].kind = "resume" /\ cstack[N].host
             THEN \E results \in BOOLEAN : top' = [top EXCEPT ![L] = @ \/ results]
             ELSE IF cstack[N].kind = "resume" THEN top' = [top EXCEPT ![L] = FALSE]
             ELSE UNCHANGED top
      BY <1>2, <1>7 DEF Return
    <3>2. top \in [Thread -> BOOLEAN]
      BY DEF IInv, TypeOK
    <3>3. \A results \in BOOLEAN : (top[L] \/ results) \in BOOLEAN
      OBVIOUS
    <3>4. QED
      BY <1>2, <3>1, <3>2, <3>3
  <2>2. /\ cstack' = SubSeq(cstack, 1, N - 1)
        /\ nCcalls' = [nCcalls EXCEPT ![L] = @ - 1]
        /\ err' = IF cstack[N].kind = "handler" THEN "throw" ELSE "none"
        /\ errfunc' = IF cstack[N].kind = "pcall" THEN [errfunc EXCEPT ![L] = cstack[N].errfunc]
                      ELSE errfunc
    BY <1>2, <2>1 DEF Leave, Front, N
  <2>3. /\ nCcalls \in [Thread -> Nat] /\ nCcalls[L] = Level(N) /\ nCcalls[L] >= 1
        /\ errfunc \in [Thread -> BOOLEAN] /\ cstack[N].errfunc \in BOOLEAN
        /\ status \in [Thread -> {"ok", "yield", "error"}] /\ status[L] = "ok"
    BY <1>2, LastEntry, Types DEF IInv, TypeOK, EntryType
  <2>4. nCcalls' \in [Thread -> Nat] /\ errfunc' \in [Thread -> BOOLEAN]
    BY <1>2, <2>2, <2>3
  <2>5. N + 1..N = {} /\ N..N = {N}
    BY <1>2
  <2>6. Cut(N)
    BY <1>1, <1>2, <1>5, <2>1, <2>2, <2>3, <2>4, <2>5 DEF Cut, IInv, TypeOK
  <2>7. CASE cstack[N].kind = "resume"
    <3>1. ~errfunc[L]
      BY <1>2, <2>7, LastEntry
    <3>2. CutResume(N)
      BY <1>1, <2>2, <2>3, <2>6, <2>7, <3>1 DEF CutResume
    <3>3. QED
      BY <3>2, CutStep
  <2>8. CASE cstack[N].kind # "resume"
    <3>1. nCcalls'[L] = cstack[N].nCcalls
      <4>1. Level(N) = cstack[N].nCcalls + 1 /\ cstack[N].nCcalls \in Nat
        BY <1>2, <2>8, Types DEF Level
      <4>2. nCcalls'[L] = nCcalls[L] - 1
        BY <1>2, <2>2, <2>3
      <4>3. nCcalls[L] = Level(N)
        BY <2>3
      <4>4. QED
        BY <4>1, <4>2, <4>3
    <3>2. Len(ci'[L]) = cstack[N].ci /\ \A i \in 1..Len(ci'[L]) : ci'[L][i] = ci[L][i]
      <4>1. /\ Len(ci'[L]) = Len(ci[L]) - 1
            /\ \A i \in 1..Len(ci'[L]) : ci'[L][i] = ci[L][i]
        BY <1>3, <1>5
      <4>2. Len(ci[L]) \in Nat /\ cstack[N].ci \in Nat /\ Len(ci[L]) > cstack[N].ci
        BY <1>2, <1>3
      <4>3. QED
        BY <1>7, <4>1, <4>2
    <3>3. errfunc'[L] = IF cstack[N].kind = "pcall" THEN cstack[N].errfunc ELSE errfunc[L]
      BY <1>2, <2>2, <2>3
    <3>4. CutCall(N)
      BY <1>1, <2>2, <2>6, <2>8, <3>1, <3>2, <3>3 DEF CutCall
    <3>5. QED
      BY <3>4, CutStep
  <2>9. QED
    BY <2>7, <2>8
<1>8. QED
  BY <1>6, <1>7
\* What Unwind does, where entry k catches the error.
Caught(k) ==
  /\ cstack[k].kind \in {"pcall", "resume"}
  /\ \A j \in k..N : cstack[j].th = L
  /\ \A j \in k + 1..N : cstack[j].kind \in {"call", "handler"}
  /\ cstack' = SubSeq(cstack, 1, k - 1)
  /\ IF cstack[k].kind = "pcall"
     THEN /\ ci' = [ci EXCEPT ![L] = SubSeq(@, 1, cstack[k].ci)]
          /\ nCcalls' = [nCcalls EXCEPT ![L] = cstack[k].nCcalls]
          /\ errfunc' = [errfunc EXCEPT ![L] = cstack[k].errfunc]
          /\ UNCHANGED status
     ELSE /\ status' = [status EXCEPT ![L] = "error"]
          /\ nCcalls' = [nCcalls EXCEPT ![L] = @ - 1]
          /\ UNCHANGED <<ci, errfunc>>
  /\ err' = "none"
  /\ UNCHANGED <<top, baseCcalls, start>>

LEMMA UnwindCatches ==
  ASSUME IInv, Unwind
  PROVE  \E k \in 1..N : Caught(k)
<1> DEFINE S == {i \in DOMAIN cstack : cstack[i].kind \in {"pcall", "resume"}}
<1>1. /\ ~Idle /\ L \in Thread /\ N \in 1..N /\ N \in Nat /\ L = cstack[N].th
      /\ DOMAIN cstack = 1..N
  <2>1. err \in {"run", "throw"}
    BY DEF Unwind
  <2>2. ~Idle
    BY <2>1 DEF IInv, TypeOK
  <2>3. DOMAIN cstack = 1..N
    BY Types DEF N
  <2>4. QED
    BY <2>2, <2>3, LastEntry, Types
<1>2. PICK k \in 1..N : /\ cstack[k].kind \in {"pcall", "resume"}
                        /\ \A j \in k..N : cstack[j].th = L
                        /\ \A j \in k + 1..N : cstack[j].kind \in {"call", "handler"}
  BY <1>1 DEF IInv, EntriesOK, EntryOK, N
<1>3. Max(S) = k
  <2>1. k \in S
    BY <1>1, <1>2
  <2>2. ASSUME NEW i \in S
        PROVE  k >= i /\ i \in Nat /\ k \in Nat
    <3>1. i \in 1..N /\ i \notin k + 1..N
      BY <1>1, <1>2
    <3>2. QED
      BY <1>1, <3>1
  <2>3. \A x \in S : (\A y \in S : x >= y) => x = k
    <3>1. ASSUME NEW x \in S, \A y \in S : x >= y
          PROVE  x = k
      <4>1. x >= k /\ k >= x /\ x \in Nat /\ k \in Nat
        BY <2>1, <2>2, <3>1
      <4>2. QED
        BY <4>1
    <3>2. QED
      BY <3>1
  <2> HIDE DEF S
  <2>4. Max(S) = CHOOSE x \in S : \A y \in S : x >= y
    BY DEF Max
  <2>5. QED
    BY <2>1, <2>2, <2>3, <2>4
<1>4. /\ cstack' = SubSeq(cstack, 1, k - 1)
      /\ IF cstack[k].kind = "pcall"
         THEN /\ ci' = [ci EXCEPT ![L] = SubSeq(@, 1, cstack[k].ci)]
              /\ nCcalls' = [nCcalls EXCEPT ![L] = cstack[k].nCcalls]
              /\ errfunc' = [errfunc EXCEPT ![L] = cstack[k].errfunc]
              /\ UNCHANGED status
         ELSE /\ status' = [status EXCEPT ![L] = "error"]
              /\ nCcalls' = [nCcalls EXCEPT ![L] = @ - 1]
              /\ UNCHANGED <<ci, errfunc>>
      /\ err' = "none"
      /\ UNCHANGED <<top, baseCcalls, start>>
  <2> HIDE DEF S
  <2>1. LET h == Max(S)
            entry == cstack[h]
        IN  /\ cstack' = SubSeq(cstack, 1, h - 1)
            /\ IF entry.kind = "pcall"
               THEN /\ ci' = [ci EXCEPT ![L] = SubSeq(@, 1, entry.ci)]
                    /\ nCcalls' = [nCcalls EXCEPT ![L] = entry.nCcalls]
                    /\ errfunc' = [errfunc EXCEPT ![L] = entry.errfunc]
                    /\ UNCHANGED status
               ELSE /\ status' = [status EXCEPT ![L] = "error"]
                    /\ nCcalls' = [nCcalls EXCEPT ![L] = @ - 1]
                    /\ UNCHANGED <<ci, errfunc>>
    BY DEF Unwind, S
  <2>2. err' = "none" /\ UNCHANGED <<top, baseCcalls, start>>
    BY DEF Unwind
  <2>3. QED
    BY <1>3, <2>1, <2>2
<1>5. QED
  BY <1>2, <1>4 DEF Caught

LEMMA Unwind_IInv ==
  ASSUME IInv, Unwind
  PROVE  IInv'
<1>1. /\ ~Idle /\ L \in Thread /\ N \in 1..N /\ N \in Nat /\ L = cstack[N].th
  <2>1. err \in {"run", "throw"}
    BY DEF Unwind
  <2>2. ~Idle
    BY <2>1 DEF IInv, TypeOK
  <2>3. QED
    BY <2>2, LastEntry, Types
<1>2. PICK k \in 1..N : Caught(k)
  BY UnwindCatches
<1>3. /\ cstack[k].kind \in {"pcall", "resume"}
      /\ \A j \in k..N : cstack[j].th = L
      /\ \A j \in k + 1..N : cstack[j].kind \in {"call", "handler"}
  BY <1>2 DEF Caught
<1>4. /\ ci \in [Thread -> Seq({"lua", "C"})] /\ status \in [Thread -> {"ok", "yield", "error"}]
      /\ nCcalls \in [Thread -> Nat] /\ errfunc \in [Thread -> BOOLEAN]
      /\ top \in [Thread -> BOOLEAN] /\ start \in [Hosted -> BOOLEAN]
  BY DEF IInv, TypeOK
<1>5. /\ cstack[k].ci \in Nat /\ cstack[k].nCcalls \in Nat /\ cstack[k].errfunc \in BOOLEAN
      /\ cstack[k].ci <= Len(ci[L]) /\ cstack[k].th = L /\ ci[L] \in Seq({"lua", "C"})
  <2>1. cstack[k].th = L
    BY <1>1, <1>3
  <2>2. cstack[k].ci <= Len(ci[L])
    BY <2>1 DEF IInv, HeightsOK, N
  <2>3. QED
    BY <1>1, <1>4, <2>1, <2>2, Types DEF EntryType
<1>6. CASE cstack[k].kind = "pcall"
  <2> DEFINE s == SubSeq(ci[L], 1, cstack[k].ci)
  <2>1. /\ s \in Seq({"lua", "C"}) /\ Len(s) = cstack[k].ci
        /\ \A i \in 1..cstack[k].ci : s[i] = ci[L][i]
    BY <1>5, Prefix
  <2>2. ci' = [ci EXCEPT ![L] = s]
    BY <1>2, <1>6 DEF Caught
  <2> HIDE DEF s
  <2>3. /\ ci' \in [Thread -> Seq({"lua", "C"})] /\ ci'[L] = s
        /\ \A t \in Thread : t # L => ci'[t] = ci[t]
    BY <1>1, <1>4, <2>1, <2>2
  <2>4. /\ nCcalls' \in [Thread -> Nat] /\ nCcalls'[L] = cstack[k].nCcalls
        /\ errfunc' \in [Thread -> BOOLEAN] /\ errfunc'[L] = cstack[k].errfunc
        /\ \A t \in Thread : t # L => nCcalls'[t] = nCcalls[t] /\ errfunc'[t] = errfunc[t]
    BY <1>1, <1>2, <1>4, <1>5, <1>6 DEF Caught
  <2>5. status' = status /\ err' = "none" /\ cstack' = SubSeq(cstack, 1, k - 1)
        /\ UNCHANGED <<top, baseCcalls, start>>
    BY <1>2, <1>6 DEF Caught
  <2>6. Cut(k)
    BY <1>1, <1>3, <1>4, <2>3, <2>4, <2>5 DEF Cut
  <2>7. CutCall(k)
    BY <1>6, <2>1, <2>3, <2>4, <2>5, <2>6 DEF CutCall
  <2>8. QED
    BY <2>7, CutStep
<1>7. CASE cstack[k].kind # "pcall"
  <2>1. nCcalls[L] \in Nat /\ nCcalls[L] >= 1
    BY <1>1, <1>4, LastEntry, Types DEF Level
  <2>2. /\ nCcalls' \in [Thread -> Nat] /\ status' \in [Thread -> {"ok", "yield", "error"}]
        /\ status'[L] = "error"
        /\ \A t \in Thread : t # L => nCcalls'[t] = nCcalls[t] /\ status'[t] = status[t]
    <3>1. /\ nCcalls' = [nCcalls EXCEPT ![L] = nCcalls[L] - 1]
          /\ status' = [status EXCEPT ![L] = "error"]
      BY <1>2, <1>7 DEF Caught
    <3>2. nCcalls[L] - 1 \in Nat
      BY <2>1
    <3>3. nCcalls' \in [Thread -> Nat] /\ \A t \in Thread : t # L => nCcalls'[t] = nCcalls[t]
      BY <1>1, <1>4, <3>1, <3>2
    <3>4. QED
      BY <1>1, <1>4, <3>1, <3>3
  <2>3. err' = "none" /\ cstack' = SubSeq(cstack, 1, k - 1)
        /\ UNCHANGED <<ci, errfunc, top, baseCcalls, start>>
    BY <1>2, <1>7 DEF Caught
  <2>4. Cut(k)
    BY <1>1, <1>3, <1>4, <2>2, <2>3 DEF Cut
  <2>5. CutResume(k)
    BY <1>3, <1>7, <2>2, <2>3, <2>4 DEF CutResume
  <2>6. QED
    BY <2>5, CutStep
<1>8. QED
  BY <1>6, <1>7
\* Where nothing was called since lua_resume, its entry is the last one.
LEMMA YieldEntry ==
  ASSUME IInv, Running("C"), ~(nCcalls[L] > baseCcalls[L])
  PROVE  Last(cstack).kind = "resume" /\ Last(cstack).th = L
<1>1. /\ ~Idle /\ L \in Thread /\ N \in 1..N /\ N \in Nat
      /\ L = cstack[N].th /\ Last(cstack) = cstack[N]
  BY RunningFacts
<1>2. SUFFICES ASSUME cstack[N].kind # "resume"
               PROVE  FALSE
  BY <1>1
<1>3. nCcalls[L] = baseCcalls[L] + Cardinality(Nested(cstack, L, N))
  BY <1>1, LastEntry DEF IInv, LevelsOK, N
<1>4. N \in Nested(cstack, L, N)
  BY <1>1, <1>2 DEF Nested
<1>5. Cardinality(Nested(cstack, L, N)) \in Nat /\ Cardinality(Nested(cstack, L, N)) # 0
  BY <1>1, <1>4, NestedType, NestedNone
<1>6. nCcalls[L] \in Nat /\ baseCcalls[L] \in Nat
  BY <1>1, Types
<1>7. QED
  BY <1>3, <1>5, <1>6

LEMMA Yield_IInv ==
  ASSUME IInv, Yield
  PROVE  IInv'
<1>1. /\ ~Idle /\ err = "none" /\ L \in Thread /\ N \in 1..N /\ N \in Nat
      /\ L = cstack[N].th /\ Last(cstack) = cstack[N]
      /\ Len(ci[L]) \in Nat /\ Len(ci[L]) > cstack[N].ci /\ cstack[N].ci \in Nat
      /\ ci[L] \in Seq({"lua", "C"}) /\ ci[L][Len(ci[L])] = "C"
  BY RunningFacts DEF Yield
<1>2. CASE nCcalls[L] > baseCcalls[L]
  <2>1. err' = "run" /\ UNCHANGED <<ci, status, top, nCcalls, baseCcalls, errfunc, start, cstack>>
    BY <1>2 DEF Yield
  <2>2. QED
    BY <1>1, <2>1, Raise_IInv
<1>3. CASE ~(nCcalls[L] > baseCcalls[L])
  <2>1. status' = [status EXCEPT ![L] = "yield"] /\ Leave /\ UNCHANGED <<ci, top, baseCcalls, start>>
    BY <1>3 DEF Yield
  <2>2. cstack[N].kind = "resume"
    BY <1>1, <1>3, YieldEntry DEF Yield
  <2>3. L # Main /\ L \in Coroutine /\ Nested(cstack, L, N) = {} /\ ~errfunc[L] /\ Active(L)
        /\ status[L] = "ok" /\ nCcalls[L] >= 1
    BY <1>1, <2>2, LastEntry DEF Thread
  <2>4. /\ cstack' = SubSeq(cstack, 1, N - 1) /\ nCcalls' = [nCcalls EXCEPT ![L] = nCcalls[L] - 1]
        /\ err' = "none" /\ errfunc' = errfunc
    BY <1>1, <2>1, <2>2 DEF Leave, Front, N
  <2>5. \A i \in 1..Len(ci[L]) :
          ci[L][i] = "C" => (i > 1 /\ ci[L][i - 1] = "lua") \/ (i = 1 /\ L \in Hosted)
    BY <2>3 DEF IInv, FramesOK, N
  <2>6. Rests(L, ci[L])
    <3>1. Len(ci[L]) \in 1..Len(ci[L]) /\ ci[L] # <<>>
      BY <1>1
    <3>2. /\ Len(ci[L]) = 1 => L \in Hosted
          /\ Len(ci[L]) # 1 => ci[L][Len(ci[L]) - 1] = "lua"
      <4> DEFINE h == Len(ci[L])
      <4>1. (h > 1 /\ ci[L][h - 1] = "lua") \/ (h = 1 /\ L \in Hosted)
        BY <1>1, <2>5, <3>1
      <4>2. h \in Nat
        BY <1>1
      <4> HIDE DEF h
      <4>3. (h = 1 => L \in Hosted) /\ (h # 1 => ci[L][h - 1] = "lua")
        BY <4>1, <4>2
      <4>4. QED
        BY <4>3 DEF h
    <3>3. Last(ci[L]) = "C"
      BY <1>1 DEF Last
    <3>4. QED
      BY <3>1, <3>2, <3>3 DEF Rests
  <2>7. /\ nCcalls \in [Thread -> Nat] /\ nCcalls[L] - 1 \in Nat
        /\ errfunc \in [Thread -> BOOLEAN] /\ ci \in [Thread -> Seq({"lua", "C"})]
        /\ top \in [Thread -> BOOLEAN] /\ start \in [Hosted -> BOOLEAN]
        /\ status \in [Thread -> {"ok", "yield", "error"}]
    BY <1>1, <2>3 DEF IInv, TypeOK
  <2>8. /\ nCcalls' \in [Thread -> Nat] /\ \A t \in Thread : t # L => nCcalls'[t] = nCcalls[t]
    BY <1>1, <2>4, <2>7
  <2>9. /\ status' \in [Thread -> {"ok", "yield", "error"}] /\ status'[L] = "yield"
        /\ \A t \in Thread : t # L => status'[t] = status[t]
    BY <1>1, <2>1, <2>7
  <2>10. N + 1..N = {} /\ N..N = {N}
    BY <1>1
  <2>11. Cut(N)
    BY <1>1, <2>1, <2>4, <2>7, <2>8, <2>9, <2>10 DEF Cut
  <2>12. ci' = ci
    BY <2>1
  <2>13. CutResume(N)
    BY <2>2, <2>3, <2>4, <2>5, <2>6, <2>9, <2>11, <2>12 DEF CutResume
  <2>14. QED
    BY <2>13, CutStep
<1>4. QED
  BY <1>2, <1>3

LEMMA OneFunction ==
  ASSUME NEW f \in {"lua", "C"}, NEW s, s = <<f>>
  PROVE  /\ s \in Seq({"lua", "C"}) /\ Len(s) >= 1
         /\ \A i \in 1..Len(s) : i = 1 /\ s[i] = f
<1>1. s \in Seq({"lua", "C"}) /\ Len(s) = 1 /\ s[1] = f
  OBVIOUS
<1>2. \A i \in 1..Len(s) : i = 1
  BY <1>1
<1>3. QED
  BY <1>1, <1>2

\* What lua_resume of a coroutine can be: it goes astray, or has no function to
\* call, or runs.
Strays(c) ==
  /\ status[c] = "yield" /\ err' = "lost"
  /\ UNCHANGED <<ci, status, nCcalls, baseCcalls, errfunc, cstack>>

Fails(c, n) ==
  /\ status[c] # "yield" /\ status' = [status EXCEPT ![c] = "error"]
  /\ baseCcalls' = [baseCcalls EXCEPT ![c] = n + 1] /\ nCcalls' = [nCcalls EXCEPT ![c] = n]
  /\ UNCHANGED <<ci, errfunc, cstack, err>>

Runs(c, n, f, host) ==
  /\ ~Astray(c) /\ (status[c] = "yield" \/ f # "value")
  /\ baseCcalls' = [baseCcalls EXCEPT ![c] = n + 1]
  /\ nCcalls' = [nCcalls EXCEPT ![c] = n + 1]
  /\ cstack' = Append(cstack, [Entry("resume", c, host) EXCEPT !.ci = 0])
  /\ status' = [status EXCEPT ![c] = "ok"]
  /\ ci' = [ci EXCEPT ![c] = IF status[c] = "yield" THEN Front(ci[c]) ELSE <<f>>]
  /\ errfunc' = errfunc /\ err' = err

LEMMA ResumeCases ==
  ASSUME NEW c, NEW n, NEW f, NEW host, lua_resume(c, n, f, host)
  PROVE  Strays(c) \/ Fails(c, n) \/ Runs(c, n, f, host)
BY DEF lua_resume, Strays, Fails, Runs, Astray

LEMMA Runs_IInv ==
  ASSUME IInv, NEW c \in Coroutine, NEW n \in Nat, NEW host \in BOOLEAN,
         NEW f \in {"lua", "C", "value"}, f # "lua" => c \in Hosted,
         status[c] = "yield" \/ (status[c] = "ok" /\ ci[c] = <<>>),
         err = "none",
         n < LUAI_MAXCCALLS,
         ~host => ~Idle /\ n = nCcalls[L],
         Runs(c, n, f, host),
         top' \in [Thread -> BOOLEAN], start' \in [Hosted -> BOOLEAN]
  PROVE  IInv'
<1> DEFINE e == [Entry("resume", c, host) EXCEPT !.ci = 0]
<1>1. c \in Thread /\ ci \in [Thread -> Seq({"lua", "C"})] /\ ci[c] \in Seq({"lua", "C"})
  BY DEF Thread, IInv, TypeOK
<1>2. /\ baseCcalls' = [baseCcalls EXCEPT ![c] = n + 1]
      /\ nCcalls' = [nCcalls EXCEPT ![c] = n + 1]
      /\ cstack' = Append(cstack, e)
      /\ status' = [status EXCEPT ![c] = "ok"]
      /\ ci' = [ci EXCEPT ![c] = IF status[c] = "yield" THEN Front(ci[c]) ELSE <<f>>]
      /\ errfunc' = errfunc /\ err' = err
  BY DEF Runs
<1>3. e \in EntryType /\ e.kind = "resume" /\ e.th = c /\ e.ci = 0 /\ (e.host <=> host)
  BY <1>1 DEF Entry, EntryType, IInv, TypeOK
<1> HIDE DEF e
<1>4. /\ ci' \in [Thread -> Seq({"lua", "C"})]
      /\ \A t \in Thread : t # c => ci'[t] = ci[t]
      /\ Len(ci'[c]) >= 1
      /\ \A i \in 1..Len(ci'[c]) :
           ci'[c][i] = "C" => \/ i = 1 /\ c \in Hosted
                              \/ /\ status[c] = "yield" /\ i \in 1..Len(ci[c])
                                 /\ ci'[c][i] = ci[c][i]
                                 /\ i > 1 => ci'[c][i - 1] = ci[c][i - 1]
  <2>1. CASE status[c] = "yield"
    <3>1. Len(ci[c]) \in Nat /\ Len(ci[c]) > 1
      <4>1. ci[c] # <<>>
        BY <1>1, <2>1 DEF IInv, YieldClean
      <4>2. Len(ci[c]) # 1
        BY <2>1 DEF Runs, Astray
      <4> DEFINE s == ci[c]
                 h == Len(s)
      <4>3. h \in Nat /\ h # 0 /\ h # 1
        <5>1. s \in Seq({"lua", "C"}) /\ s # <<>>
          BY <1>1, <4>1
        <5> HIDE DEF s
        <5>2. h \in Nat /\ h # 0
          BY <5>1
        <5>3. QED
          BY <4>2, <5>2 DEF s
      <4> HIDE DEF h
      <4>4. h \in Nat /\ h > 1
        BY <4>3
      <4>5. QED
        BY <4>4 DEF h
    <3> DEFINE s == Front(ci[c])
    <3>2. /\ s \in Seq({"lua", "C"}) /\ Len(s) = Len(ci[c]) - 1
          /\ \A i \in 1..Len(s) : s[i] = ci[c][i] /\ i \in 1..Len(ci[c])
      BY <1>1, <3>1, Popped
    <3>3. ci' = [ci EXCEPT ![c] = s]
      BY <1>2, <2>1
    <3> HIDE DEF s
    <3>4. /\ ci' \in [Thread -> Seq({"lua", "C"})] /\ ci'[c] = s
          /\ \A t \in Thread : t # c => ci'[t] = ci[t]
      BY <1>1, <3>2, <3>3
    <3>5. \A i \in 1..Len(s) : i > 1 => i - 1 \in 1..Len(s)
      BY <3>1, <3>2
    <3>6. Len(s) >= 1
      BY <3>1, <3>2
    <3>7. QED
      BY <2>1, <3>2, <3>4, <3>5, <3>6
  <2>2. CASE status[c] # "yield"
    <3> DEFINE one == <<f>>
    <3>0. f \in {"lua", "C"}
      BY <2>2 DEF Runs
    <3>1. one \in Seq({"lua", "C"}) /\ Len(one) >= 1 /\ \A i \in 1..Len(one) : i = 1 /\ one[i] = f
      BY <3>0, OneFunction
    <3>2. ci' = [ci EXCEPT ![c] = one]
      BY <1>2, <2>2
    <3> HIDE DEF one
    <3>3. /\ ci' \in [Thread -> Seq({"lua", "C"})] /\ ci'[c] = one
          /\ \A t \in Thread : t # c => ci'[t] = ci[t]
      BY <1>1, <3>1, <3>2
    <3>4. Len(one) >= 1 /\ \A i \in 1..Len(one) : one[i] = "C" => i = 1 /\ c \in Hosted
      BY <3>1
    <3>5. QED
      BY <3>3, <3>4, Zenon
  <2>3. QED
    BY <2>1, <2>2
<1>5. /\ nCcalls' \in [Thread -> Nat] /\ baseCcalls' \in [Thread -> Nat]
      /\ nCcalls'[c] = n + 1 /\ baseCcalls'[c] = n + 1 /\ status'[c] = "ok"
      /\ \A t \in Thread : t # c => /\ nCcalls'[t] = nCcalls[t] /\ baseCcalls'[t] = baseCcalls[t]
                                    /\ status'[t] = status[t]
      /\ status' \in [Thread -> {"ok", "yield", "error"}]
  BY <1>1, <1>2 DEF IInv, TypeOK
<1>6. Resumed(c, n, e)
  BY <1>2, <1>4, <1>5 DEF Resumed
<1>7. QED
  BY <1>3, <1>6, PushResume

LEMMA lua_resume_IInv ==
  ASSUME IInv, NEW c \in Coroutine, NEW n \in Nat, NEW host \in BOOLEAN,
         NEW f \in {"lua", "C", "value"}, f # "lua" => c \in Hosted,
         status[c] = "yield" \/ (status[c] = "ok" /\ ci[c] = <<>>),
         err = "none",
         n < LUAI_MAXCCALLS,
         ~host => ~Idle /\ n = nCcalls[L],
         lua_resume(c, n, f, host),
         top' \in [Thread -> BOOLEAN], start' \in [Hosted -> BOOLEAN]
  PROVE  IInv'
<1>1. c \in Thread /\ c # Main
  BY ThreadAssumption DEF Thread
<1>2. ~Active(c)
  BY <1>1 DEF IInv, YieldClean, ThreadsOK
<1>3. /\ status \in [Thread -> {"ok", "yield", "error"}]
      /\ nCcalls \in [Thread -> Nat] /\ baseCcalls \in [Thread -> Nat]
  BY DEF IInv, TypeOK
<1>4. CASE Strays(c)
  <2>1. Quiet
    BY <1>3, <1>4 DEF Strays, Quiet
  <2>2. QED
    BY <2>1, QuietStep
<1>5. CASE Fails(c, n)
  <2>1. /\ nCcalls' \in [Thread -> Nat] /\ baseCcalls' \in [Thread -> Nat]
        /\ \A t \in Thread : Active(t) \/ t = Main =>
             nCcalls'[t] = nCcalls[t] /\ baseCcalls'[t] = baseCcalls[t]
    BY <1>1, <1>2, <1>3, <1>5 DEF Fails
  <2>2. /\ status' \in [Thread -> {"ok", "yield", "error"}]
        /\ \A t \in Thread : \/ status'[t] = status[t]
                             \/ status'[t] = "error" /\ ~Active(t) /\ t # Main
    BY <1>1, <1>2, <1>3, <1>5 DEF Fails
  <2>3. UNCHANGED <<errfunc, cstack, ci, err>>
    BY <1>5 DEF Fails
  <2>4. Quiet
    BY <2>1, <2>2, <2>3 DEF Quiet
  <2>5. QED
    BY <2>4, QuietStep
<1>6. CASE Runs(c, n, f, host)
  BY <1>6, Runs_IInv
<1>7. QED
  BY <1>4, <1>5, <1>6, ResumeCases

\* A coroutine that coroutine.status calls suspended.
LEMMA SuspendedFacts ==
  ASSUME IInv, NEW c \in Coroutine, costatus(c) = "suspended"
  PROVE  /\ status[c] = "yield" \/ (status[c] = "ok" /\ ci[c] = <<>>)
         /\ c \in Thread /\ c # Main /\ ~Active(c)
<1>1. c \in Thread /\ c # Main
  BY ThreadAssumption DEF Thread
<1>2. status[c] \in {"ok", "yield", "error"}
  BY <1>1 DEF IInv, TypeOK
<1>3. status[c] = "yield" \/ (status[c] = "ok" /\ ci[c] = <<>>)
  BY <1>2 DEF costatus
<1>4. ~Active(c)
  BY <1>1, <1>3 DEF IInv, YieldClean, ThreadsOK
<1>5. QED
  BY <1>1, <1>3, <1>4

LEMMA Resume_IInv ==
  ASSUME IInv, NEW c \in Coroutine, Resume(c)
  PROVE  IInv'
<1>1. /\ Running("C") /\ costatus(c) = "suspended"
      /\ nCcalls[L] < LUAI_MAXCCALLS
      /\ \E f \in Bodies(c) : lua_resume(c, nCcalls[L], f, FALSE)
      /\ \E more \in Remains(c) : top' = [top EXCEPT ![c] = @ /\ (status[c] = "yield" \/ more)]
      /\ UNCHANGED start
  BY DEF Resume, Resumable
<1>2. ~Idle /\ err = "none" /\ nCcalls[L] \in Nat
  BY <1>1, RunningFacts, Types
<1>3. top' \in [Thread -> BOOLEAN] /\ start' \in [Hosted -> BOOLEAN]
  <2>1. top \in [Thread -> BOOLEAN] /\ start \in [Hosted -> BOOLEAN] /\ c \in Thread
    BY DEF IInv, TypeOK, Thread
  <2>2. PICK more \in Remains(c) : top' = [top EXCEPT ![c] = @ /\ (status[c] = "yield" \/ more)]
    BY <1>1
  <2>3. (top[c] /\ (status[c] = "yield" \/ more)) \in BOOLEAN
    OBVIOUS
  <2>4. QED
    BY <1>1, <2>1, <2>2, <2>3
<1>4. status[c] = "yield" \/ (status[c] = "ok" /\ ci[c] = <<>>)
  BY <1>1, SuspendedFacts
<1>5. PICK f \in Bodies(c) : lua_resume(c, nCcalls[L], f, FALSE)
  BY <1>1
<1>6. f \in {"lua", "C", "value"} /\ (f # "lua" => c \in Hosted)
  BY DEF Bodies
<1>7. QED
  BY <1>1, <1>2, <1>3, <1>4, <1>5, <1>6, lua_resume_IInv

LEMMA ResumeError_IInv ==
  ASSUME IInv, NEW c \in Coroutine, ResumeError(c)
  PROVE  IInv'
<1>1. /\ Running("C") /\ costatus(c) = "suspended"
      /\ nCcalls' = [nCcalls EXCEPT ![c] = nCcalls[L]]
      /\ top' = [top EXCEPT ![c] = @ /\ ci[c] # <<>>]
      /\ UNCHANGED <<ci, status, baseCcalls, errfunc, start, cstack, err>>
  BY DEF ResumeError, Resumable
<1>2. c \in Thread /\ c # Main /\ ~Active(c)
  BY <1>1, SuspendedFacts
<1>3. /\ nCcalls[L] \in Nat /\ nCcalls \in [Thread -> Nat] /\ start \in [Hosted -> BOOLEAN]
      /\ baseCcalls \in [Thread -> Nat] /\ status \in [Thread -> {"ok", "yield", "error"}]
  BY <1>1, RunningFacts, Types DEF IInv, TypeOK
<1>4. /\ nCcalls' \in [Thread -> Nat]
      /\ \A t \in Thread : Active(t) \/ t = Main => nCcalls'[t] = nCcalls[t]
  BY <1>1, <1>2, <1>3
<1>5. top' \in [Thread -> BOOLEAN]
  <2>1. top \in [Thread -> BOOLEAN]
    BY DEF IInv, TypeOK
  <2>2. QED
    BY <1>1, <2>1
<1>6. Quiet
  BY <1>1, <1>3, <1>4, <1>5 DEF Quiet
<1>7. QED
  BY <1>6, QuietStep

\* A step that changes no more than start.
LEMMA Start_IInv ==
  ASSUME IInv, start' \in [Hosted -> BOOLEAN],
         UNCHANGED <<ci, status, top, nCcalls, baseCcalls, errfunc, cstack, err>>
  PROVE  IInv'
<1>1. Quiet
  BY DEF Quiet, IInv, TypeOK
<1>2. QED
  BY <1>1, QuietStep

LEMMA ThreadResume_IInv ==
  ASSUME IInv, NEW c \in Hosted, ThreadResume(c)
  PROVE  IInv'
<1>1. c \in Coroutine /\ c \in Thread /\ start \in [Hosted -> BOOLEAN]
      /\ top \in [Thread -> BOOLEAN]
  BY ThreadAssumption DEF Thread, IInv, TypeOK
<1>2. start' \in [Hosted -> BOOLEAN] /\ err = "none"
  BY <1>1, RunningFacts DEF ThreadResume, HostActs
<1>3. CASE (status[c] = "yield" \/ (status[c] = "ok" /\ ci[c] = <<>>)) /\ nCcalls[c] < LUAI_MAXCCALLS
  <2>1. top' = top /\ \E f \in {"lua", "C"} : lua_resume(c, nCcalls[c], f, TRUE)
    BY <1>3 DEF ThreadResume
  <2>2. PICK f \in {"lua", "C"} : lua_resume(c, nCcalls[c], f, TRUE)
    BY <2>1
  <2>3. nCcalls[c] \in Nat /\ f \in {"lua", "C", "value"}
    BY <1>1, Types
  <2>4. top' \in [Thread -> BOOLEAN]
    BY <1>1, <2>1
  <2>5. QED
    BY <1>1, <1>2, <1>3, <2>2, <2>3, <2>4, lua_resume_IInv
<1>4. CASE ~((status[c] = "yield" \/ (status[c] = "ok" /\ ci[c] = <<>>)) /\ nCcalls[c] < LUAI_MAXCCALLS)
  <2>1. /\ top' = [top EXCEPT ![c] = @ \/ ci[c] = <<>>]
        /\ UNCHANGED <<ci, status, nCcalls, baseCcalls, errfunc, cstack, err>>
    BY <1>4 DEF ThreadResume
  <2>2. top' \in [Thread -> BOOLEAN]
    BY <1>1, <2>1
  <2>3. Quiet
    BY <1>2, <2>1, <2>2 DEF Quiet, IInv, TypeOK
  <2>4. QED
    BY <2>3, QuietStep
<1>5. QED
  BY <1>3, <1>4

-----------------------------------------------------------------------------
LEMMA Next_IInv ==
  ASSUME CallsOn \subseteq {Main}, IInv, [Next]_vars
  PROVE  IInv'
<1>1. ASSUME NEW f \in {"lua", "C"}, Call(f)
      PROVE  IInv'
  BY <1>1, Call_IInv
<1>2. ASSUME NEW f \in {"lua", "C"}, NestedCall(f)
      PROVE  IInv'
  BY <1>2, NestedCall_IInv
<1>3. ASSUME NEW f \in {"lua", "C"}, NEW handler \in BOOLEAN, Pcall(f, handler)
      PROVE  IInv'
  BY <1>3, Pcall_IInv
<1>4. ASSUME NEW f \in {"lua", "C"}, NEW th \in CallsOn, callFunction(th, f)
      PROVE  IInv'
  <2>1. th = Main
    OBVIOUS
  <2>2. callFunction(Main, f)
    BY <1>4, <2>1
  <2>3. QED
    BY <2>2, callFunction_IInv
<1>5. CASE Return
  BY <1>5, Return_IInv
<1>6. CASE Raise
  <2>1. ~Idle /\ err = "none"
    BY <1>6 DEF Raise, Running
  <2>2. QED
    BY <1>6, <2>1, Raise_IInv DEF Raise
<1>7. CASE Handle
  BY <1>7, Handle_IInv
<1>8. CASE Unwind
  BY <1>8, Unwind_IInv
<1>9. CASE Yield
  BY <1>9, Yield_IInv
<1>10. ASSUME NEW c \in Coroutine, Resume(c) \/ ResumeError(c)
       PROVE  IInv'
  BY <1>10, Resume_IInv, ResumeError_IInv
<1>11. ASSUME NEW c \in Hosted, Start(c) \/ ThreadResume(c)
       PROVE  IInv'
  <2>1. CASE Start(c)
    <3>1. start' \in [Hosted -> BOOLEAN]
      BY <2>1 DEF Start, IInv, TypeOK
    <3>2. QED
      BY <2>1, <3>1, Start_IInv DEF Start
  <2>2. QED
    BY <1>11, <2>1, ThreadResume_IInv
<1>12. CASE Lost \/ UNCHANGED vars
  <2>1. UNCHANGED vars
    BY <1>12 DEF Lost
  <2>2. start' \in [Hosted -> BOOLEAN]
    BY <2>1 DEF vars, IInv, TypeOK
  <2>3. QED
    BY <2>1, <2>2, Start_IInv DEF vars
<1>13. QED
  BY <1>1, <1>2, <1>3, <1>4, <1>5, <1>6, <1>7, <1>8, <1>9, <1>10, <1>11, <1>12 DEF Next
-----------------------------------------------------------------------------
(* What follows for every behaviour.                                       *)

\* The invariant holds as long as no callback runs on a coroutine's thread.
THEOREM CoroutineInvariance ==
  ASSUME CallsOn \subseteq {Main} PROVE Spec => []IInv
<1>1. IInv /\ [Next]_vars => IInv'
  BY Next_IInv
<1>2. QED
  BY <1>1, Init_IInv, PTL DEF Spec

\* Whatever errors unwound, nCcalls of a thread that is on the C stack counts its
\* calls there, as lua_assert says at the end of lua_resume.
THEOREM CallsCounted ==
  ASSUME CallsOn \subseteq {Main} PROVE Spec => []Counted
<1>1. ASSUME IInv
      PROVE  Counted
  <2>1. \A th : Nested(cstack, th, Len(cstack)) = {i \in Entries(th) : cstack[i].kind # "resume"}
    <3>1. DOMAIN cstack = 1..Len(cstack)
      BY <1>1, Types
    <3>2. QED
      BY <3>1 DEF Nested, Entries
  <2>2. \A th \in Thread : Active(th) =>
          nCcalls[th] = baseCcalls[th] + Cardinality(Nested(cstack, th, Len(cstack)))
    BY <1>1 DEF IInv, LevelsOK
  <2>3. TypeOK
    BY <1>1 DEF IInv
  <2>4. QED
    BY <2>1, <2>2, <2>3 DEF Counted
<1>2. QED
  BY <1>1, CoroutineInvariance, PTL

\* Coroutines that resume each other do not get around the limit of the C stack.
THEOREM CStackAlwaysBounded ==
  ASSUME CallsOn \subseteq {Main} PROVE Spec => []CStackBounded
<1>1. ASSUME IInv
      PROVE  CStackBounded
  <2> SUFFICES ASSUME NEW i \in DOMAIN cstack, \A j \in i + 1..N : ~cstack[j].host
               PROVE  N - i + 1 <= LUAI_MAXCCALLS + Spare
    BY DEF CStackBounded, N
  <2>1. N \in Nat /\ i \in 1..N /\ N \in 1..N /\ N \in i..N
    BY <1>1, Types DEF N
  <2>2. N - i + 1 <= Level(N) /\ Level(N) <= LUAI_MAXCCALLS + Spare
    BY <1>1, <2>1 DEF IInv, DepthOK, N
  <2>3. Level(N) \in Nat
    <3>1. cstack[N].th \in Thread /\ cstack[N].nCcalls \in Nat
      BY <1>1, <2>1, Types
    <3>2. baseCcalls[cstack[N].th] \in Nat
      BY <1>1, <3>1, Types
    <3>3. QED
      BY <3>1, <3>2 DEF Level
  <2>4. QED
    BY <2>1, <2>2, <2>3, LimitAssumption
<1>2. QED
  BY <1>1, CoroutineInvariance, PTL

\* What lua_resume finds of a coroutine that yielded is what it asserts.
THEOREM YieldAlwaysClean ==
  ASSUME CallsOn \subseteq {Main} PROVE Spec => []YieldClean
<1>1. IInv => YieldClean
  BY DEF IInv
<1>2. QED
  BY <1>1, CoroutineInvariance, PTL

\* No yield leaves through a luaD_call: the check of nCcalls stops those.
THEOREM YieldAlwaysReturns ==
  ASSUME CallsOn \subseteq {Main} PROVE Spec => YieldReturns
<1>1. ASSUME IInv, [Next]_vars, NEW c \in Thread, status[c] # "yield", status'[c] = "yield"
      PROVE  Last(cstack).kind = "resume" /\ Last(cstack).th = c
  <2>1. status \in [Thread -> {"ok", "yield", "error"}]
    BY <1>1 DEF IInv, TypeOK
  <2>2. Yield /\ status' # status
    <3>1. status' # status
      BY <1>1
    <3>2. ~Unwind
      <4>1. Unwind => status' = status \/ status' = [status EXCEPT ![L] = "error"]
        BY DEF Unwind
      <4>2. QED
        BY <1>1, <2>1, <4>1
    <3>3. \A d, n, f, host : ~lua_resume(d, n, f, host)
      BY <1>1, <2>1 DEF lua_resume
    <3>4. ASSUME NEW f, NEW th, NEW handler
          PROVE  ~Call(f) /\ ~NestedCall(f) /\ ~Pcall(f, handler) /\ ~callFunction(th, f)
      BY <3>1 DEF Call, NestedCall, Pcall, callFunction
    <3>5. ~Return /\ ~Raise /\ ~Handle /\ ~Lost /\ ~UNCHANGED vars
      BY <3>1 DEF Return, Raise, Handle, Lost, vars
    <3>6. \A d : ~Resume(d) /\ ~ResumeError(d) /\ ~Start(d) /\ ~ThreadResume(d)
      BY <3>1, <3>3 DEF Resume, ResumeError, Start, ThreadResume
    <3>7. QED
      BY <1>1, <3>1, <3>2, <3>4, <3>5, <3>6 DEF Next
  <2>3. /\ ~(nCcalls[L] > baseCcalls[L]) /\ status' = [status EXCEPT ![L] = "yield"]
    BY <2>2 DEF Yield
  <2>4. c = L
    BY <1>1, <2>1, <2>3
  <2>5. Last(cstack).kind = "resume" /\ Last(cstack).th = L
    BY <1>1, <2>2, <2>3, YieldEntry DEF Yield
  <2>6. QED
    BY <2>4, <2>5
<1>2. IInv /\ [Next]_vars =>
        [\A c \in Thread : status[c] # "yield" /\ status'[c] = "yield" =>
           Last(cstack).kind = "resume" /\ Last(cstack).th = c]_vars
  BY <1>1
<1>3. QED
  BY <1>2, CoroutineInvariance, PTL DEF Spec, YieldReturns
-----------------------------------------------------------------------------
(* The coroutines of the module Coroutines: the n-th of some numbers, for the *)
(* threads that are active, in order.                                      *)

LEMMA Ranks ==
  ASSUME NEW k \in Nat, NEW S \in SUBSET (1..k)
  PROVE  /\ IsFiniteSet(S) /\ Cardinality(S) \in Nat
         /\ \A i \in S : Rank(S, i) \in 1..Cardinality(S)
         /\ \A i, j \in S : i < j => Rank(S, i) < Rank(S, j)
<1> DEFINE B(i) == {j \in S : j <= i}
<1>1. IsFiniteSet(S) /\ Cardinality(S) \in Nat
  <2>1. IsFiniteSet(1..k)
    BY FS_Interval
  <2>2. IsFiniteSet(S)
    BY <2>1, FS_Subset
  <2>3. QED
    BY <2>2, FS_CardinalityType
<1>2. ASSUME NEW i \in S
      PROVE  /\ Rank(S, i) = Cardinality(B(i)) /\ IsFiniteSet(B(i)) /\ i \in B(i)
             /\ Cardinality(B(i)) \in Nat /\ Cardinality(B(i)) <= Cardinality(S)
             /\ Cardinality(B(i)) # 0
  <2>1. B(i) \subseteq S /\ i \in B(i) /\ Rank(S, i) = Cardinality(B(i))
    BY DEF Rank
  <2> HIDE DEF B
  <2>2. IsFiniteSet(B(i)) /\ Cardinality(B(i)) <= Cardinality(S)
    BY <1>1, <2>1, FS_Subset
  <2>3. Cardinality(B(i)) \in Nat
    BY <2>2, FS_CardinalityType
  <2>4. Cardinality(B(i)) # 0
    BY <2>1, <2>2, FS_EmptySet
  <2>5. QED
    BY <2>1, <2>2, <2>3, <2>4
<1>3. ASSUME NEW i \in S, NEW j \in S, i < j
      PROVE  Rank(S, i) < Rank(S, j)
  <2>1. B(i) \subseteq B(j) /\ j \notin B(i)
    <3>1. \A h \in S : h \in Int
      OBVIOUS
    <3>2. i \in Int /\ j \in Int /\ \A h \in S : h <= i => h <= j
      BY <1>3, <3>1
    <3>3. j \notin B(i)
      BY <1>3, <3>2
    <3>4. ASSUME NEW h \in B(i)
          PROVE  h \in B(j)
      <4>1. h \in S /\ h <= i
        OBVIOUS
      <4>2. QED
        BY <3>2, <4>1
    <3>5. QED
      BY <3>3, <3>4
  <2>2. /\ Rank(S, i) = Cardinality(B(i)) /\ Cardinality(B(i)) \in Nat
        /\ Rank(S, j) = Cardinality(B(j)) /\ Cardinality(B(j)) \in Nat
        /\ IsFiniteSet(B(j)) /\ j \in B(j)
    BY <1>2
  <2> HIDE DEF B
  <2>3. Cardinality(B(i)) <= Cardinality(B(j)) /\ (Cardinality(B(j)) = Cardinality(B(i)) => B(j) = B(i))
    BY <2>1, <2>2, FS_Subset
  <2>4. QED
    BY <2>1, <2>2, <2>3
<1> HIDE DEF B
<1>4. \A i \in S : Rank(S, i) \in 1..Cardinality(S)
  <2>1. ASSUME NEW i \in S
        PROVE  Rank(S, i) \in 1..Cardinality(S)
    BY <1>1, <1>2
  <2>2. QED
    BY <2>1
<1>5. QED
  BY <1>1, <1>3, <1>4

\* The n-th is the one whose rank is n.
LEMMA NthRank ==
  ASSUME NEW k \in Nat, NEW S \in SUBSET (1..k)
  PROVE  /\ \A n \in 1..Cardinality(S) : Nth(S, n) \in S /\ Rank(S, Nth(S, n)) = n
         /\ \A i \in S : Nth(S, Rank(S, i)) = i
<1> DEFINE T == 1..Cardinality(S)
           r == [i \in S |-> Rank(S, i)]
<1>1. /\ IsFiniteSet(S) /\ Cardinality(S) \in Nat /\ \A i \in S : Rank(S, i) \in T
      /\ \A i, j \in S : i < j => Rank(S, i) < Rank(S, j)
  BY Ranks
<1>2. \A i, j \in S : Rank(S, i) = Rank(S, j) => i = j
  <2>1. ASSUME NEW i \in S, NEW j \in S, Rank(S, i) = Rank(S, j)
        PROVE  i = j
    <3>1. i \in Int /\ j \in Int /\ Rank(S, i) \in Int /\ Rank(S, j) \in Int
      BY <1>1
    <3>2. ~(i < j) /\ ~(j < i)
      BY <1>1, <2>1, <3>1
    <3>3. QED
      BY <3>1, <3>2
  <2>2. QED
    BY <2>1
<1>3. IsFiniteSet(T) /\ Cardinality(T) = Cardinality(S)
  BY <1>1, FS_Interval
<1>4. \A n \in T : \E i \in S : Rank(S, i) = n
  <2> HIDE DEF T
  <2>1. r \in Injection(S, T)
    BY <1>1, <1>2 DEF Injection, IsInjective
  <2> HIDE DEF r
  <2>2. r \in Surjection(S, T)
    BY <1>1, <1>3, <2>1, FS_Injection
  <2>3. QED
    BY <2>2 DEF Surjection, r
<1>5. ASSUME NEW n \in T
      PROVE  Nth(S, n) \in S /\ Rank(S, Nth(S, n)) = n
  BY <1>4 DEF Nth
<1>6. ASSUME NEW i \in S
      PROVE  Nth(S, Rank(S, i)) = i
  <2>1. Nth(S, Rank(S, i)) \in S /\ Rank(S, Nth(S, Rank(S, i))) = Rank(S, i)
    BY <1>1, <1>5
  <2>2. QED
    BY <1>2, <2>1
<1>7. QED
  BY <1>5, <1>6

\* T is S and a higher number, which comes after the others.
Added(k, S, T) == k \in Nat /\ S \in SUBSET (1..k) /\ T = S \cup {k + 1}

LEMMA NthNext ==
  ASSUME NEW k, NEW S, NEW T, Added(k, S, T)
  PROVE  /\ Cardinality(S) \in Nat /\ Cardinality(T) = Cardinality(S) + 1
         /\ \A n \in 1..Cardinality(S) : Nth(T, n) = Nth(S, n) /\ Nth(S, n) \in S
         /\ Nth(T, Cardinality(T)) = k + 1
<1> DEFINE h == k + 1
<1>0. k \in Nat /\ S \in SUBSET (1..k) /\ T = S \cup {h} /\ h = k + 1
  BY DEF Added
<1> HIDE DEF h
<1>1. T \in SUBSET (1..h) /\ h \in Nat /\ h \notin S
  BY <1>0
<1>2. IsFiniteSet(S) /\ Cardinality(S) \in Nat
  BY <1>0, Ranks
<1>3. Cardinality(T) = Cardinality(S) + 1
  BY <1>0, <1>1, <1>2, FS_AddElement
<1>4. \A i \in S : Rank(T, i) = Rank(S, i)
  <2>1. ASSUME NEW i \in S
        PROVE  Rank(T, i) = Rank(S, i)
    <3>1. {j \in T : j <= i} = {j \in S : j <= i}
      BY <1>0
    <3>2. QED
      BY <3>1 DEF Rank
  <2>2. QED
    BY <2>1
<1>5. Rank(T, h) = Cardinality(T)
  <2>1. \A j \in T : j <= h
    BY <1>1
  <2>2. {j \in T : j <= h} = T
    BY <2>1
  <2>3. QED
    BY <2>2 DEF Rank
<1>6. \A i \in T : Nth(T, Rank(T, i)) = i
  <2>1. h \in Nat /\ T \in SUBSET (1..h)
    BY <1>1
  <2>2. QED
    BY <2>1, NthRank
<1>7. \A n \in 1..Cardinality(S) : Nth(S, n) \in S /\ Rank(S, Nth(S, n)) = n
  BY <1>0, NthRank
<1>8. \A n \in 1..Cardinality(S) : Nth(T, n) = Nth(S, n)
  BY <1>0, <1>4, <1>6, <1>7
<1>9. Nth(T, Cardinality(T)) = h
  BY <1>0, <1>5, <1>6
<1>10. QED
  BY <1>0, <1>2, <1>3, <1>7, <1>8, <1>9

\* The threads that are active, as the C stack grows and shrinks.
LEMMA ActivesSame ==
  ASSUME NEW cs, NEW ds, NEW k \in Nat, Switches(cs, Len(cs)) \in SUBSET (1..k),
         Switches(ds, Len(ds)) = Switches(cs, Len(cs)),
         \A i \in Switches(cs, Len(cs)) : ds[i] = cs[i]
  PROVE  Actives(ds) = Actives(cs)
<1> DEFINE S == Switches(cs, Len(cs))
<1>1. \A n \in 1..Cardinality(S) : Nth(S, n) \in S
  BY NthRank
<1>2. /\ Actives(cs) = [n \in 1..Cardinality(S) |-> cs[Nth(S, n)].th]
      /\ Actives(ds) = [n \in 1..Cardinality(S) |-> ds[Nth(S, n)].th]
  BY DEF Actives
<1> HIDE DEF S
<1>3. \A i \in S : ds[i] = cs[i]
  BY DEF S
<1>4. QED
  BY <1>1, <1>2, <1>3

LEMMA ActivesNext ==
  ASSUME NEW cs, NEW ds, NEW k \in Nat, Switches(cs, Len(cs)) \in SUBSET (1..k),
         Switches(ds, Len(ds)) = Switches(cs, Len(cs)) \cup {k + 1},
         \A i \in Switches(cs, Len(cs)) : ds[i] = cs[i] /\ cs[i].th \in Thread,
         ds[k + 1].th \in Thread
  PROVE  /\ Actives(cs) \in Seq(Thread) /\ Actives(ds) = Append(Actives(cs), ds[k + 1].th)
         /\ Actives(ds) # <<>> /\ Actives(cs) = Front(Actives(ds))
         /\ Last(Actives(ds)) = ds[k + 1].th
<1> DEFINE S == Switches(cs, Len(cs))
           T == Switches(ds, Len(ds))
           m == Cardinality(S)
           s == Actives(cs)
           x == ds[k + 1].th
<1>1. /\ m \in Nat /\ Cardinality(T) = m + 1
      /\ \A n \in 1..m : Nth(T, n) = Nth(S, n) /\ Nth(S, n) \in S
      /\ Nth(T, m + 1) = k + 1
  <2>1. Added(k, S, T)
    BY DEF Added
  <2> HIDE DEF S, T, m
  <2>2. /\ Cardinality(S) \in Nat /\ Cardinality(T) = Cardinality(S) + 1
        /\ \A n \in 1..Cardinality(S) : Nth(T, n) = Nth(S, n) /\ Nth(S, n) \in S
        /\ Nth(T, Cardinality(T)) = k + 1
    BY <2>1, NthNext
  <2>3. m = Cardinality(S)
    BY DEF m
  <2>4. QED
    BY <2>2, <2>3
<1>2. /\ s = [n \in 1..m |-> cs[Nth(S, n)].th]
      /\ Actives(ds) = [n \in 1..m + 1 |-> ds[Nth(T, n)].th]
  BY <1>1 DEF Actives
<1>3. \A i \in S : ds[i] = cs[i] /\ cs[i].th \in Thread
  OBVIOUS
<1> HIDE DEF S, T, m, s
<1>4. s \in Seq(Thread) /\ Len(s) = m
  BY <1>1, <1>2, <1>3
<1>5. \A n \in 1..m : Actives(ds)[n] = s[n]
  <2>1. ASSUME NEW n \in 1..m
        PROVE  Actives(ds)[n] = s[n]
    <3>1. n \in 1..m + 1
      BY <1>1
    <3>2. QED
      BY <1>1, <1>2, <1>3, <3>1
  <2>2. QED
    BY <2>1
<1>6. Actives(ds)[m + 1] = x
  <2>1. m + 1 \in 1..m + 1
    BY <1>1
  <2>2. QED
    BY <1>1, <1>2, <2>1
<1> DEFINE d == Actives(ds)
<1>7. DOMAIN d = 1..m + 1
  BY <1>2
<1>8. x \in Thread
  OBVIOUS
<1> HIDE DEF d, x
<1>9. /\ Append(s, x) \in Seq(Thread) /\ DOMAIN Append(s, x) = 1..m + 1
      /\ \A n \in 1..m : Append(s, x)[n] = s[n]
      /\ Append(s, x)[m + 1] = x /\ Len(Append(s, x)) = m + 1
  BY <1>1, <1>4, <1>8
<1>10. d = Append(s, x)
  <2>1. d = [n \in 1..m + 1 |-> d[n]]
    BY <1>2, <1>7 DEF d
  <2>2. Append(s, x) = [n \in 1..m + 1 |-> Append(s, x)[n]]
    <3> DEFINE q == Append(s, x)
    <3>1. q \in Seq(Thread) /\ DOMAIN q = 1..m + 1
      BY <1>9
    <3> HIDE DEF q
    <3>2. q = [n \in DOMAIN q |-> q[n]]
      BY <3>1
    <3>3. QED
      BY <3>1, <3>2 DEF q
  <2>3. \A n \in 1..m + 1 : n \in 1..m \/ n = m + 1
    BY <1>1
  <2>4. \A n \in 1..m + 1 : d[n] = Append(s, x)[n]
    BY <1>5, <1>6, <1>9, <2>3 DEF d
  <2>5. QED
    BY <2>1, <2>2, <2>4
<1>11. /\ Append(s, x) # <<>> /\ s = Front(Append(s, x)) /\ Last(Append(s, x)) = x
  <2>1. Front(Append(s, x)) = SubSeq(Append(s, x), 1, m)
    BY <1>1, <1>9 DEF Front
  <2>2. SubSeq(Append(s, x), 1, m) = [n \in 1..m |-> Append(s, x)[n]]
    BY <1>1, <1>9
  <2>3. [n \in 1..m |-> Append(s, x)[n]] = [n \in 1..m |-> s[n]]
    BY <1>9
  <2>4. s = [n \in 1..m |-> s[n]]
    BY <1>4
  <2>5. s = Front(Append(s, x))
    BY <2>1, <2>2, <2>3, <2>4
  <2>6. Last(Append(s, x)) = x
    BY <1>9 DEF Last
  <2>7. Append(s, x) # <<>>
    <3>1. Len(Append(s, x)) # 0 /\ Len(<<>>) = 0
      BY <1>1, <1>9
    <3>2. QED
      BY <3>1
  <2>8. QED
    BY <2>5, <2>6, <2>7
<1>12. QED
  BY <1>4, <1>10, <1>11 DEF s, d, x

\* They are the threads that have an entry, and the last entry's is the last.
LEMMA ActivesFacts ==
  ASSUME NEW cs \in Seq(EntryType), \A i \in 1..Len(cs) : SwitchOK(cs, i)
  PROVE  /\ Actives(cs) \in Seq(Thread)
         /\ \A t : t \in ToSet(Actives(cs)) <=> \E i \in 1..Len(cs) : cs[i].th = t
         /\ Len(cs) = 0 => Actives(cs) = <<>>
         /\ Len(cs) > 0 => Actives(cs) # <<>> /\ Last(Actives(cs)) = cs[Len(cs)].th
<1> DEFINE K == Len(cs)
           S == Switches(cs, K)
           m == Cardinality(S)
           A == Actives(cs)
<1>1. K \in Nat /\ S \in SUBSET (1..K) /\ \A i \in 1..K : i \in S <=> Switch(cs[i])
  BY DEF Switches
<1>2. \A i \in 1..K : cs[i].th \in Thread
  <2>1. \A i \in 1..K : cs[i] \in EntryType
    OBVIOUS
  <2>2. QED
    BY <2>1 DEF EntryType
<1>3. A = [n \in 1..m |-> cs[Nth(S, n)].th]
  BY DEF Actives
<1>4. \A i \in 1..K : \E k \in 1..i : /\ Switch(cs[k]) /\ cs[k].th = cs[i].th
                                      /\ \A j \in k + 1..i : ~Switch(cs[j])
  <2>1. ASSUME NEW i \in 1..K
        PROVE  \E k \in 1..i : /\ Switch(cs[k]) /\ cs[k].th = cs[i].th
                               /\ \A j \in k + 1..i : ~Switch(cs[j])
    <3>1. PICK k \in 1..i : /\ Switch(cs[k]) /\ \A j \in k..i : cs[j].th = cs[i].th
                            /\ \A j \in k + 1..i : ~Switch(cs[j])
      BY DEF SwitchOK
    <3>2. k \in k..i
      BY <1>1
    <3>3. QED
      BY <3>1, <3>2
  <2>2. QED
    BY <2>1
<1> HIDE DEF K, S, m, A
<1>5. m \in Nat /\ \A i \in S : Rank(S, i) \in 1..m
  BY <1>1, Ranks DEF m
<1>6. /\ \A n \in 1..m : Nth(S, n) \in S
      /\ \A i \in S : Nth(S, Rank(S, i)) = i
  BY <1>1, NthRank DEF m
<1>7. \A n \in 1..m : Nth(S, n) \in 1..K
  BY <1>1, <1>6
<1>8. A \in Seq(Thread) /\ Len(A) = m /\ DOMAIN A = 1..m
      /\ \A n \in 1..m : A[n] = cs[Nth(S, n)].th
  BY <1>2, <1>3, <1>5, <1>7
<1>9. ASSUME NEW t
      PROVE  t \in ToSet(A) <=> \E i \in 1..K : cs[i].th = t
  <2>1. ASSUME t \in ToSet(A)
        PROVE  \E i \in 1..K : cs[i].th = t
    <3>1. PICK n \in 1..m : A[n] = t
      BY <1>8, <2>1 DEF ToSet
    <3>2. QED
      BY <1>7, <1>8, <3>1
  <2>2. ASSUME NEW i \in 1..K, cs[i].th = t
        PROVE  t \in ToSet(A)
    <3>1. PICK k \in 1..i : Switch(cs[k]) /\ cs[k].th = t
      BY <1>4, <2>2
    <3>2. k \in S
      BY <1>1, <3>1
    <3>3. A[Rank(S, k)] = t /\ Rank(S, k) \in DOMAIN A
      BY <1>5, <1>6, <1>8, <3>1, <3>2
    <3>4. QED
      BY <3>3 DEF ToSet
  <2>3. QED
    BY <2>1, <2>2
<1>10. ASSUME K = 0
       PROVE  A = <<>>
  <2>1. S = {}
    BY <1>1, <1>10
  <2>2. m = 0
    BY <2>1, FS_EmptySet DEF m
  <2>3. QED
    BY <1>8, <2>2
<1>11. ASSUME K > 0
       PROVE  A # <<>> /\ Last(A) = cs[K].th
  <2>1. PICK k \in 1..K : /\ Switch(cs[k]) /\ cs[k].th = cs[K].th
                          /\ \A j \in k + 1..K : ~Switch(cs[j])
    <3>1. K \in 1..K
      BY <1>1, <1>11
    <3>2. QED
      BY <1>4, <3>1
  <2>2. k \in S
    BY <1>1, <2>1
  <2>3. Rank(S, k) = m
    <3>1. \A j \in S : j <= k
      <4>1. ASSUME NEW j \in S, ~(j <= k)
            PROVE  FALSE
        <5>1. j \in 1..K /\ Switch(cs[j])
          BY <1>1
        <5>2. j \in k + 1..K
          BY <1>1, <4>1, <5>1
        <5>3. QED
          BY <2>1, <5>1, <5>2
      <4>2. QED
        BY <4>1
    <3>2. {j \in S : j <= k} = S
      BY <3>1
    <3>3. QED
      BY <3>2 DEF Rank, m
  <2>4. m \in 1..m /\ A[m] = cs[K].th
    <3>1. Rank(S, k) \in 1..m /\ Nth(S, Rank(S, k)) = k
      BY <1>5, <1>6, <2>2
    <3>2. m \in 1..m /\ Nth(S, m) = k
      BY <2>3, <3>1
    <3>3. QED
      BY <1>8, <2>1, <3>2
  <2>5. A # <<>>
    <3>1. Len(A) # 0 /\ Len(<<>>) = 0
      BY <1>8, <2>4
    <3>2. QED
      BY <3>1
  <2>6. Last(A) = A[m]
    BY <1>8 DEF Last
  <2>7. QED
    BY <2>4, <2>5, <2>6
<1>12. QED
  BY <1>8, <1>9, <1>10, <1>11 DEF K, A
-----------------------------------------------------------------------------
(* What a step does to the C stack, and to the coroutines that are not on  *)
(* it.                                                                     *)

Kept(c) == status'[c] = status[c] /\ ci'[c] = ci[c] /\ top'[c] = top[c]
Others(C) == \A c \in Coroutine \ C : ~Active(c) => Kept(c)

Stays == cstack' = cstack /\ Others({})

Calls(e) == CallEntry(e) /\ cstack' = Append(cstack, e) /\ Others({})

Resumes(c, e) ==
  /\ e \in EntryType /\ e.kind = "resume" /\ e.th = c /\ e.ci = 0
  /\ costatus(c) = "suspended" \/ (c \in Hosted /\ costatus(c) = "dead")
  /\ ~Active(c)
  /\ cstack' = Append(cstack, e) /\ Others({c})

Ends(k) ==
  /\ ~Idle /\ k \in 1..N
  /\ \A j \in k..N : cstack[j].th = L
  /\ \A j \in k + 1..N : cstack[j].kind \in {"call", "handler"}
  /\ cstack' = SubSeq(cstack, 1, k - 1)
  /\ cstack[k].kind = "resume" => status'[L] # "ok" \/ ci'[L] = <<>>
  /\ Others({})

\* "C stack overflow", or nothing to call.
Refuses(c) ==
  /\ costatus(c) = "suspended" /\ ~Active(c) /\ cstack' = cstack
  /\ IF status[c] = "yield" THEN Kept(c)
     ELSE status'[c] = "error" \/ (status'[c] = "ok" /\ ci'[c] = <<>> /\ ~top'[c])
  /\ Others({c})

\* A message stays on the stack of a LuaThread.
Told(c) ==
  /\ c \in Hosted /\ ~Active(c) /\ cstack' = cstack
  /\ status[c] # "yield" /\ status'[c] = status[c]
  /\ ci[c] = <<>> /\ ci'[c] = <<>> /\ top'[c]
  /\ Others({c})

StepOK ==
  \/ Stays
  \/ \E e : Calls(e)
  \/ \E c \in Coroutine : \E e : Resumes(c, e)
  \/ \E k \in 1..N : Ends(k)
  \/ \E c \in Coroutine : Refuses(c) \/ Told(c)

\* SwitchOK depends on the entries up to i only.
LEMMA SwitchSame ==
  ASSUME NEW cs, NEW ds, NEW i \in Nat, i >= 1, \A j \in 1..i : cs[j] = ds[j], SwitchOK(cs, i)
  PROVE  SwitchOK(ds, i)
<1>1. i \in 1..i
  OBVIOUS
<1>2. PICK k \in 1..i : /\ Switch(cs[k]) /\ \A j \in k..i : cs[j].th = cs[i].th
                        /\ \A j \in k + 1..i : ~Switch(cs[j])
  BY DEF SwitchOK
<1>3. Switch(ds[k]) /\ (\A j \in k..i : ds[j].th = ds[i].th) /\ \A j \in k + 1..i : ~Switch(ds[j])
  BY <1>1, <1>2
<1>4. /\ ds[i].host => ds[i].kind = "resume" \/ (ds[i].kind = "pcall" /\ ds[i].th = Main)
      /\ ds[i].kind = "resume" => ds[i].ci = 0
  BY <1>1 DEF SwitchOK
<1>5. QED
  BY <1>3, <1>4 DEF SwitchOK

LEMMA SwitchNext ==
  ASSUME NEW ds, NEW k \in Nat,
         ds[k + 1].host => ds[k + 1].kind = "resume" \/ (ds[k + 1].kind = "pcall" /\ ds[k + 1].th = Main),
         ds[k + 1].kind = "resume" => ds[k + 1].ci = 0,
         \/ Switch(ds[k + 1])
         \/ ~Switch(ds[k + 1]) /\ k >= 1 /\ ds[k].th = ds[k + 1].th /\ SwitchOK(ds, k)
  PROVE  SwitchOK(ds, k + 1)
<1>1. CASE Switch(ds[k + 1])
  <2>1. k + 1 \in 1..k + 1 /\ k + 1..k + 1 = {k + 1} /\ k + 1 + 1..k + 1 = {}
    OBVIOUS
  <2>2. QED
    BY <1>1, <2>1 DEF SwitchOK
<1>2. CASE ~Switch(ds[k + 1])
  <2>1. PICK h \in 1..k : /\ Switch(ds[h]) /\ \A j \in h..k : ds[j].th = ds[k].th
                          /\ \A j \in h + 1..k : ~Switch(ds[j])
    BY <1>2 DEF SwitchOK
  <2>2. h \in 1..k + 1 /\ (\A j \in h..k + 1 : j \in h..k \/ j = k + 1)
        /\ \A j \in h + 1..k + 1 : j \in h + 1..k \/ j = k + 1
    OBVIOUS
  <2>3. /\ Switch(ds[h]) /\ \A j \in h..k + 1 : ds[j].th = ds[k + 1].th
        /\ \A j \in h + 1..k + 1 : ~Switch(ds[j])
    BY <1>2, <2>1, <2>2
  <2>4. QED
    BY <2>2, <2>3 DEF SwitchOK
<1>3. QED
  BY <1>1, <1>2

LEMMA SwitchesStep ==
  ASSUME IInv, SwitchesOK, StepOK
  PROVE  SwitchesOK'
<1>1. N \in Nat /\ cstack \in Seq(EntryType) /\ \A i \in 1..N : SwitchOK(cstack, i)
  BY Types DEF SwitchesOK, N
<1>2. ASSUME NEW e \in EntryType, cstack' = Append(cstack, e),
             e.host => e.kind = "resume" \/ (e.kind = "pcall" /\ e.th = Main),
             e.kind = "resume" => e.ci = 0,
             Switch(e) \/ (~Idle /\ e.th = L)
      PROVE  SwitchesOK'
  <2> DEFINE ds == cstack'
  <2>1. /\ Len(ds) = N + 1 /\ ds[N + 1] = e
        /\ \A i \in 1..N : cstack[i] = ds[i]
    BY <1>1, <1>2, Appended DEF N
  <2> HIDE DEF ds
  <2>2. ASSUME NEW i \in 1..N
        PROVE  SwitchOK(ds, i)
    <3>1. i \in Nat /\ i >= 1 /\ \A j \in 1..i : cstack[j] = ds[j]
      BY <1>1, <2>1
    <3>2. QED
      BY <1>1, <3>1, SwitchSame
  <2>3. \/ Switch(ds[N + 1])
        \/ ~Switch(ds[N + 1]) /\ N >= 1 /\ ds[N].th = ds[N + 1].th /\ SwitchOK(ds, N)
    <3>1. ASSUME ~Switch(e)
          PROVE  N >= 1 /\ ds[N].th = e.th /\ SwitchOK(ds, N)
      <4>1. N \in 1..N /\ L = cstack[N].th
        BY <1>2, <3>1, Types
      <4>2. QED
        BY <1>2, <2>1, <2>2, <3>1, <4>1
    <3>2. QED
      BY <2>1, <3>1
  <2>4. SwitchOK(ds, N + 1)
    BY <1>1, <1>2, <2>1, <2>3, SwitchNext
  <2>5. \A i \in 1..N + 1 : i \in 1..N \/ i = N + 1
    BY <1>1
  <2>6. \A i \in 1..Len(ds) : SwitchOK(ds, i)
    BY <2>1, <2>2, <2>4, <2>5
  <2>7. QED
    BY <2>6 DEF ds, SwitchesOK
<1>3. CASE cstack' = cstack
  BY <1>3 DEF SwitchesOK
<1>4. ASSUME NEW k \in 1..N, cstack' = SubSeq(cstack, 1, k - 1)
      PROVE  SwitchesOK'
  <2> DEFINE ds == cstack'
             h  == k - 1
  <2>1. h \in Nat /\ h <= Len(cstack) /\ ds = SubSeq(cstack, 1, h)
    BY <1>1, <1>4 DEF N
  <2> HIDE DEF ds, h
  <2>2. Len(ds) = h /\ \A i \in 1..h : cstack[i] = ds[i] /\ i \in 1..N
    BY <1>1, <2>1, Prefix DEF N
  <2>3. ASSUME NEW i \in 1..h
        PROVE  SwitchOK(ds, i)
    <3>1. i \in Nat /\ i >= 1 /\ i \in 1..N /\ \A j \in 1..i : cstack[j] = ds[j]
      BY <2>1, <2>2
    <3>2. QED
      BY <1>1, <3>1, SwitchSame
  <2>4. \A i \in 1..Len(ds) : SwitchOK(ds, i)
    BY <2>2, <2>3
  <2>5. QED
    BY <2>4 DEF ds, SwitchesOK
<1>5. ASSUME NEW e, Calls(e)
      PROVE  SwitchesOK'
  <2>1. /\ e \in EntryType /\ cstack' = Append(cstack, e) /\ e.kind # "resume"
        /\ e.host => e.kind = "pcall" /\ e.th = Main
        /\ ~e.host => ~Idle /\ e.th = L
    BY <1>5 DEF Calls, CallEntry
  <2>2. QED
    BY <1>2, <2>1 DEF Switch
<1>6. ASSUME NEW c \in Coroutine, NEW e, Resumes(c, e)
      PROVE  SwitchesOK'
  BY <1>2, <1>6 DEF Resumes, Switch
<1>7. QED
  BY <1>3, <1>4, <1>5, <1>6 DEF StepOK, Stays, Ends, Refuses, Told

\* The states that a coroutine can have, where the C stack says that it is active.
LEMMA Statuses ==
  ASSUME IInv, NEW c \in Coroutine
  PROVE  /\ c \in Thread /\ c # Main
         /\ Active(c) => costatus(c) = IF ~Idle /\ c = L THEN "running" ELSE "normal"
         /\ ~Active(c) => Idle \/ c # L
<1>1. c \in Thread /\ c # Main
  BY ThreadAssumption DEF Thread
<1>2. Active(c) => status[c] = "ok" /\ ci[c] # <<>>
  BY <1>1 DEF IInv, ThreadsOK
<1>3. Active(c) => costatus(c) = IF ~Idle /\ c = L THEN "running" ELSE "normal"
  BY <1>2 DEF costatus
<1>4. ~Active(c) => Idle \/ c # L
  BY LastEntry
<1>5. QED
  BY <1>1, <1>3, <1>4

LEMMA StatusesNext ==
  ASSUME IInv', NEW c \in Coroutine
  PROVE  /\ Active(c)' => costatus(c)' = IF ~Idle' /\ c = L' THEN "running" ELSE "normal"
         /\ ~Active(c)' => Idle' \/ c # L'
<1>1. c \in Thread /\ c # Main
  BY ThreadAssumption DEF Thread
<1>2. Active(c)' => status'[c] = "ok" /\ ci'[c] # <<>>
  BY <1>1 DEF IInv, ThreadsOK
<1>3. Active(c)' => costatus(c)' = IF ~Idle' /\ c = L' THEN "running" ELSE "normal"
  BY <1>2 DEF costatus
<1>4. ~Active(c)' => Idle' \/ c # L'
  <2> DEFINE ds == cstack'
  <2>1. ds \in Seq(EntryType)
    BY DEF IInv, TypeOK
  <2>2. (Idle' <=> ds = <<>>) /\ L' = ds[Len(ds)].th /\ (Active(c)' <=> \E i \in DOMAIN ds : ds[i].th = c)
    BY DEF Idle, L, Last, Active, Entries
  <2> HIDE DEF ds
  <2>3. ds # <<>> => Len(ds) \in DOMAIN ds
    BY <2>1
  <2>4. QED
    BY <2>2, <2>3
<1>5. QED
  BY <1>3, <1>4

-----------------------------------------------------------------------------
(* Each step, of those.                                                    *)

LEMMA PushStepOK ==
  ASSUME NEW e, CallEntry(e), NEW f, luaD_call(e, f), UNCHANGED <<status, top>>,
         IInv, e.th = Main \/ Active(e.th)
  PROVE  StepOK
<1>1. cstack' = Append(cstack, e)
  BY DEF luaD_call
<1>2. ASSUME NEW c \in Coroutine, ~Active(c)
      PROVE  ci'[c] = ci[c]
  <2>1. c # e.th /\ c \in Thread
    BY <1>2, Statuses
  <2>2. ci \in [Thread -> Seq({"lua", "C"})]
    BY DEF IInv, TypeOK
  <2>3. ci' = ci \/ ci' = [ci EXCEPT ![e.th] = Append(@, f)]
    BY DEF luaD_call
  <2>4. QED
    BY <2>1, <2>2, <2>3
<1>3. Others({})
  BY <1>2 DEF Others, Kept
<1>4. Calls(e)
  BY <1>1, <1>3 DEF Calls
<1>5. QED
  BY <1>4 DEF StepOK

\* A step that changes the frames of the running thread only.
LEMMA StaysStepOK ==
  ASSUME IInv, cstack' = cstack, UNCHANGED <<status, top>>,
         ci' = ci \/ (~Idle /\ \E x : ci' = [ci EXCEPT ![L] = x])
  PROVE  StepOK
<1>1. ASSUME NEW c \in Coroutine, ~Active(c)
      PROVE  ci'[c] = ci[c]
  <2>1. c \in Thread /\ (Idle \/ c # L)
    BY <1>1, Statuses
  <2>2. ci \in [Thread -> Seq({"lua", "C"})]
    BY DEF IInv, TypeOK
  <2>3. QED
    BY <2>1, <2>2
<1>2. Stays
  BY <1>1 DEF Stays, Others, Kept
<1>3. QED
  BY <1>2 DEF StepOK

\* A cut that changes the running thread only.
LEMMA CutStepOK ==
  ASSUME IInv, ~Idle, NEW k \in 1..N,
         \A j \in k..N : cstack[j].th = L,
         \A j \in k + 1..N : cstack[j].kind \in {"call", "handler"},
         cstack' = SubSeq(cstack, 1, k - 1),
         cstack[k].kind = "resume" => status'[L] # "ok" \/ ci'[L] = <<>>,
         ci' = ci \/ \E x : ci' = [ci EXCEPT ![L] = x],
         status' = status \/ \E x : status' = [status EXCEPT ![L] = x],
         top' = top \/ \E x : top' = [top EXCEPT ![L] = x]
  PROVE  StepOK
<1>1. ASSUME NEW c \in Coroutine, ~Active(c)
      PROVE  Kept(c)
  <2>1. c \in Thread /\ c # L
    BY <1>1, Statuses
  <2>2. /\ ci \in [Thread -> Seq({"lua", "C"})] /\ status \in [Thread -> {"ok", "yield", "error"}]
        /\ top \in [Thread -> BOOLEAN]
    BY DEF IInv, TypeOK
  <2>3. ci'[c] = ci[c]
    BY <2>1, <2>2
  <2>4. status'[c] = status[c]
    BY <2>1, <2>2
  <2>5. top'[c] = top[c]
    BY <2>1, <2>2
  <2>6. QED
    BY <2>3, <2>4, <2>5 DEF Kept
<1>2. Others({})
  BY <1>1 DEF Others
<1>3. Ends(k)
  BY <1>2 DEF Ends
<1>4. QED
  BY <1>3 DEF StepOK

LEMMA Call_StepOK ==
  ASSUME IInv, NEW f, Call(f)
  PROVE  StepOK
<1>1. ~Idle /\ ci' = [ci EXCEPT ![L] = Append(ci[L], f)] /\ UNCHANGED <<status, top, cstack>>
  BY DEF Call, Running
<1>2. QED
  BY <1>1, StaysStepOK

LEMMA NestedCall_StepOK ==
  ASSUME IInv, NEW f, NestedCall(f)
  PROVE  StepOK
<1> DEFINE e == Entry("call", L, FALSE)
<1>1. /\ ~Idle /\ err = "none" /\ L \in Thread /\ luaD_call(e, f) /\ UNCHANGED <<status, top>>
  BY RunningFacts DEF NestedCall
<1>2. CallEntry(e)
  BY <1>1, Types DEF CallEntry, Entry, EntryType, IInv, TypeOK
<1>3. e.th = L /\ Active(L)
  BY <1>1, LastEntry DEF Entry
<1> HIDE DEF e
<1>4. QED
  BY <1>1, <1>2, <1>3, PushStepOK

LEMMA Pcall_StepOK ==
  ASSUME IInv, NEW f, NEW handler, Pcall(f, handler)
  PROVE  StepOK
<1> DEFINE e == Entry("pcall", L, FALSE)
<1>1. /\ ~Idle /\ err = "none" /\ L \in Thread /\ luaD_call(e, f) /\ UNCHANGED <<status, top>>
  BY RunningFacts DEF Pcall
<1>2. CallEntry(e)
  BY <1>1, Types DEF CallEntry, Entry, EntryType, IInv, TypeOK
<1>3. e.th = L /\ Active(L)
  BY <1>1, LastEntry DEF Entry
<1> HIDE DEF e
<1>4. QED
  BY <1>1, <1>2, <1>3, PushStepOK

LEMMA callFunction_StepOK ==
  ASSUME IInv, NEW f, callFunction(Main, f)
  PROVE  StepOK
<1> DEFINE e == Entry("pcall", Main, TRUE)
<1>1. (~Idle => err = "none") /\ luaD_call(e, f) /\ UNCHANGED <<status, top>>
  BY RunningFacts DEF callFunction, HostActs
<1>2. Main \in Thread
  BY DEF Thread
<1>3. CallEntry(e)
  BY <1>1, <1>2, Types DEF CallEntry, Entry, EntryType, IInv, TypeOK
<1>4. e.th = Main
  BY DEF Entry
<1> HIDE DEF e
<1>5. QED
  BY <1>1, <1>3, <1>4, PushStepOK

LEMMA Handle_StepOK ==
  ASSUME IInv, Handle
  PROVE  StepOK
<1> DEFINE e == Entry("handler", L, FALSE)
<1>1. /\ ~Idle /\ err = "run" /\ L \in Thread /\ luaD_call(e, "lua") /\ UNCHANGED <<status, top>>
  BY LastEntry DEF Handle, IInv, TypeOK
<1>2. CallEntry(e)
  BY <1>1, Types DEF CallEntry, Entry, EntryType, IInv, TypeOK
<1>3. e.th = L /\ Active(L)
  BY <1>1, LastEntry DEF Entry
<1> HIDE DEF e
<1>4. QED
  BY <1>1, <1>2, <1>3, PushStepOK

LEMMA Return_StepOK ==
  ASSUME IInv, SwitchesOK, Return
  PROVE  StepOK
<1>1. ci' = [ci EXCEPT ![L] = Front(ci[L])] /\ status' = status
  BY DEF Return
<1>2. /\ ~Idle /\ L \in Thread /\ N \in 1..N /\ N \in Nat
      /\ L = cstack[N].th /\ Last(cstack) = cstack[N] /\ cstack[N].ci \in Nat
      /\ ci[L] \in Seq({"lua", "C"}) /\ Len(ci[L]) \in Nat /\ Len(ci[L]) > cstack[N].ci
  BY RunningFacts DEF Return
<1>3. CASE Len(ci[L]) - 1 > cstack[N].ci
  <2>1. UNCHANGED <<top, cstack>>
    BY <1>2, <1>3 DEF Return
  <2>2. QED
    BY <1>1, <1>2, <2>1, StaysStepOK
<1>4. CASE ~(Len(ci[L]) - 1 > cstack[N].ci)
  <2>1. /\ Leave
        /\ IF cstack[N].kind = "resume" /\ cstack[N].host
           THEN \E results \in BOOLEAN : top' = [top EXCEPT ![L] = @ \/ results]
           ELSE IF cstack[N].kind = "resume" THEN top' = [top EXCEPT ![L] = FALSE]
           ELSE UNCHANGED top
    BY <1>2, <1>4 DEF Return
  <2>2. top' = top \/ \E x : top' = [top EXCEPT ![L] = x]
    BY <2>1
  <2>3. cstack' = SubSeq(cstack, 1, N - 1)
    BY <2>1 DEF Leave, Front, N
  <2>4. N + 1..N = {} /\ N..N = {N}
    BY <1>2
  <2>5. cstack[N].kind = "resume" => ci'[L] = <<>>
    <3>1. cstack[N].kind = "resume" => cstack[N].ci = 0
      BY <1>2 DEF SwitchesOK, SwitchOK, N
    <3>2. ci'[L] = Front(ci[L])
      BY <1>1, <1>2 DEF IInv, TypeOK
    <3>3. Len(ci[L]) = 1 => Front(ci[L]) = <<>>
      BY <1>2 DEF Front
    <3>4. cstack[N].ci = 0 => Len(ci[L]) = 1
      <4> DEFINE d == cstack[N].ci
                 n == Len(ci[L])
      <4>1. d \in Nat /\ n \in Nat /\ n > d /\ ~(n - 1 > d)
        BY <1>2, <1>4
      <4> HIDE DEF d, n
      <4>2. d = 0 => n = 1
        BY <4>1
      <4>3. QED
        BY <4>2 DEF d, n
    <3>5. QED
      BY <3>1, <3>2, <3>3, <3>4
  <2>6. QED
    BY <1>1, <1>2, <2>2, <2>3, <2>4, <2>5, CutStepOK
<1>5. QED
  BY <1>3, <1>4

LEMMA Unwind_StepOK ==
  ASSUME IInv, Unwind
  PROVE  StepOK
<1>1. ~Idle /\ L \in Thread
  <2>1. err \in {"run", "throw"}
    BY DEF Unwind
  <2>2. QED
    BY <2>1, LastEntry DEF IInv, TypeOK
<1>2. PICK k \in 1..N : Caught(k)
  BY UnwindCatches
<1>3. /\ cstack[k].kind = "resume" => status'[L] # "ok"
      /\ ci' = ci \/ \E x : ci' = [ci EXCEPT ![L] = x]
      /\ status' = status \/ \E x : status' = [status EXCEPT ![L] = x]
      /\ top' = top
  <2>1. status \in [Thread -> {"ok", "yield", "error"}]
    BY DEF IInv, TypeOK
  <2>2. QED
    BY <1>1, <1>2, <2>1 DEF Caught
<1>4. QED
  BY <1>1, <1>2, <1>3, CutStepOK DEF Caught

LEMMA Yield_StepOK ==
  ASSUME IInv, Yield
  PROVE  StepOK
<1>1. /\ ~Idle /\ L \in Thread /\ N \in 1..N /\ N \in Nat /\ L = cstack[N].th
      /\ ci' = ci /\ top' = top
  BY RunningFacts DEF Yield
<1>2. CASE nCcalls[L] > baseCcalls[L]
  <2>1. UNCHANGED <<ci, status, top, cstack>>
    BY <1>2 DEF Yield
  <2>2. QED
    BY <2>1, StaysStepOK
<1>3. CASE ~(nCcalls[L] > baseCcalls[L])
  <2>1. status' = [status EXCEPT ![L] = "yield"] /\ cstack' = SubSeq(cstack, 1, N - 1)
    BY <1>3 DEF Yield, Leave, Front, N
  <2>2. status'[L] = "yield"
    BY <1>1, <2>1 DEF IInv, TypeOK
  <2>3. N + 1..N = {} /\ N..N = {N}
    BY <1>1
  <2>4. QED
    BY <1>1, <2>1, <2>2, <2>3, CutStepOK
<1>4. QED
  BY <1>2, <1>3

LEMMA Runs_StepOK ==
  ASSUME IInv, NEW c \in Coroutine, NEW n, NEW f, NEW host \in BOOLEAN,
         costatus(c) = "suspended" \/ (c \in Hosted /\ costatus(c) = "dead"), ~Active(c),
         Runs(c, n, f, host),
         top' = top \/ \E x : top' = [top EXCEPT ![c] = x]
  PROVE  StepOK
<1> DEFINE e == [Entry("resume", c, host) EXCEPT !.ci = 0]
<1>1. c \in Thread
  BY Statuses
<1>2. e \in EntryType /\ e.kind = "resume" /\ e.th = c /\ e.ci = 0
  BY <1>1 DEF Entry, EntryType, IInv, TypeOK
<1>3. cstack' = Append(cstack, e)
  BY DEF Runs
<1> HIDE DEF e
<1>4. ASSUME NEW d \in Coroutine \ {c}
      PROVE  Kept(d)
  <2>1. d \in Thread /\ d # c
    BY Statuses
  <2>2. /\ ci \in [Thread -> Seq({"lua", "C"})] /\ status \in [Thread -> {"ok", "yield", "error"}]
        /\ top \in [Thread -> BOOLEAN]
    BY DEF IInv, TypeOK
  <2>3. ci'[d] = ci[d] /\ status'[d] = status[d]
    BY <2>1, <2>2 DEF Runs
  <2>4. top'[d] = top[d]
    BY <2>1, <2>2
  <2>5. QED
    BY <2>3, <2>4 DEF Kept
<1>5. Others({c})
  BY <1>4 DEF Others
<1>6. Resumes(c, e)
  BY <1>2, <1>3, <1>5 DEF Resumes
<1>7. QED
  BY <1>6 DEF StepOK

LEMMA Resume_StepOK ==
  ASSUME IInv, NEW c \in Coroutine, Resume(c)
  PROVE  StepOK
<1>1. /\ costatus(c) = "suspended"
      /\ \E f \in Bodies(c) : lua_resume(c, nCcalls[L], f, FALSE)
      /\ \E more \in Remains(c) : top' = [top EXCEPT ![c] = top[c] /\ (status[c] = "yield" \/ more)]
  BY DEF Resume, Resumable
<1>2. ~Active(c) /\ c \in Thread
  BY <1>1, SuspendedFacts
<1>3. /\ \E x : top' = [top EXCEPT ![c] = x]
      /\ top \in [Thread -> BOOLEAN] /\ status \in [Thread -> {"ok", "yield", "error"}]
  BY <1>1 DEF IInv, TypeOK
<1>4. PICK f \in Bodies(c) : lua_resume(c, nCcalls[L], f, FALSE)
  BY <1>1
<1>5. CASE Strays(c)
  <2>1. top' = top
    <3>1. PICK more \in Remains(c) : top' = [top EXCEPT ![c] = top[c] /\ (status[c] = "yield" \/ more)]
      BY <1>1
    <3>2. (top[c] /\ (status[c] = "yield" \/ more)) = top[c]
      BY <1>2, <1>3, <1>5 DEF Strays
    <3>3. QED
      BY <1>2, <1>3, <3>1, <3>2
  <2>2. QED
    BY <1>5, <2>1, StaysStepOK DEF Strays
<1>6. CASE Fails(c, nCcalls[L])
  <2>1. status'[c] = "error" /\ status[c] # "yield" /\ cstack' = cstack
    BY <1>2, <1>3, <1>6 DEF Fails
  <2>2. Others({c})
    BY <1>3, <1>6, Statuses DEF Fails, Others, Kept
  <2>3. Refuses(c)
    BY <1>1, <1>2, <2>1, <2>2 DEF Refuses
  <2>4. QED
    BY <2>3 DEF StepOK
<1>7. CASE Runs(c, nCcalls[L], f, FALSE)
  BY <1>1, <1>2, <1>3, <1>7, Runs_StepOK
<1>8. QED
  BY <1>4, <1>5, <1>6, <1>7, ResumeCases

LEMMA ResumeError_StepOK ==
  ASSUME IInv, NEW c \in Coroutine, ResumeError(c)
  PROVE  StepOK
<1>1. /\ costatus(c) = "suspended"
      /\ top' = [top EXCEPT ![c] = @ /\ ci[c] # <<>>]
      /\ UNCHANGED <<ci, status, cstack>>
  BY DEF ResumeError, Resumable
<1>2. /\ c \in Thread /\ ~Active(c)
      /\ status[c] = "yield" \/ (status[c] = "ok" /\ ci[c] = <<>>)
  BY <1>1, SuspendedFacts
<1>3. top \in [Thread -> BOOLEAN]
  BY DEF IInv, TypeOK
<1>4. ASSUME status[c] = "yield"
      PROVE  Kept(c)
  <2>2. ci[c] # <<>>
    BY <1>2, <1>4 DEF IInv, YieldClean
  <2>3. top'[c] = top[c]
    BY <1>1, <1>2, <1>3, <2>2
  <2>4. QED
    BY <1>1, <1>4, <2>3 DEF Kept
<1>5. ASSUME status[c] # "yield"
      PROVE  status'[c] = "ok" /\ ci'[c] = <<>> /\ ~top'[c]
  BY <1>1, <1>2, <1>3, <1>5
<1>6. Others({c})
  BY <1>1, <1>3, Statuses DEF Others, Kept
<1>7. Refuses(c)
  BY <1>1, <1>2, <1>4, <1>5, <1>6 DEF Refuses
<1>8. QED
  BY <1>7 DEF StepOK

LEMMA ThreadResume_StepOK ==
  ASSUME IInv, NEW c \in Hosted, ThreadResume(c)
  PROVE  StepOK
<1>1. /\ c \in Coroutine /\ c \in Thread /\ c # Main
      /\ top \in [Thread -> BOOLEAN] /\ status \in [Thread -> {"ok", "yield", "error"}]
  BY ThreadAssumption DEF Thread, IInv, TypeOK
<1>2. CASE (status[c] = "yield" \/ (status[c] = "ok" /\ ci[c] = <<>>)) /\ nCcalls[c] < LUAI_MAXCCALLS
  <2>1. top' = top /\ \E f \in {"lua", "C"} : lua_resume(c, nCcalls[c], f, TRUE)
    BY <1>2 DEF ThreadResume
  <2>2. ~Active(c)
    BY <1>1, <1>2, Statuses DEF IInv, YieldClean, ThreadsOK
  <2>3. Idle \/ c # L
    BY <1>1, <2>2, Statuses
  <2>4. costatus(c) \in {"suspended", "dead"}
    BY <1>2, <2>3 DEF costatus
  <2>5. costatus(c) = "suspended" \/ costatus(c) = "dead"
    BY <2>4
  <2>6. PICK f \in {"lua", "C"} : lua_resume(c, nCcalls[c], f, TRUE)
    BY <2>1
  <2>7. ~Fails(c, nCcalls[c])
    <3>1. lua_resume(c, nCcalls[c], f, TRUE) => status'[c] # "error" \/ status[c] = "yield"
      BY <1>1, <1>2 DEF lua_resume
    <3>2. Fails(c, nCcalls[c]) => status'[c] = "error" /\ status[c] # "yield"
      BY <1>1 DEF Fails
    <3>3. QED
      BY <2>6, <3>1, <3>2
  <2>8. CASE Strays(c)
    BY <2>1, <2>8, StaysStepOK DEF Strays
  <2>9. CASE Runs(c, nCcalls[c], f, TRUE)
    BY <1>1, <2>1, <2>2, <2>5, <2>9, Runs_StepOK
  <2>10. QED
    BY <2>6, <2>7, <2>8, <2>9, ResumeCases
<1>3. CASE ~((status[c] = "yield" \/ (status[c] = "ok" /\ ci[c] = <<>>)) /\ nCcalls[c] < LUAI_MAXCCALLS)
  <2>1. /\ top' = [top EXCEPT ![c] = @ \/ ci[c] = <<>>]
        /\ UNCHANGED <<ci, status, cstack>>
    BY <1>3 DEF ThreadResume
  <2>2. CASE ci[c] # <<>>
    <3>1. top' = top
      BY <1>1, <2>1, <2>2
    <3>2. QED
      BY <2>1, <3>1, StaysStepOK
  <2>3. CASE ci[c] = <<>>
    <3>1. ~Active(c) /\ status[c] # "yield"
      BY <1>1, <2>3 DEF IInv, ThreadsOK, YieldClean
    <3>2. top'[c]
      BY <1>1, <2>1, <2>3
    <3>3. Others({c})
      BY <1>1, <2>1, Statuses DEF Others, Kept
    <3>4. Told(c)
      BY <2>1, <2>3, <3>1, <3>2, <3>3 DEF Told
    <3>5. QED
      BY <1>1, <3>4 DEF StepOK
  <2>4. QED
    BY <2>2, <2>3
<1>4. QED
  BY <1>2, <1>3

LEMMA Next_StepOK ==
  ASSUME CallsOn \subseteq {Main}, IInv, SwitchesOK, [Next]_vars
  PROVE  StepOK
<1>1. ASSUME NEW f \in {"lua", "C"}, Call(f)
      PROVE  StepOK
  BY <1>1, Call_StepOK
<1>2. ASSUME NEW f \in {"lua", "C"}, NestedCall(f)
      PROVE  StepOK
  BY <1>2, NestedCall_StepOK
<1>3. ASSUME NEW f \in {"lua", "C"}, NEW handler \in BOOLEAN, Pcall(f, handler)
      PROVE  StepOK
  BY <1>3, Pcall_StepOK
<1>4. ASSUME NEW f \in {"lua", "C"}, NEW th \in CallsOn, callFunction(th, f)
      PROVE  StepOK
  <2>1. th = Main
    OBVIOUS
  <2>2. callFunction(Main, f)
    BY <1>4, <2>1
  <2>3. QED
    BY <2>2, callFunction_StepOK
<1>5. CASE Return
  BY <1>5, Return_StepOK
<1>6. CASE Raise
  BY <1>6, StaysStepOK DEF Raise
<1>7. CASE Handle
  BY <1>7, Handle_StepOK
<1>8. CASE Unwind
  BY <1>8, Unwind_StepOK
<1>9. CASE Yield
  BY <1>9, Yield_StepOK
<1>10. ASSUME NEW c \in Coroutine, Resume(c) \/ ResumeError(c)
       PROVE  StepOK
  BY <1>10, Resume_StepOK, ResumeError_StepOK
<1>11. ASSUME NEW c \in Hosted, Start(c) \/ ThreadResume(c)
       PROVE  StepOK
  <2>1. CASE Start(c)
    BY <2>1, StaysStepOK DEF Start
  <2>2. QED
    BY <1>11, <2>1, ThreadResume_StepOK
<1>12. CASE Lost \/ UNCHANGED vars
  BY <1>12, StaysStepOK DEF Lost, vars
<1>13. QED
  BY <1>1, <1>2, <1>3, <1>4, <1>5, <1>6, <1>7, <1>8, <1>9, <1>10, <1>11, <1>12 DEF Next

-----------------------------------------------------------------------------
(* What the active threads are after a step, and their statuses.           *)

\* The statuses of the coroutines, and those that are active.
St  == [c \in Coroutine |-> costatus(c)]
Act == Actives(cstack)

LEMMA ActNow ==
  ASSUME IInv, SwitchesOK
  PROVE  /\ \A t : t \in ToSet(Act) <=> Active(t)
         /\ Act # <<>> <=> ~Idle
         /\ ~Idle => Last(Act) = L
<1>1. N \in Nat /\ cstack \in Seq(EntryType) /\ \A i \in 1..Len(cstack) : SwitchOK(cstack, i)
  BY Types DEF SwitchesOK
<1>2. /\ \A t : t \in ToSet(Act) <=> \E i \in 1..N : cstack[i].th = t
      /\ N = 0 => Act = <<>>
      /\ N > 0 => Act # <<>> /\ Last(Act) = cstack[N].th
  BY <1>1, ActivesFacts DEF Act, N
<1>3. \A t : Active(t) <=> \E i \in 1..N : cstack[i].th = t
  BY <1>1 DEF Active, Entries, N
<1>4. (Idle => N = 0) /\ (~Idle => N > 0 /\ L = cstack[N].th)
  BY Types
<1>5. QED
  BY <1>2, <1>3, <1>4

LEMMA ActNext ==
  ASSUME IInv', SwitchesOK'
  PROVE  /\ \A t : t \in ToSet(Act') <=> Active(t)'
         /\ Act' # <<>> <=> ~Idle'
         /\ ~Idle' => Last(Act') = L'
<1> DEFINE ds == cstack'
<1>1. ds \in Seq(EntryType) /\ \A i \in 1..Len(ds) : SwitchOK(ds, i)
  BY DEF IInv, TypeOK, SwitchesOK
<1>2. /\ Act' = Actives(ds)
      /\ \A t : Active(t)' <=> \E i \in DOMAIN ds : ds[i].th = t
      /\ Idle' <=> ds = <<>>
      /\ L' = ds[Len(ds)].th
  BY DEF Act, Active, Entries, Idle, L, Last
<1> HIDE DEF ds
<1>3. /\ \A t : t \in ToSet(Act') <=> \E i \in 1..Len(ds) : ds[i].th = t
      /\ Len(ds) = 0 => Act' = <<>>
      /\ Len(ds) > 0 => Act' # <<>> /\ Last(Act') = ds[Len(ds)].th
  BY <1>1, <1>2, ActivesFacts
<1>4. Len(ds) \in Nat /\ DOMAIN ds = 1..Len(ds) /\ (ds = <<>> <=> Len(ds) = 0)
  BY <1>1
<1>5. QED
  BY <1>2, <1>3, <1>4

\* The status of what is active follows, and that of others does not change.
Follow ==
  /\ \A c \in Coroutine : c \in ToSet(Act) =>
       St[c] = IF Act # <<>> /\ Last(Act) = c THEN "running" ELSE "normal"
  /\ \A c \in Coroutine : c \in ToSet(Act') =>
       St'[c] = IF Act' # <<>> /\ Last(Act') = c THEN "running" ELSE "normal"
  /\ \A c \in Coroutine : c \notin ToSet(Act) /\ c \notin ToSet(Act') /\ Kept(c) => St'[c] = St[c]

LEMMA Followed ==
  ASSUME IInv, IInv', SwitchesOK, SwitchesOK'
  PROVE  Follow
<1>1. \A c \in Coroutine : St[c] = costatus(c) /\ St'[c] = costatus(c)'
  BY DEF St
<1>2. ASSUME NEW c \in Coroutine, c \in ToSet(Act)
      PROVE  St[c] = IF Act # <<>> /\ Last(Act) = c THEN "running" ELSE "normal"
  <2>1. Active(c) /\ (Act # <<>> <=> ~Idle) /\ (~Idle => Last(Act) = L)
    BY <1>2, ActNow
  <2>2. costatus(c) = IF ~Idle /\ c = L THEN "running" ELSE "normal"
    BY <2>1, Statuses
  <2>3. QED
    BY <1>1, <2>1, <2>2
<1>3. ASSUME NEW c \in Coroutine, c \in ToSet(Act')
      PROVE  St'[c] = IF Act' # <<>> /\ Last(Act') = c THEN "running" ELSE "normal"
  <2>1. Active(c)' /\ (Act' # <<>> <=> ~Idle') /\ (~Idle' => Last(Act') = L')
    BY <1>3, ActNext
  <2>2. costatus(c)' = IF ~Idle' /\ c = L' THEN "running" ELSE "normal"
    BY <2>1, StatusesNext
  <2>3. QED
    BY <1>1, <2>1, <2>2
<1>4. ASSUME NEW c \in Coroutine, c \notin ToSet(Act), c \notin ToSet(Act'), Kept(c)
      PROVE  St'[c] = St[c]
  <2>1. (Idle \/ c # L) /\ (Idle' \/ c # L')
    BY <1>4, ActNow, ActNext, Statuses, StatusesNext
  <2>2. costatus(c)' = costatus(c)
    BY <1>4, <2>1 DEF costatus, Kept
  <2>3. QED
    BY <1>1, <2>2
<1>5. QED
  BY <1>2, <1>3, <1>4 DEF Follow

\* A step that Coroutines does not see.
LEMMA Stutters ==
  ASSUME IInv, SwitchesOK, Follow, Act' = Act, Others({})
  PROVE  UNCHANGED Lifecycle!vars
<1>1. ASSUME NEW c \in Coroutine
      PROVE  St'[c] = St[c]
  <2>1. CASE c \in ToSet(Act)
    BY <2>1 DEF Follow
  <2>2. CASE c \notin ToSet(Act)
    <3>1. Kept(c)
      BY <2>2, ActNow DEF Others
    <3>2. QED
      BY <2>2, <3>1 DEF Follow
  <2>3. QED
    BY <2>1, <2>2
<1>2. St' = [c \in Coroutine |-> St'[c]] /\ St = [c \in Coroutine |-> St[c]]
  BY DEF St
<1>3. St' = St
  BY <1>1, <1>2
<1>4. QED
  BY <1>3 DEF Lifecycle!vars, St, Act

\* The C stack grows.
LEMMA Grows ==
  ASSUME IInv, NEW e \in EntryType, cstack' = Append(cstack, e)
  PROVE  /\ Switch(e) => Act' = Append(Act, e.th)
         /\ ~Switch(e) => Act' = Act
<1> DEFINE ds == cstack'
           S  == Switches(cstack, Len(cstack))
           T  == Switches(ds, Len(ds))
<1>1. N \in Nat /\ cstack \in Seq(EntryType) /\ \A i \in 1..N : cstack[i].th \in Thread
  BY Types
<1>2. Len(ds) = N + 1 /\ ds[N + 1] = e /\ \A i \in 1..N : ds[i] = cstack[i]
  BY <1>1, Appended DEF N
<1>3. S \in SUBSET (1..N) /\ \A i \in S : ds[i] = cstack[i] /\ cstack[i].th \in Thread
  BY <1>1, <1>2 DEF Switches, N
<1>4. Act = Actives(cstack) /\ Act' = Actives(ds)
  BY DEF Act
<1>5. T = S \cup IF Switch(e) THEN {N + 1} ELSE {}
  <2>1. \A i \in 1..N + 1 : i \in 1..N \/ i = N + 1
    BY <1>1
  <2>2. \A i : i \in T <=> i \in 1..N + 1 /\ Switch(ds[i])
    BY <1>2 DEF Switches
  <2>3. \A i : i \in S <=> i \in 1..N /\ Switch(cstack[i])
    BY DEF Switches, N
  <2>4. N + 1 \in 1..N + 1 /\ \A i \in 1..N : i \in 1..N + 1
    BY <1>1
  <2> HIDE DEF S, T, ds
  <2>5. \A i : i \in T <=> i \in S \/ (i = N + 1 /\ Switch(e))
    BY <1>2, <2>1, <2>2, <2>3, <2>4
  <2>6. QED
    BY <2>5
<1>6. e.th \in Thread
  BY DEF EntryType
<1> HIDE DEF ds
<1>7. ASSUME Switch(e)
      PROVE  Act' = Append(Act, e.th)
  <2>1. T = S \cup {N + 1} /\ ds[N + 1].th \in Thread
    BY <1>2, <1>5, <1>6, <1>7
  <2>2. Actives(ds) = Append(Actives(cstack), ds[N + 1].th)
    BY <1>1, <1>3, <2>1, ActivesNext
  <2>3. QED
    BY <1>2, <1>4, <2>2
<1>8. ASSUME ~Switch(e)
      PROVE  Act' = Act
  <2>1. T = S
    BY <1>5, <1>8
  <2>2. Actives(ds) = Actives(cstack)
    BY <1>1, <1>3, <2>1, ActivesSame
  <2>3. QED
    BY <1>4, <2>2
<1>9. QED
  BY <1>7, <1>8

LEMMA GrowsActive ==
  ASSUME IInv, NEW e \in EntryType, cstack' = Append(cstack, e)
  PROVE  \A t : Active(t)' <=> Active(t) \/ t = e.th
<1> DEFINE ds == cstack'
<1>1. N \in Nat /\ cstack \in Seq(EntryType)
  BY Types
<1>2. Len(ds) = N + 1 /\ ds[N + 1] = e /\ ds \in Seq(EntryType) /\ \A i \in 1..N : ds[i] = cstack[i]
  BY <1>1, Appended DEF N
<1>3. /\ \A t : Active(t) <=> \E i \in 1..N : cstack[i].th = t
      /\ \A t : Active(t)' <=> \E i \in DOMAIN ds : ds[i].th = t
  BY <1>1 DEF Active, Entries, N
<1>4. DOMAIN ds = 1..N + 1 /\ (\A i \in 1..N + 1 : i \in 1..N \/ i = N + 1)
      /\ N + 1 \in 1..N + 1 /\ \A i \in 1..N : i \in 1..N + 1
  <2> HIDE DEF ds
  <2>1. QED
    BY <1>1, <1>2
<1> HIDE DEF ds
<1>5. QED
  BY <1>2, <1>3, <1>4

\* The C stack is cut.
LEMMA Shrinks ==
  ASSUME IInv, SwitchesOK, NEW k \in 1..N,
         cstack' = SubSeq(cstack, 1, k - 1),
         \A j \in k + 1..N : cstack[j].kind \in {"call", "handler"}
  PROVE  /\ Switch(cstack[k]) => Act # <<>> /\ Act' = Front(Act)
         /\ ~Switch(cstack[k]) => Act' = Act
         /\ \A t : Active(t)' <=> \E i \in 1..k - 1 : cstack[i].th = t
<1> DEFINE ds == cstack'
           h  == k - 1
           S  == Switches(ds, Len(ds))
           T  == Switches(cstack, Len(cstack))
<1>1. N \in Nat /\ cstack \in Seq(EntryType) /\ \A i \in 1..N : cstack[i].th \in Thread
  BY Types
<1>2. h \in Nat /\ h + 1 = k /\ h <= Len(cstack) /\ ds = SubSeq(cstack, 1, h)
  BY <1>1 DEF N
<1> HIDE DEF h
<1>3. ds \in Seq(EntryType) /\ Len(ds) = h /\ \A i \in 1..h : ds[i] = cstack[i] /\ i \in 1..N
  <2> HIDE DEF ds
  <2>1. QED
    BY <1>1, <1>2, Prefix DEF N
<1>4. /\ S \in SUBSET (1..h)
      /\ \A i \in S : cstack[i] = ds[i] /\ ds[i].th \in Thread
  BY <1>1, <1>3 DEF Switches
<1>5. Act = Actives(cstack) /\ Act' = Actives(ds)
  BY DEF Act
<1>6. T = S \cup IF Switch(cstack[k]) THEN {k} ELSE {}
  <2>1. \A i \in 1..N : i \in 1..h \/ i = k \/ i \in k + 1..N
    BY <1>1, <1>2
  <2>2. \A i : i \in S <=> i \in 1..h /\ Switch(ds[i])
    BY <1>3 DEF Switches
  <2>3. \A i : i \in T <=> i \in 1..N /\ Switch(cstack[i])
    BY DEF Switches, N
  <2>4. ASSUME NEW j \in k + 1..N
        PROVE  ~Switch(cstack[j])
    <3>1. j \in 1..N
      BY <1>1
    <3>2. SwitchOK(cstack, j)
      BY <3>1 DEF SwitchesOK, N
    <3>3. cstack[j].kind \in {"call", "handler"}
      OBVIOUS
    <3>4. QED
      BY <3>2, <3>3 DEF SwitchOK, Switch
  <2> HIDE DEF S, T, ds
  <2>5. \A i : i \in T <=> i \in S \/ (i = k /\ Switch(cstack[k]))
    BY <1>3, <2>1, <2>2, <2>3, <2>4
  <2>6. QED
    BY <2>5
<1>7. \A t : Active(t)' <=> \E i \in 1..k - 1 : cstack[i].th = t
  <2>1. \A t : Active(t)' <=> \E i \in DOMAIN ds : ds[i].th = t
    BY DEF Active, Entries
  <2>2. DOMAIN ds = 1..h /\ h = k - 1
    BY <1>3 DEF h
  <2> HIDE DEF ds
  <2>3. QED
    BY <1>3, <2>1, <2>2
<1> HIDE DEF ds
<1>8. ASSUME Switch(cstack[k])
      PROVE  Act # <<>> /\ Act' = Front(Act)
  <2>1. T = S \cup {h + 1} /\ cstack[h + 1].th \in Thread
    BY <1>1, <1>2, <1>6, <1>8
  <2>2. Actives(cstack) # <<>> /\ Actives(ds) = Front(Actives(cstack))
    BY <1>2, <1>4, <2>1, ActivesNext
  <2>3. QED
    BY <1>5, <2>2
<1>9. ASSUME ~Switch(cstack[k])
      PROVE  Act' = Act
  <2>1. T = S
    BY <1>6, <1>9
  <2>2. Actives(cstack) = Actives(ds)
    BY <1>2, <1>4, <2>1, ActivesSame
  <2>3. QED
    BY <1>5, <2>2
<1>10. QED
  BY <1>7, <1>8, <1>9

\* What a running coroutine is when its lua_resume ends.
LEMMA Stopped ==
  ASSUME IInv, IInv', SwitchesOK, SwitchesOK', NEW k \in 1..N, Ends(k),
         Switch(cstack[k]), NEW c \in Coroutine, Act # <<>>, Last(Act) = c
  PROVE  St'[c] \in {"suspended", "dead"}
<1>1. c = L /\ c \in Thread /\ c # Main
  BY ActNow, Statuses DEF Ends
<1>2. cstack[k].th = L
  <2>1. k \in k..N
    BY Types
  <2>2. QED
    BY <2>1 DEF Ends
<1>3. cstack[k].kind = "resume"
  <2>1. SwitchOK(cstack, k)
    BY DEF SwitchesOK, N
  <2>2. QED
    BY <1>1, <1>2, <2>1 DEF SwitchOK, Switch
<1>4. \A i \in 1..k - 1 : cstack[i].th # c
  <2>1. EntryOK(cstack, k)
    BY DEF IInv, EntriesOK, N
  <2>2. QED
    BY <1>1, <1>2, <1>3, <2>1 DEF EntryOK
<1>5. ~Active(c)'
  BY <1>4, Shrinks DEF Ends
<1>6. Idle' \/ c # L'
  BY <1>5, StatusesNext
<1>7. status'[c] \in {"ok", "yield", "error"} /\ (status'[c] # "ok" \/ ci'[c] = <<>>)
  <2>1. status'[L] # "ok" \/ ci'[L] = <<>>
    BY <1>3 DEF Ends
  <2>2. QED
    BY <1>1, <2>1 DEF IInv, TypeOK
<1>8. costatus(c)' \in {"suspended", "dead"}
  BY <1>6, <1>7 DEF costatus
<1>9. QED
  BY <1>8 DEF St

LEMMA LifecycleStep ==
  ASSUME IInv, IInv', SwitchesOK, SwitchesOK', StepOK
  PROVE  [Lifecycle!Next]_(Lifecycle!vars)
<1>0. \A s : Lifecycle!ToSet(s) = ToSet(s) /\ Lifecycle!Last(s) = Last(s) /\ Lifecycle!Front(s) = Front(s)
  BY DEF Lifecycle!ToSet, ToSet, Lifecycle!Last, Last, Lifecycle!Front, Front
<1>1. Follow
  BY Followed
<1>2. /\ \A t : t \in ToSet(Act) <=> Active(t)
      /\ \A t : t \in ToSet(Act') <=> Active(t)'
  BY ActNow, ActNext
<1>3. \A c \in Coroutine : c \in Thread /\ c # Main
  BY Statuses
<1>4. /\ Act = Actives(cstack) /\ Act' = Actives(cstack')
      /\ St = [c \in Coroutine |-> costatus(c)]
  BY DEF Act, St
<1>5. Lifecycle!Follows
  <2>1. \A c \in Coroutine : c \in ToSet(Act') =>
          St'[c] = IF Act' # <<>> /\ Last(Act') = c THEN "running" ELSE "normal"
    BY <1>1 DEF Follow
  <2>2. Lifecycle!ToSet(Act)' = ToSet(Act') /\ Lifecycle!Last(Act)' = Last(Act')
    BY <1>0
  <2>3. QED
    BY <2>1, <2>2 DEF Lifecycle!Follows, Lifecycle!Status, Lifecycle!Running, St, Act
<1>6. ASSUME NEW e, Calls(e)
      PROVE  Lifecycle!Call \/ UNCHANGED Lifecycle!vars
  <2>1. e \in EntryType /\ cstack' = Append(cstack, e) /\ Others({})
        /\ (e.kind # "resume" /\ (e.host => e.th = Main))
    BY <1>6 DEF Calls, CallEntry
  <2>2. CASE Switch(e)
    <3>1. Act' = Append(Act, Main)
      BY <2>1, <2>2, Grows DEF Switch
    <3>2. ASSUME NEW c \in Coroutine \ ToSet(Act')
          PROVE  St'[c] = St[c]
      <4>1. c \notin ToSet(Act)
        BY <2>1, <1>2, <3>2, GrowsActive
      <4>2. Kept(c)
        BY <1>2, <2>1, <4>1 DEF Others
      <4>3. QED
        BY <1>1, <4>1, <4>2 DEF Follow
    <3>3. Lifecycle!Call
      BY <1>0, <1>5, <3>1, <3>2 DEF Lifecycle!Call, Lifecycle!Keeps, St, Act
    <3>4. QED
      BY <3>3
  <2>3. CASE ~Switch(e)
    BY <1>1, <2>1, <2>3, Grows, Stutters
  <2>4. QED
    BY <2>2, <2>3
<1>7. ASSUME NEW c \in Coroutine, NEW e, Resumes(c, e)
      PROVE  Lifecycle!Resume(c)
  <2>1. /\ e \in EntryType /\ e.th = c /\ Switch(e) /\ cstack' = Append(cstack, e) /\ Others({c})
        /\ ~Active(c) /\ (St[c] = "suspended" \/ (c \in Hosted /\ St[c] = "dead"))
    BY <1>4, <1>7 DEF Resumes, Switch
  <2>2. Act' = Append(Act, c)
    BY <2>1, Grows
  <2>3. ASSUME NEW d \in Coroutine \ ToSet(Act')
        PROVE  St'[d] = St[d]
    <3>1. d \notin ToSet(Act) /\ d # c
      BY <1>2, <2>1, GrowsActive
    <3>2. Kept(d)
      BY <1>2, <2>1, <3>1 DEF Others
    <3>3. QED
      BY <1>1, <3>1, <3>2 DEF Follow
  <2>4. c \notin ToSet(Act)
    BY <1>2, <2>1
  <2>5. QED
    BY <1>0, <1>5, <2>1, <2>2, <2>3, <2>4 DEF Lifecycle!Resume, Lifecycle!Keeps, St, Act
<1>8. ASSUME NEW k \in 1..N, Ends(k)
      PROVE  Lifecycle!Stop \/ UNCHANGED Lifecycle!vars
  <2>1. /\ Others({}) /\ cstack' = SubSeq(cstack, 1, k - 1)
        /\ \A j \in k + 1..N : cstack[j].kind \in {"call", "handler"}
    BY <1>8 DEF Ends
  <2>2. CASE Switch(cstack[k])
    <3>1. Act # <<>> /\ Act' = Front(Act)
      BY <2>1, <2>2, Shrinks
    <3>2. ASSUME NEW c \in Coroutine \ ToSet(Act)
          PROVE  St'[c] = St[c]
      <4>1. ~Active(c) /\ ~Active(c)'
        <5>1. ~Active(c)
          BY <1>2, <3>2
        <5>2. Active(c)' => \E i \in 1..k - 1 : cstack[i].th = c
          BY <2>1, Shrinks
        <5>3. (\E i \in 1..k - 1 : cstack[i].th = c) => Active(c)
          BY Types DEF Active, Entries, N
        <5>4. QED
          BY <5>1, <5>2, <5>3
      <4>2. Kept(c)
        BY <2>1, <4>1 DEF Others
      <4>3. QED
        BY <1>1, <1>2, <4>1, <4>2 DEF Follow
    <3>3. \A c \in Coroutine : Act # <<>> /\ Last(Act) = c => St'[c] \in {"suspended", "dead"}
      BY <1>8, <2>2, Stopped
    <3>4. Lifecycle!Stop
      BY <1>0, <1>5, <3>1, <3>2, <3>3 DEF Lifecycle!Stop, Lifecycle!Running, Lifecycle!Keeps, St, Act
    <3>5. QED
      BY <3>4
  <2>3. CASE ~Switch(cstack[k])
    BY <1>1, <2>1, <2>3, Shrinks, Stutters
  <2>4. QED
    BY <2>2, <2>3
<1>9. ASSUME NEW c \in Coroutine, Refuses(c)
      PROVE  Lifecycle!Refuse(c) \/ UNCHANGED Lifecycle!vars
  <2>1. St[c] = "suspended" /\ ~Active(c) /\ cstack' = cstack /\ Others({c})
    BY <1>4, <1>9 DEF Refuses
  <2>2. Act' = Act
    BY <2>1 DEF Act
  <2>3. CASE status[c] = "yield"
    <3>1. Kept(c)
      BY <1>9, <2>3 DEF Refuses
    <3>2. Others({})
      BY <2>1, <3>1 DEF Others
    <3>3. QED
      BY <1>1, <2>2, <3>2, Stutters
  <2>4. CASE status[c] # "yield"
    <3>1. status'[c] = "error" \/ (status'[c] = "ok" /\ ci'[c] = <<>> /\ ~top'[c])
      BY <1>9, <2>4 DEF Refuses
    <3>2. Idle' \/ c # L'
      BY <1>2, <2>1, <2>2, StatusesNext
    <3>3. costatus(c)' = "dead"
      BY <3>1, <3>2 DEF costatus
    <3>4. St'[c] = "dead"
      BY <3>3 DEF St
    <3>5. ASSUME NEW d \in Coroutine \ {c}
          PROVE  St'[d] = St[d]
      <4>1. CASE d \in ToSet(Act)
        BY <1>1, <2>2, <4>1 DEF Follow
      <4>2. CASE d \notin ToSet(Act)
        <5>1. Kept(d)
          BY <1>2, <2>1, <4>2 DEF Others
        <5>2. QED
          BY <1>1, <2>2, <4>2, <5>1 DEF Follow
      <4>3. QED
        BY <4>1, <4>2
    <3>6. Lifecycle!Refuse(c)
      BY <2>1, <2>2, <3>4, <3>5 DEF Lifecycle!Refuse, Lifecycle!Keeps, St, Act
    <3>7. QED
      BY <3>6
  <2>5. QED
    BY <2>3, <2>4
<1>10. CASE Stays
  <2>1. Act' = Act /\ Others({})
    BY <1>10 DEF Act, Stays
  <2>2. QED
    BY <1>1, <2>1, Stutters
<1>11. ASSUME NEW c \in Coroutine, Told(c)
       PROVE  Lifecycle!Refuse(c) \/ UNCHANGED Lifecycle!vars
  <2>1. c \in Hosted /\ ~Active(c) /\ cstack' = cstack /\ Others({c})
    BY <1>11 DEF Told
  <2>2. Act' = Act
    BY <2>1 DEF Act
  <2>3. (Idle \/ c # L) /\ (Idle' \/ c # L')
    BY <1>2, <2>1, <2>2, Statuses, StatusesNext
  <2>4. status[c] \in {"ok", "error"} /\ status'[c] = status[c]
        /\ ci[c] = <<>> /\ ci'[c] = <<>> /\ top'[c]
    BY <1>3, <1>11 DEF Told, IInv, TypeOK
  <2>5. ASSUME NEW d \in Coroutine \ {c}
        PROVE  St'[d] = St[d]
    <3>1. CASE d \in ToSet(Act)
      BY <1>1, <2>2, <3>1 DEF Follow
    <3>2. CASE d \notin ToSet(Act)
      <4>1. Kept(d)
        BY <1>2, <2>1, <3>2 DEF Others
      <4>2. QED
        BY <1>1, <2>2, <3>2, <4>1 DEF Follow
    <3>3. QED
      BY <3>1, <3>2
  <2>6. \/ costatus(c)' = costatus(c)
        \/ costatus(c) = "dead" /\ costatus(c)' = "suspended"
    BY <2>3, <2>4 DEF costatus
  <2>7. St'[c] = St[c] \/ (St[c] = "dead" /\ St'[c] = "suspended")
    BY <2>6 DEF St
  <2>8. CASE St'[c] = St[c]
    <3>1. \A d \in Coroutine : St'[d] = St[d]
      BY <2>5, <2>8
    <3>2. St' = [d \in Coroutine |-> St'[d]] /\ St = [d \in Coroutine |-> St[d]]
      BY DEF St
    <3>3. St' = St
      BY <3>1, <3>2
    <3>4. QED
      BY <2>2, <3>3 DEF Lifecycle!vars, St, Act
  <2>9. CASE St[c] = "dead" /\ St'[c] = "suspended"
    <3>1. Lifecycle!Refuse(c)
      BY <2>1, <2>2, <2>5, <2>9 DEF Lifecycle!Refuse, Lifecycle!Keeps, St, Act
    <3>2. QED
      BY <3>1
  <2>10. QED
    BY <2>7, <2>8, <2>9
<1>12. QED
  BY <1>6, <1>7, <1>8, <1>9, <1>10, <1>11 DEF StepOK, Lifecycle!Next

\* At first no coroutine is active.
LEMMA LifecycleInit ==
  ASSUME Init
  PROVE  Lifecycle!Init /\ SwitchesOK
<1>1. cstack = <<>> /\ status = [th \in Thread |-> "ok"] /\ ci = [th \in Thread |-> <<>>]
  BY DEF Init
<1>2. Switches(cstack, Len(cstack)) = {}
  BY <1>1 DEF Switches
<1>3. Cardinality(Switches(cstack, Len(cstack))) = 0
  BY <1>2, FS_EmptySet
<1>4. Actives(cstack) = <<>>
  BY <1>3 DEF Actives
<1>5. ASSUME NEW c \in Coroutine
      PROVE  costatus(c) \in {"suspended", "dead"}
  <2>1. c \in Thread
    BY DEF Thread
  <2>2. QED
    BY <1>1, <2>1 DEF costatus, Idle
<1>6. SwitchesOK
  BY <1>1 DEF SwitchesOK
<1>7. QED
  BY <1>4, <1>5, <1>6 DEF Lifecycle!Init

\* coroutine.status tells of every coroutine what Coroutines says, whatever
\* threads resume, end or fail.
THEOREM LifecycleImplemented ==
  ASSUME CallsOn \subseteq {Main} PROVE Spec => ImplementsLifecycle
<1>1. Init => IInv /\ SwitchesOK /\ Lifecycle!Init
  BY Init_IInv, LifecycleInit
<1>2. IInv /\ SwitchesOK /\ [Next]_vars => (IInv /\ SwitchesOK)' /\ [Lifecycle!Next]_(Lifecycle!vars)
  <2> SUFFICES ASSUME IInv, SwitchesOK, [Next]_vars
               PROVE  (IInv /\ SwitchesOK)' /\ [Lifecycle!Next]_(Lifecycle!vars)
    OBVIOUS
  <2>1. IInv' /\ StepOK
    BY Next_IInv, Next_StepOK
  <2>2. SwitchesOK'
    BY <2>1, SwitchesStep
  <2>3. QED
    BY <2>1, <2>2, LifecycleStep
<1>3. QED
  BY <1>1, <1>2, PTL DEF Spec, ImplementsLifecycle, Lifecycle!Spec
=============================================================================

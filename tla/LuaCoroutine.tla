---------------------------- MODULE LuaCoroutine ----------------------------
(***************************************************************************)
(* Calls, protected calls and coroutines: ldo.c with the coroutine library *)
(* of lbaselib.c, and the LuaThread of Lua.cs, by which the host runs      *)
(* coroutines of its own.                                                  *)
(*                                                                         *)
(* A thread has a stack of CallInfos, ci; but all threads share one C      *)
(* stack, of the luaD_call's, luaD_pcall's and lua_resume's in progress.   *)
(* Calls from Lua to Lua, or to a C function, add a CallInfo only.  The    *)
(* code that runs is the last function of the last entry's thread.  What   *)
(* the functions compute is left out: at any time they call, yield, raise  *)
(* or return.  Hooks and values are left out too.                          *)
(***************************************************************************)
EXTENDS Integers, Sequences, FiniteSets, SequencesExt, FiniteSetsExt

CONSTANTS
  Coroutine,     \* the threads but the main one
  Hosted,        \* ... that are LuaThreads
  Main,
  CallsOn,       \* the threads that the host calls functions on
  LUAI_MAXCCALLS,
  Spare,         \* LUAI_MAXCCALLS >> 3, the room for error handlers
  MaxFrames      \* the bound: of the functions in progress in every thread

Thread == Coroutine \cup {Main}

ASSUME ThreadAssumption ==
  /\ Main \notin Coroutine /\ Hosted \subseteq Coroutine
  /\ CallsOn \subseteq Hosted \cup {Main}
ASSUME LimitAssumption ==
  LUAI_MAXCCALLS \in Nat \ {0} /\ Spare \in Nat \ {0} /\ MaxFrames \in [Thread -> Nat \ {0}]

VARIABLES
  ci,          \* the functions in progress of every thread: "lua" or "C"
  status,      \* "ok" (0), "yield" or "error"
  top,         \* are there values on the stack of a thread that has no frames?
  nCcalls, baseCcalls,
  errfunc,     \* has the thread an error handler?
  start,       \* LuaThread.start
  cstack,      \* the calls in progress on the C stack
  err          \* an error underway: "none", "run" (may go to a handler) or "throw";
               \* "lost" when the program does what C leaves undefined

vars == <<ci, status, top, nCcalls, baseCcalls, errfunc, start, cstack, err>>

-----------------------------------------------------------------------------
Idle == cstack = <<>>      \* only the host is running
L == Last(cstack).th

Running(f) == ~Idle /\ err = "none" /\ Last(ci[L]) = f

\* The host may act between its calls, and in the C# functions that Lua calls.
HostActs == (Idle /\ err = "none") \/ Running("C")

HasRoom(th) == Len(ci[th]) < MaxFrames[th]

\* An entry of the C stack remembers what luaD_pcall does: ci, nCcalls, errfunc.
Entry(kind, th, host) ==
  [kind |-> kind, th |-> th, ci |-> Len(ci[th]), nCcalls |-> nCcalls[th],
   errfunc |-> errfunc[th], host |-> host]

\* luaD_call of a function f.
luaD_call(entry, f) ==
  LET th == entry.th
      n  == nCcalls[th] + 1
      overflow == n = LUAI_MAXCCALLS                       \* an error in the caller
      hopeless == ~overflow /\ n >= LUAI_MAXCCALLS + Spare \* "error while handling stack error"
  IN  /\ nCcalls' = [nCcalls EXCEPT ![th] = n]
      /\ cstack' = Append(cstack, entry)
      /\ err' = IF overflow THEN "run" ELSE IF hopeless THEN "throw" ELSE "none"
      /\ ci' = IF overflow \/ hopeless THEN ci ELSE [ci EXCEPT ![th] = Append(@, f)]

\* What the last luaD_call, luaD_pcall or lua_resume does in the end.
Leave ==
  LET entry == Last(cstack) IN
  /\ cstack' = Front(cstack)
  /\ nCcalls' = [nCcalls EXCEPT ![L] = @ - 1]
  /\ err' = IF entry.kind = "handler" THEN "throw" ELSE "none"
  /\ errfunc' = IF entry.kind = "pcall" THEN [errfunc EXCEPT ![L] = entry.errfunc] ELSE errfunc

-----------------------------------------------------------------------------
(* Calls.                                                                  *)

\* OP_CALL: luaD_precall without luaD_call.
Call(f) ==
  /\ Running("lua") /\ HasRoom(L)
  /\ ci' = [ci EXCEPT ![L] = Append(@, f)]
  /\ UNCHANGED <<status, top, nCcalls, baseCcalls, errfunc, start, cstack, err>>

\* lua_call in a C function, or a metamethod of a Lua one.
NestedCall(f) ==
  /\ Running("C") \/ Running("lua")
  /\ HasRoom(L)
  /\ luaD_call(Entry("call", L, FALSE), f)
  /\ UNCHANGED <<status, top, baseCcalls, errfunc, start>>

\* pcall and xpcall.
Pcall(f, handler) ==
  /\ Running("C") /\ HasRoom(L)
  /\ luaD_call(Entry("pcall", L, FALSE), f)
  /\ errfunc' = [errfunc EXCEPT ![L] = handler]
  /\ UNCHANGED <<status, top, baseCcalls, start>>

\* callFunction: the host, or a C# function that Lua called, calls a function
\* on the thread of the LuaFunction's interpreter, whichever is running.
callFunction(th, f) ==
  /\ HostActs
  /\ HasRoom(th)
  /\ luaD_call(Entry("pcall", th, TRUE), f)
  /\ errfunc' = [errfunc EXCEPT ![th] = FALSE]
  /\ UNCHANGED <<status, top, baseCcalls, start>>

\* luaD_poscall, and what its caller does if it was the first function of a
\* call on the C stack.  What a coroutine has on its stack then is moved off it
\* by auxresume; LuaThread leaves it there.
Return ==
  /\ Running("lua") \/ Running("C")
  /\ ci' = [ci EXCEPT ![L] = Front(@)]
  /\ LET entry == Last(cstack) IN
     IF Len(ci[L]) - 1 > entry.ci
     THEN UNCHANGED <<top, nCcalls, errfunc, cstack, err>>
     ELSE /\ Leave
          /\ IF entry.kind = "resume" /\ entry.host
             THEN \E results \in BOOLEAN : top' = [top EXCEPT ![L] = @ \/ results]
             ELSE IF entry.kind = "resume" THEN top' = [top EXCEPT ![L] = FALSE]
             ELSE UNCHANGED top
  /\ UNCHANGED <<status, baseCcalls, start>>

-----------------------------------------------------------------------------
(* Errors.                                                                 *)

Raise ==
  /\ Running("lua") \/ Running("C")
  /\ err' = "run"
  /\ UNCHANGED <<ci, status, top, nCcalls, baseCcalls, errfunc, start, cstack>>

\* luaG_errormsg calls the handler, in which errors go to the handler again.
Handle ==
  /\ err = "run" /\ errfunc[L]
  /\ luaD_call(Entry("handler", L, FALSE), "lua")
  /\ UNCHANGED <<status, top, baseCcalls, errfunc, start>>

\* Mutant: luaD_pcall does not restore nCcalls.
Unwind_KeepsLevel ==
  /\ err = "throw" \/ (err = "run" /\ ~errfunc[L])
  /\ LET k == Max({i \in DOMAIN cstack : cstack[i].kind \in {"pcall", "resume"}})
         entry == cstack[k]
     IN  /\ cstack' = SubSeq(cstack, 1, k - 1)
         /\ IF entry.kind = "pcall"
            THEN /\ ci' = [ci EXCEPT ![L] = SubSeq(@, 1, entry.ci)]
                 /\ nCcalls' = nCcalls
                 /\ errfunc' = [errfunc EXCEPT ![L] = entry.errfunc]
                 /\ UNCHANGED status
            ELSE /\ status' = [status EXCEPT ![L] = "error"]
                 /\ nCcalls' = [nCcalls EXCEPT ![L] = @ - 1]
                 /\ UNCHANGED <<ci, errfunc>>
  /\ err' = "none"
  /\ UNCHANGED <<top, baseCcalls, start>>

\* luaD_throw: back to the last luaD_pcall or lua_resume, which are the ones
\* that set errorJmp.  A coroutine is dead then, and keeps its frames.
Unwind ==
  /\ err = "throw" \/ (err = "run" /\ ~errfunc[L])
  /\ LET k == Max({i \in DOMAIN cstack : cstack[i].kind \in {"pcall", "resume"}})
         entry == cstack[k]
     IN  /\ cstack' = SubSeq(cstack, 1, k - 1)
         /\ IF entry.kind = "pcall"
            THEN /\ ci' = [ci EXCEPT ![L] = SubSeq(@, 1, entry.ci)]
                 /\ nCcalls' = [nCcalls EXCEPT ![L] = entry.nCcalls]
                 /\ errfunc' = [errfunc EXCEPT ![L] = entry.errfunc]
                 /\ UNCHANGED status
            ELSE /\ status' = [status EXCEPT ![L] = "error"]
                 /\ nCcalls' = [nCcalls EXCEPT ![L] = @ - 1]
                 /\ UNCHANGED <<ci, errfunc>>
  /\ err' = "none"
  /\ UNCHANGED <<top, baseCcalls, start>>

-----------------------------------------------------------------------------
(* Coroutines.                                                             *)

\* Mutant: a coroutine may yield whatever is on the C stack.
Yield_Anywhere ==
  /\ Running("C")
  /\ IF L = Main
     THEN /\ err' = "run"
          /\ UNCHANGED <<status, nCcalls, errfunc, cstack>>
     ELSE /\ status' = [status EXCEPT ![L] = "yield"]
          /\ Leave
  /\ UNCHANGED <<ci, top, baseCcalls, start>>

\* Mutant: ... over one call.
Yield_OneDeep ==
  /\ Running("C")
  /\ IF nCcalls[L] > baseCcalls[L] + 1
     THEN /\ err' = "run"
          /\ UNCHANGED <<status, nCcalls, errfunc, cstack>>
     ELSE /\ status' = [status EXCEPT ![L] = "yield"]
          /\ Leave
  /\ UNCHANGED <<ci, top, baseCcalls, start>>

\* luaB_yield: lua_yield, after which luaV_execute returns to what called it,
\* and leaves the CallInfo of the C function for lua_resume.
Yield ==
  /\ Running("C")
  /\ IF nCcalls[L] > baseCcalls[L]      \* "attempt to yield across metamethod/C-call boundary"
     THEN /\ err' = "run"
          /\ UNCHANGED <<status, nCcalls, errfunc, cstack>>
     ELSE /\ status' = [status EXCEPT ![L] = "yield"]
          /\ Leave
  /\ UNCHANGED <<ci, top, baseCcalls, start>>

\* A coroutine that yielded in its own function, which no Lua function called.
Astray(c) == status[c] = "yield" /\ Len(ci[c]) = 1

\* lua_resume of a coroutine whose nCcalls is n.  A new one calls f, a Lua or a C
\* function, or fails as f is none.  One that yielded goes on in the Lua function
\* that called the C function; when there is none, the assertion about its OP_CALL
\* (ldo.c:397) fails and luaV_execute runs without a function.
lua_resume(c, n, f, host) ==
  \/ /\ Astray(c)
     /\ err' = "lost"
     /\ UNCHANGED <<ci, status, nCcalls, baseCcalls, errfunc, cstack>>
  \/ /\ status[c] # "yield" /\ f = "value"
     /\ status' = [status EXCEPT ![c] = "error"]
     /\ baseCcalls' = [baseCcalls EXCEPT ![c] = n + 1]
     /\ nCcalls' = [nCcalls EXCEPT ![c] = n]
     /\ UNCHANGED <<ci, errfunc, cstack, err>>
  \/ /\ ~Astray(c) /\ (status[c] = "yield" \/ f # "value")
     /\ baseCcalls' = [baseCcalls EXCEPT ![c] = n + 1]
     /\ nCcalls' = [nCcalls EXCEPT ![c] = n + 1]
     /\ cstack' = Append(cstack, [Entry("resume", c, host) EXCEPT !.ci = 0])
     /\ status' = [status EXCEPT ![c] = "ok"]
     /\ ci' = [ci EXCEPT ![c] = IF status[c] = "yield" THEN Front(@) ELSE <<f>>]
     /\ UNCHANGED <<errfunc, err>>

\* coroutine.status
costatus(c) ==
  IF ~Idle /\ c = L THEN "running"
  ELSE IF status[c] = "yield" THEN "suspended"
  ELSE IF status[c] = "error" THEN "dead"
  ELSE IF ci[c] # <<>> THEN "normal"
  ELSE IF top[c] THEN "suspended" ELSE "dead"

Resumable(c) == Running("C") /\ costatus(c) = "suspended"

\* What coroutine.resume calls: luaB_cocreate takes Lua functions only, but of a
\* LuaThread it is anything that the last run left, and there may be more of it.
Bodies(c)  == IF c \in Hosted THEN {"lua", "C", "value"} ELSE {"lua"}
Remains(c) == IF c \in Hosted THEN BOOLEAN ELSE {FALSE}

\* Mutant: no lua_setlevel.
Resume_OwnLevel(c) ==
  /\ Resumable(c)
  /\ nCcalls[c] < LUAI_MAXCCALLS
  /\ \E f \in Bodies(c) : lua_resume(c, nCcalls[c], f, FALSE)
  /\ \E more \in Remains(c) : top' = [top EXCEPT ![c] = @ /\ (status[c] = "yield" \/ more)]
  /\ UNCHANGED start

\* coroutine.resume; lua_setlevel makes the coroutine count on from nCcalls[L].
Resume(c) ==
  /\ Resumable(c)
  /\ nCcalls[L] < LUAI_MAXCCALLS
  /\ \E f \in Bodies(c) : lua_resume(c, nCcalls[L], f, FALSE)
  /\ \E more \in Remains(c) : top' = [top EXCEPT ![c] = @ /\ (status[c] = "yield" \/ more)]
  /\ UNCHANGED start

\* "C stack overflow": resume_error puts the message in the place of the
\* function of a coroutine that has not started.
ResumeError(c) ==
  /\ Resumable(c)
  /\ nCcalls[L] >= LUAI_MAXCCALLS
  /\ nCcalls' = [nCcalls EXCEPT ![c] = nCcalls[L]]
  /\ top' = [top EXCEPT ![c] = @ /\ ci[c] # <<>>]
  /\ UNCHANGED <<ci, status, baseCcalls, errfunc, start, cstack, err>>

\* LuaThread.Start: IsInactive says no more than that the status is 0.
Start(c) ==
  /\ HostActs
  /\ status[c] = "ok" /\ ~start[c]
  /\ start' = [start EXCEPT ![c] = TRUE]
  /\ UNCHANGED <<ci, status, top, nCcalls, baseCcalls, errfunc, cstack, err>>

\* Mutant: lua_resume takes a thread that is active.
ThreadResume_Unchecked(c) ==
  /\ HostActs
  /\ start[c] \/ status[c] = "yield"
  /\ start' = [start EXCEPT ![c] = FALSE]
  /\ IF status[c] # "error" /\ nCcalls[c] < LUAI_MAXCCALLS
     THEN (\E f \in {"lua", "C"} : lua_resume(c, nCcalls[c], f, TRUE)) /\ UNCHANGED top
     ELSE /\ top' = [top EXCEPT ![c] = @ \/ ci[c] = <<>>]
          /\ UNCHANGED <<ci, status, nCcalls, baseCcalls, errfunc, cstack, err>>

\* LuaThread.Resume, of a Lua function or a C function.  lua_resume refuses a
\* thread that is active or dead, and its message stays (Lua.cs:895, 113).
ThreadResume(c) ==
  /\ HostActs
  /\ start[c] \/ status[c] = "yield"
  /\ start' = [start EXCEPT ![c] = FALSE]
  /\ IF (status[c] = "yield" \/ (status[c] = "ok" /\ ci[c] = <<>>)) /\ nCcalls[c] < LUAI_MAXCCALLS
     THEN (\E f \in {"lua", "C"} : lua_resume(c, nCcalls[c], f, TRUE)) /\ UNCHANGED top
     ELSE /\ top' = [top EXCEPT ![c] = @ \/ ci[c] = <<>>]
          /\ UNCHANGED <<ci, status, nCcalls, baseCcalls, errfunc, cstack, err>>

\* From there on nothing is known.
Lost == err = "lost" /\ UNCHANGED vars

Init ==
  /\ ci = [th \in Thread |-> <<>>]
  /\ status = [th \in Thread |-> "ok"]
  /\ top = [th \in Thread |-> th \in Coroutine \ Hosted]   \* coroutine.create put a function there
  /\ nCcalls = [th \in Thread |-> 0] /\ baseCcalls = [th \in Thread |-> 0]
  /\ errfunc = [th \in Thread |-> FALSE]
  /\ start = [c \in Hosted |-> FALSE]
  /\ cstack = <<>>
  /\ err = "none"

Next ==
  \/ \E f \in {"lua", "C"} :
       \/ Call(f) \/ NestedCall(f)
       \/ \E handler \in BOOLEAN : Pcall(f, handler)
       \/ \E th \in CallsOn : callFunction(th, f)
  \/ Return \/ Raise \/ Handle \/ Unwind \/ Yield
  \/ \E c \in Coroutine : Resume(c) \/ ResumeError(c)
  \/ \E c \in Hosted : Start(c) \/ ThreadResume(c)
  \/ Lost

Spec == Init /\ [][Next]_vars

-----------------------------------------------------------------------------
(* Properties.                                                             *)

EntryType ==
  [kind : {"call", "pcall", "handler", "resume"}, th : Thread, ci : Nat, nCcalls : Nat,
   errfunc : BOOLEAN, host : BOOLEAN]

\* The types; and code that runs is a function of the thread of the last entry.
TypeOK ==
  /\ ci \in [Thread -> Seq({"lua", "C"})]
  /\ status \in [Thread -> {"ok", "yield", "error"}]
  /\ top \in [Thread -> BOOLEAN] /\ errfunc \in [Thread -> BOOLEAN]
  /\ nCcalls \in [Thread -> Nat] /\ baseCcalls \in [Thread -> Nat]
  /\ start \in [Hosted -> BOOLEAN]
  /\ cstack \in Seq(EntryType)
  /\ err \in {"none", "run", "throw", "lost"}
  /\ Idle => err \in {"none", "lost"}
  /\ ~Idle /\ err = "none" => Len(ci[L]) > Last(cstack).ci

Entries(th) == {i \in DOMAIN cstack : cstack[i].th = th}
Active(th)  == Entries(th) # {}

\* nCcalls counts the calls of a thread that are on the C stack, from
\* baseCcalls on: "lua_assert(L->nCcalls == L->baseCcalls)" at the end of
\* lua_resume (ldo.c:435), whatever errors unwound in between; and the code that
\* runs goes by the stack that TypeOK says.
Counted ==
  /\ TypeOK
  /\ \A th \in Thread : Active(th) =>
       nCcalls[th] = baseCcalls[th]
                       + Cardinality({i \in Entries(th) : cstack[i].kind # "resume"})

\* LUAI_MAXCCALLS "is the maximum depth for nested C calls" (luaconf.h:465) over
\* all the coroutines that resume each other, but for the error handlers; every
\* call by the host counts anew.
CStackBounded ==
  \A i \in DOMAIN cstack :
    (\A j \in i + 1..Len(cstack) : ~cstack[j].host)
      => Len(cstack) - i + 1 <= LUAI_MAXCCALLS + Spare

\* A coroutine that yielded has left nothing on the C stack, no error handler, as
\* lua_resume asserts (ldo.c:426), and no C function but the one that yielded,
\* which a Lua function called or, in a LuaThread, lua_resume itself.
YieldClean ==
  \A c \in Thread : status[c] = "yield" =>
    /\ ~Active(c) /\ ~errfunc[c]
    /\ ci[c] # <<>> /\ Last(ci[c]) = "C"
    /\ IF Len(ci[c]) = 1 THEN c \in Hosted ELSE ci[c][Len(ci[c]) - 1] = "lua"

\* "lua_assert(GET_OPCODE(*((ci-1)->savedpc - 1)) == OP_CALL || ...)": what a
\* resume goes back to is a call in a Lua function (ldo.c:396-398).
ResumesCall == err # "lost"

\* A yield returns from the lua_resume that started the coroutine
\* (manual.html:4276-4279), and from nothing else.
YieldReturns ==
  [][\A c \in Thread : status[c] # "yield" /\ status'[c] = "yield" =>
       Last(cstack).kind = "resume" /\ Last(cstack).th = c]_vars

\* The entries by which a thread becomes the one that runs, of the first k.
Switch(e) == e.host \/ e.kind = "resume"
Switches(cs, k) == {i \in 1..k : Switch(cs[i])}

\* The n-th of some numbers, and the threads that the entries made run, in order.
Rank(S, i) == Cardinality({j \in S : j <= i})
Nth(S, n)  == CHOOSE i \in S : Rank(S, i) = n
Actives(cs) ==
  LET S == Switches(cs, Len(cs)) IN [n \in 1..Cardinality(S) |-> cs[Nth(S, n)].th]

\* coroutine.status, which goes by status, frames and stack, tells of every
\* coroutine what Coroutines says of it.
Lifecycle == INSTANCE Coroutines WITH
  active <- Actives(cstack),
  state <- [c \in Coroutine |-> costatus(c)]
ImplementsLifecycle == Lifecycle!Spec
-----------------------------------------------------------------------------
(* The inductive invariant, if the host calls functions on the main thread *)
(* only.                                                                   *)

\* The calls, and the protected ones, of a thread among the first k entries.
Nested(cs, th, k) == {i \in 1..k : cs[i].th = th /\ cs[i].kind # "resume"}
Pcalls(cs, th, k) == {i \in 1..k : cs[i].th = th /\ cs[i].kind = "pcall"}

\* The first entry of a coroutine is the lua_resume that runs it, and no other is;
\* below every call, on its own thread, is what catches its errors.
EntryOK(cs, i) ==
  /\ cs[i].kind = "resume" <=> cs[i].th # Main /\ \A j \in 1..i - 1 : cs[j].th # cs[i].th
  /\ \E k \in 1..i :
       /\ cs[k].kind \in {"pcall", "resume"}
       /\ \A j \in k..i : cs[j].th = cs[i].th
       /\ \A j \in k + 1..i : cs[j].kind \in {"call", "handler"}
EntriesOK == \A i \in 1..Len(cstack) : EntryOK(cstack, i)

\* nCcalls, and what luaD_pcall remembers of it.
LevelsOK ==
  /\ \A i \in 1..Len(cstack) : cstack[i].kind # "resume" =>
       cstack[i].nCcalls =
         baseCcalls[cstack[i].th] + Cardinality(Nested(cstack, cstack[i].th, i - 1))
  /\ \A th \in Thread : Active(th) \/ th = Main =>
       nCcalls[th] = baseCcalls[th] + Cardinality(Nested(cstack, th, Len(cstack)))
  /\ baseCcalls[Main] = 0

\* The functions of an entry are above those of the entries before, and there are
\* some, except when a handler was called because there was no room for one.
HeightsOK ==
  /\ \A i \in 1..Len(cstack) :
       /\ cstack[i].ci <= Len(ci[cstack[i].th])
       /\ cstack[i].kind # "resume" /\ cstack[i].th # Main => cstack[i].ci >= 1
       /\ \A j \in i + 1..Len(cstack) : cstack[j].th = cstack[i].th => cstack[i].ci <= cstack[j].ci
  /\ \A i \in 1..Len(cstack) - 1 : cstack[i + 1].kind # "handler" =>
       /\ cstack[i].ci < Len(ci[cstack[i].th])
       /\ \A j \in i + 1..Len(cstack) : cstack[j].th = cstack[i].th => cstack[i].ci < cstack[j].ci

\* A thread has an error handler only inside of a call that set it.
HandlersOK ==
  /\ \A i \in 1..Len(cstack) :
       cstack[i].kind # "resume" /\ cstack[i].errfunc => Pcalls(cstack, cstack[i].th, i - 1) # {}
  /\ \A th \in Thread : status[th] # "error" /\ errfunc[th] => Pcalls(cstack, th, Len(cstack)) # {}

ThreadsOK ==
  /\ status[Main] = "ok"
  /\ \A th \in Thread : Active(th) => status[th] = "ok" /\ (th # Main => ci[th] # <<>>)

\* A C function of a coroutine was called by a Lua function, or by the C stack, or
\* is the one of a LuaThread.
FramesOK ==
  \A th \in Coroutine : Active(th) \/ status[th] = "yield" =>
    \A i \in 1..Len(ci[th]) : ci[th][i] = "C" =>
      \/ i > 1 /\ ci[th][i - 1] = "lua"
      \/ i = 1 /\ th \in Hosted
      \/ \E j \in Nested(cstack, th, Len(cstack)) : cstack[j].ci = i - 1

\* How deep the C stack was after an entry, as its thread counts.
Level(i) ==
  IF cstack[i].kind = "resume" THEN baseCcalls[cstack[i].th] ELSE cstack[i].nCcalls + 1

DepthOK ==
  /\ \A i \in 1..Len(cstack) :
       /\ Level(i) <= LUAI_MAXCCALLS + Spare
       /\ i < Len(cstack) \/ err # "throw" => Level(i) < LUAI_MAXCCALLS + Spare
       /\ \A j \in i..Len(cstack) :
            (\A h \in i + 1..j : ~cstack[h].host) => j - i + 1 <= Level(j)
  /\ nCcalls[Main] < LUAI_MAXCCALLS + Spare \/ (err = "throw" /\ L = Main)

IInv ==
  /\ TypeOK /\ EntriesOK /\ LevelsOK /\ HeightsOK /\ HandlersOK
  /\ ThreadsOK /\ FramesOK /\ DepthOK /\ YieldClean

\* For Lifecycle: what an entry of the host's is, that a coroutine has no frames
\* where its lua_resume ends, and which entry made the thread of an entry run.
SwitchOK(cs, i) ==
  /\ cs[i].host => cs[i].kind = "resume" \/ (cs[i].kind = "pcall" /\ cs[i].th = Main)
  /\ cs[i].kind = "resume" => cs[i].ci = 0
  /\ \E k \in 1..i :
       /\ Switch(cs[k])
       /\ \A j \in k..i : cs[j].th = cs[i].th
       /\ \A j \in k + 1..i : ~Switch(cs[j])
SwitchesOK == \A i \in 1..Len(cstack) : SwitchOK(cstack, i)
=============================================================================

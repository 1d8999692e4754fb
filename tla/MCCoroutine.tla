----------------------------- MODULE MCCoroutine -----------------------------
(* A coroutine of the program's, a LuaThread and the main thread; of the    *)
(* functions in progress, the coroutine has room for one that yields inside *)
(* a pcall, and the others for one that resumes; there are five in all.     *)
EXTENDS LuaCoroutine

CONSTANTS a, b, m

Frames == [th \in Thread |-> IF th = a THEN 3 ELSE 2]

InAll == MapThenSumSet(LAMBDA th : Len(ci[th]), Thread) <= 5
=============================================================================

--------------------------- MODULE LuaStringTable ---------------------------
(***************************************************************************)
(* The string table (lstring.c) and what the collector does to it (lgc.c): *)
(* a hash table of chains in which a string is looked for before it is     *)
(* made, which doubles when it is full and halves at the end of a sweep.   *)
(* The collector sweeps it chain by chain between steps of the program.    *)
(*                                                                         *)
(* Marking is left out but for its result: at the atomic step all that the *)
(* program holds is black, and no other string (LuaGC).                    *)
(***************************************************************************)
EXTENDS Integers, Sequences, FiniteSets, SequencesExt

CONSTANTS
  String,
  Hash,             \* of each string
  MINSTRTABSIZE     \* a power of two, of which only this matters here:

ASSUME StringAssumption == Hash \in [String -> Nat] /\ MINSTRTABSIZE \in Nat \ {0}

VARIABLES
  strt,             \* the chains, at 0..size-1
  color,            \* of each string that is allocated: the current white, the other
                    \* one, which is that of the dead, or black
  nuse,
  gcstate, sweepstrgc,
  held              \* the strings that the program holds

internvars == <<strt, color, nuse, gcstate, sweepstrgc, held>>

size(h) == Cardinality(DOMAIN h)

\* luaS_resize moves the strings of each chain, the first one first, to the
\* front of their new chains, unless the collector is amid them.
PutFirst(h, newsize, s) == [h EXCEPT ![Hash[s] % newsize] = <<s>> \o @]

MoveChain(h, newsize, chain) ==
  LET moved[n \in 0..Len(chain)] ==
        IF n = 0 THEN h ELSE PutFirst(moved[n - 1], newsize, chain[n])
  IN  moved[Len(chain)]

luaS_resize(h, newsize) ==
  LET resized[n \in 0..size(h)] ==
        IF n = 0 THEN [i \in 0..newsize - 1 |-> <<>>]
        ELSE MoveChain(resized[n - 1], newsize, h[n - 1])
  IN  IF gcstate = "sweepstring" THEN h ELSE resized[size(h)]

isdead(s) == color[s] = "other"

Chain(s) == strt[Hash[s] % size(strt)]

\* Mutant: a dead string is given out as it is.
FindString_Dead(s) ==
  /\ \E i \in DOMAIN Chain(s) : Chain(s)[i] = s
  /\ held' = held \cup {s}
  /\ UNCHANGED <<strt, color, nuse, gcstate, sweepstrgc>>

\* luaS_newlstr finds the string, dead or not ...
FindString(s) ==
  /\ \E i \in DOMAIN Chain(s) : Chain(s)[i] = s
  /\ color' = [color EXCEPT ![s] = IF isdead(s) THEN "white" ELSE @]
  /\ held' = held \cup {s}
  /\ UNCHANGED <<strt, nuse, gcstate, sweepstrgc>>

\* ... or newlstr makes it, and doubles a table that is too crowded.
newlstr(s) ==
  /\ \A i \in DOMAIN Chain(s) : Chain(s)[i] # s
  /\ LET with == PutFirst(strt, size(strt), s) IN
     strt' = IF nuse + 1 > size(strt) THEN luaS_resize(with, size(strt) * 2) ELSE with
  /\ nuse' = nuse + 1
  /\ color' = [color EXCEPT ![s] = "white"]
  /\ held' = held \cup {s}
  /\ UNCHANGED <<gcstate, sweepstrgc>>

\* atomic: what is held is black, the rest has what from now on is the other white.
\* That the program let go of some strings shows here only.
atomic(keep) ==
  /\ gcstate = "propagate"
  /\ held' = keep
  /\ color' = [s \in String |-> IF color[s] = "free" THEN "free"
                                ELSE IF s \in keep THEN "black" ELSE "other"]
  /\ gcstate' = "sweepstring" /\ sweepstrgc' = 0
  /\ UNCHANGED <<strt, nuse>>

\* sweeplist, on a whole chain: the dead are unlinked and freed, the others become
\* white.  What is left of the chain:
sweeplist(chain) ==
  LET left[n \in 0..Len(chain)] ==
        IF n = 0 THEN <<>>
        ELSE IF isdead(chain[n]) THEN left[n - 1] ELSE Append(left[n - 1], chain[n])
  IN  left[Len(chain)]

sweepchain ==
  /\ gcstate = "sweepstring"
  /\ LET chain == strt[sweepstrgc]
         left  == sweeplist(chain)
     IN  /\ strt' = [strt EXCEPT ![sweepstrgc] = left]
         /\ color' = [s \in String |-> IF s \notin ToSet(chain) THEN color[s]
                                       ELSE IF isdead(s) THEN "free" ELSE "white"]
         /\ nuse' = nuse - (Len(chain) - Len(left))
  /\ sweepstrgc' = sweepstrgc + 1
  /\ gcstate' = IF sweepstrgc + 1 >= size(strt) THEN "sweep" ELSE gcstate
  /\ UNCHANGED held

\* checkSizes, when the rest is swept: the table may be too big.
checkSizes ==
  /\ gcstate = "sweep"
  /\ strt' = IF nuse < size(strt) \div 4 /\ size(strt) > MINSTRTABSIZE * 2
             THEN luaS_resize(strt, size(strt) \div 2) ELSE strt
  /\ gcstate' = "propagate"
  /\ UNCHANGED <<color, nuse, sweepstrgc, held>>

InternInit ==
  /\ strt = [i \in 0..MINSTRTABSIZE - 1 |-> <<>>]
  /\ color = [s \in String |-> "free"]
  /\ nuse = 0 /\ held = {}
  /\ gcstate = "propagate" /\ sweepstrgc = 0

InternNext ==
  \/ \E s \in String : FindString(s) \/ newlstr(s)
  \/ \E keep \in SUBSET held : atomic(keep)
  \/ sweepchain \/ checkSizes

InternSpec == InternInit /\ [][InternNext]_internvars

-----------------------------------------------------------------------------
(* Properties.                                                             *)

Allocated == {s \in String : color[s] # "free"}

\* h is a table of n chains for the strings of A: each is in the chain of its hash,
\* once, and in no other.
IsTable(h, n, A) ==
  /\ n \in Nat \ {0} /\ h \in [0..n - 1 -> Seq(String)]
  /\ \A i \in 0..n - 1 : IsInjective(h[i])
  /\ \A i \in 0..n - 1 : ToSet(h[i]) = {s \in A : Hash[s] % n = i}

\* Strings can be compared by their addresses (internal strings, lstring.h): a
\* string that is allocated is in the chain of its hash, once, and in no other;
\* what the program holds is not dead; what is dead has not been swept over, and
\* nothing black is left behind the sweep, for the next mark to take for marked.
Interned ==
  /\ IsTable(strt, size(strt), Allocated)
  /\ nuse = Cardinality(Allocated)
  /\ \A s \in held : color[s] \in {"white", "black"}
  /\ \A s \in Allocated :
       gcstate # "sweepstring" \/ Hash[s] % size(strt) < sweepstrgc => color[s] = "white"
=============================================================================

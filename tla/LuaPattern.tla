----------------------------- MODULE LuaPattern -----------------------------
(***************************************************************************)
(* The matcher of lstrlib.c: match and the functions that it calls, each   *)
(* with the MatchState as it leaves it, whether it succeeds or fails: the  *)
(* captures are changed in place, and a failed attempt must undo what it   *)
(* did to them before the next one.                                        *)
(*                                                                         *)
(* A subject is a sequence of characters, a place in it one more than what *)
(* is to its left.  A pattern is a sequence of items, which are records:   *)
(*   [k |-> "single", set, rep]  a class of characters, and its repetition *)
(*   [k |-> "("], [k |-> ")"], [k |-> "()"]                  captures      *)
(*   [k |-> "back", l]           %l                                        *)
(*   [k |-> "b", x, y]           %bxy                                      *)
(*   [k |-> "f", set]            %f[set]                                   *)
(*   [k |-> "$"]                 $, which is the last one                  *)
(* How a class is written and read is left out.                            *)
(***************************************************************************)
EXTENDS Integers, Sequences

CONSTANT LUA_MAXCAPTURES

CAP_UNFINISHED == -1
CAP_POSITION   == -2
NUL == "0"    \* what ends a string

\* A MatchState, before a call of match.
MatchState(src, pat) ==
  [src |-> src, pat |-> pat, level |-> 0,
   capture |-> [l \in 1..LUA_MAXCAPTURES |-> [init |-> 0, len |-> 0]]]

Ok(ms, s) == [res |-> "ok", s |-> s, ms |-> ms]
Fail(ms)  == [res |-> "fail", s |-> 0, ms |-> ms]
Error(ms) == [res |-> "error", s |-> 0, ms |-> ms]

src_end(ms)    == Len(ms.src) + 1
CharAt(ms, s)  == IF s \in 1..Len(ms.src) THEN ms.src[s] ELSE NUL

singlematch(ms, s, it) == s < src_end(ms) /\ ms.src[s] \in it.set

Unfinished(ms) == {l \in 1..ms.level : ms.capture[l].len = CAP_UNFINISHED}

check_capture(ms, l) == l \in 1..ms.level \ Unfinished(ms)

\* The last one that is not finished.
capture_to_close(ms) ==
  CHOOSE l \in Unfinished(ms) : \A k \in Unfinished(ms) : k <= l

\* The place where each open x after s, and the one at s, has its y.
RECURSIVE balance(_, _, _, _)
balance(ms, s, it, cont) ==
  IF s >= src_end(ms) THEN Fail(ms)
  ELSE IF ms.src[s] = it.y
       THEN IF cont = 1 THEN Ok(ms, s + 1) ELSE balance(ms, s + 1, it, cont - 1)
       ELSE balance(ms, s + 1, it, IF ms.src[s] = it.x THEN cont + 1 ELSE cont)

matchbalance(ms, s, it) ==
  IF CharAt(ms, s) # it.x THEN Fail(ms) ELSE balance(ms, s + 1, it, 1)

frontier(ms, s, it) ==
  IF CharAt(ms, s - 1) \notin it.set /\ CharAt(ms, s) \in it.set
  THEN Ok(ms, s) ELSE Fail(ms)

match_capture(ms, s, l) ==
  LET c == ms.capture[l] IN
  IF ~check_capture(ms, l) THEN Error(ms)
  ELSE IF /\ c.len # CAP_POSITION /\ src_end(ms) - s >= c.len
          /\ \A d \in 0..c.len - 1 : ms.src[c.init + d] = ms.src[s + d]
       THEN Ok(ms, s + c.len) ELSE Fail(ms)

\* How often the item matches from s on.
RECURSIVE Repetitions(_, _, _)
Repetitions(ms, s, it) ==
  IF singlematch(ms, s, it) THEN 1 + Repetitions(ms, s + 1, it) ELSE 0

SetCapture(ms, l, init, len) == [ms EXCEPT !.capture[l] = [init |-> init, len |-> len]]

RECURSIVE match(_, _, _)

\* Mutant of UndoLevel: the capture stays.
UndoNothing(ms) == ms

UndoLevel(ms) == [ms EXCEPT !.level = @ - 1]

start_capture(ms, s, p, what) ==
  IF ms.level >= LUA_MAXCAPTURES THEN Error(ms)
  ELSE LET r == match([SetCapture(ms, ms.level + 1, s, what) EXCEPT !.level = @ + 1], s, p)
       IN  IF r.res = "fail" THEN Fail(UndoLevel(r.ms)) ELSE r

UndoClose(ms, l) == [ms EXCEPT !.capture[l].len = CAP_UNFINISHED]

end_capture(ms, s, p) ==
  IF Unfinished(ms) = {} THEN Error(ms)
  ELSE LET l == capture_to_close(ms)
           r == match([ms EXCEPT !.capture[l].len = s - ms.capture[l].init], s, p)
       IN  IF r.res = "fail" THEN Fail(UndoClose(r.ms, l)) ELSE r

\* With i repetitions, then with fewer.
RECURSIVE max_expand(_, _, _, _)
max_expand(ms, s, p, i) ==
  LET r == match(ms, s + i, p + 1) IN
  IF r.res = "fail" /\ i > 0 THEN max_expand(r.ms, s, p, i - 1) ELSE r

RECURSIVE min_expand(_, _, _)
min_expand(ms, s, p) ==
  LET r == match(ms, s, p + 1) IN
  IF r.res = "fail" /\ singlematch(ms, s, ms.pat[p]) THEN min_expand(r.ms, s + 1, p) ELSE r

\* The rest of the pattern, from where an item ends.
Then(r, p) == IF r.res = "ok" THEN match(r.ms, r.s, p + 1) ELSE r

repeated(ms, s, p) ==
  LET it == ms.pat[p]
      m  == singlematch(ms, s, it)
  IN  CASE it.rep = "?" ->
             LET r == IF m THEN match(ms, s + 1, p + 1) ELSE Fail(ms)
             IN  IF r.res = "fail" THEN match(r.ms, s, p + 1) ELSE r
        [] it.rep = "*" -> max_expand(ms, s, p, Repetitions(ms, s, it))
        [] it.rep = "+" -> IF m THEN max_expand(ms, s + 1, p, Repetitions(ms, s + 1, it)) ELSE Fail(ms)
        [] it.rep = "-" -> min_expand(ms, s, p)
        [] OTHER        -> Then(IF m THEN Ok(ms, s + 1) ELSE Fail(ms), p)

match(ms, s, p) ==
  IF p > Len(ms.pat) THEN Ok(ms, s)
  ELSE LET it == ms.pat[p] IN
       CASE it.k = "("    -> start_capture(ms, s, p + 1, CAP_UNFINISHED)
         [] it.k = "()"   -> start_capture(ms, s, p + 1, CAP_POSITION)
         [] it.k = ")"    -> end_capture(ms, s, p + 1)
         [] it.k = "b"    -> Then(matchbalance(ms, s, it), p)
         [] it.k = "f"    -> Then(frontier(ms, s, it), p)
         [] it.k = "back" -> Then(match_capture(ms, s, it.l), p)
         [] it.k = "$"    -> IF s = src_end(ms) THEN Ok(ms, s) ELSE Fail(ms)
         [] OTHER         -> repeated(ms, s, p)

\* What a capture holds: a place, or the text between two; an unfinished one
\* is an error to whoever asks for it.
push_onecapture(c) ==
  CASE c.len = CAP_UNFINISHED -> <<"error">>
    [] c.len = CAP_POSITION   -> <<"position", c.init>>
    [] OTHER                  -> <<"text", c.init, c.init + c.len>>

\* An attempt at the place s.
Attempt(src, pat, s) ==
  LET r == match(MatchState(src, pat), s, 1) IN
  IF r.res # "ok" THEN [res |-> r.res]
  ELSE [res |-> "ok", from |-> s, to |-> r.s,
        captures |-> [l \in 1..r.ms.level |-> push_onecapture(r.ms.capture[l])]]
=============================================================================

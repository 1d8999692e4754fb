---------------------------- MODULE PatternManual ----------------------------
(***************************************************************************)
(* What the reference manual (manual.html, 5.4.1) says of patterns, without *)
(* a matcher: a pattern matches where each of its items can be given its   *)
(* part of the subject, one after the other; of the ways to do so the one  *)
(* counts in which the first item has the longest part that it can have,   *)
(* or, repeated by -, the shortest, then the second, and so on.            *)
(***************************************************************************)
EXTENDS Integers, Sequences, FiniteSets, TLC

CONSTANT LUA_MAXCAPTURES

\* The captures are numbered by their left parentheses.
Opens(pat) == {i \in DOMAIN pat : pat[i].k \in {"(", "()"}}
Number(pat, i) == Cardinality({j \in Opens(pat) : j <= i})
OpenOf(pat, l) == CHOOSE i \in Opens(pat) : Number(pat, i) = l

Depth(pat, i, j) ==
  Cardinality({h \in i..j : pat[h].k = "("}) - Cardinality({h \in i..j : pat[h].k = ")"})

\* The right parenthesis of the left one at i.
CloseOf(pat, i) ==
  IF pat[i].k = "()" THEN i
  ELSE CHOOSE j \in i..Len(pat) : Depth(pat, i, j) = 0 /\ \A h \in i..j - 1 : Depth(pat, i, h) > 0

WellFormed(pat) ==
  /\ Cardinality(Opens(pat)) <= LUA_MAXCAPTURES
  /\ Depth(pat, 1, Len(pat)) = 0
  /\ \A j \in DOMAIN pat : Depth(pat, 1, j) >= 0
  /\ \A j \in DOMAIN pat : pat[j].k = "back" =>
       /\ pat[j].l <= Cardinality(Opens(pat))
       /\ CloseOf(pat, OpenOf(pat, pat[j].l)) < j

\* A way gives the places where the items end, and at 0 where the first begins.
Begins(w, i) == w[i - 1]

\* The characters between the ends of a balanced part that are x or y: each x
\* counts one, each y takes one off.
Count(src, it, from, to) ==
  Cardinality({j \in from..to : src[j] = it.x /\ it.x # it.y})
    - Cardinality({j \in from..to : src[j] = it.y})

At(src, j) == IF j \in DOMAIN src THEN src[j] ELSE "0"

Times(rep, n) ==
  CASE rep = "1" -> n = 1
    [] rep = "?" -> n <= 1
    [] rep = "+" -> n >= 1
    [] OTHER     -> TRUE

Fits(src, pat, w, i) ==
  LET it == pat[i]
      x  == Begins(w, i)
      y  == w[i]
  IN  CASE it.k = "single" -> Times(it.rep, y - x) /\ \A j \in x..y - 1 : src[j] \in it.set
        [] it.k = "back" ->
             LET o == OpenOf(pat, it.l)
                 c == CloseOf(pat, o)
             IN  /\ pat[o].k = "(" /\ y - x = w[c] - w[o]
                 /\ \A d \in 0..y - x - 1 : src[x + d] = src[w[o] + d]
        [] it.k = "b" ->
             /\ y - x >= 2 /\ src[x] = it.x /\ src[y - 1] = it.y
             /\ Count(src, it, x + 1, y - 1) = -1
             /\ \A j \in x + 1..y - 2 : Count(src, it, x + 1, j) > -1
        [] it.k = "f" -> y = x /\ At(src, x - 1) \notin it.set /\ At(src, x) \in it.set
        [] it.k = "$" -> y = x /\ x = Len(src) + 1
        [] OTHER      -> y = x

\* The ways to match the pattern from the place s on, item by item.
Ways(src, pat, s) ==
  LET ways[i \in 0..Len(pat)] ==
        IF i = 0 THEN {0 :> s}
        ELSE {w \in {v @@ (i :> y) : v \in ways[i - 1], y \in s..Len(src) + 1} :
                w[i - 1] <= w[i] /\ Fits(src, pat, w, i)}
  IN  ways[Len(pat)]

Lazy(it) == it.k = "single" /\ it.rep = "-"

Better(pat, v, w) ==
  \E i \in 1..Len(pat) :
    /\ \A j \in 1..i - 1 : v[j] = w[j]
    /\ IF Lazy(pat[i]) THEN v[i] < w[i] ELSE v[i] > w[i]

Captured(pat, w, i) ==
  IF pat[i].k = "()" THEN <<"position", w[i]>> ELSE <<"text", w[i], w[CloseOf(pat, i)]>>

\* The match at the place s.
MatchAt(src, pat, s) ==
  LET ways == Ways(src, pat, s) IN
  IF ways = {} THEN [res |-> "fail"]
  ELSE LET w == CHOOSE v \in ways : \A u \in ways \ {v} : Better(pat, v, u)
       IN  [res |-> "ok", from |-> s, to |-> w[Len(pat)],
            captures |-> [l \in 1..Cardinality(Opens(pat)) |-> Captured(pat, w, OpenOf(pat, l))]]
=============================================================================

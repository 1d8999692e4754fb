------------------------------ MODULE LuaStrlib ------------------------------
(***************************************************************************)
(* string.find, match, gmatch and gsub (lstrlib.c): how each goes through  *)
(* its subject, attempt by attempt.  The matcher is a parameter, and so is *)
(* what the manual says that an attempt finds.  Both take a subject, a     *)
(* pattern and a place and give [res, from, to, captures], res being "ok", *)
(* "fail" or "error" (LuaPattern, PatternManual).                          *)
(*                                                                         *)
(* A subject is a sequence of characters, a place in it is from 1 to one   *)
(* past its end.  The text that gsub makes is a sequence of                *)
(* <<"subject", place>>, <<"number", place>> and <<"new", x>>.             *)
(***************************************************************************)
EXTENDS Integers, Sequences, SequencesExt

CONSTANTS
  Matcher(_, _, _),   \* match, and what the captures hold afterwards
  Meaning(_, _, _),   \* what the manual says
  IsPattern(_),       \* ... which sequences of items are patterns
  Calls               \* the calls, see TypeOfCall

VARIABLES
  call,               \* the call: the function and its arguments
  src,                \* where the next attempt is
  at,
  found,              \* the matches, with what gsub put in their place
  out                 \* what gsub has in its buffer

stringvars == <<call, src, at, found, out>>

src_end == Len(call.s) + 1

\* A pattern without special characters: find takes it for plain text.
Plain(p) == \A i \in DOMAIN p : p[i].k = "single" /\ p[i].rep = "1" /\ \E c \in p[i].set : p[i].set = {c}

\* A caret before the pattern means an anchor, but not to gmatch.
Caret        == [k |-> "single", set |-> {"^"}, rep |-> "1"]
anchor       == call.caret /\ call.f # "gmatch"
PatternOf(c) == IF c.caret /\ c.f = "gmatch" THEN <<Caret>> \o c.p ELSE c.p
pattern      == PatternOf(call)

posrelat(pos, len) == LET p == IF pos < 0 THEN pos + len + 1 ELSE pos IN IF p >= 0 THEN p ELSE 0

\* Where find and match start.
start(s, init) ==
  LET i == posrelat(init, Len(s)) - 1
  IN  1 + (IF i < 0 THEN 0 ELSE IF i > Len(s) THEN Len(s) ELSE i)

\* The function; the subject s, the pattern p, whether a caret is before it; init
\* of find and match; of gsub max_s and what it puts for a match: a function's
\* result, a table's or a string, in which 0..9 stand for %0 to %9, others for text.
TypeOfCall(c) ==
  /\ c.f \in {"find", "gmatch", "gsub"} /\ c.caret \in BOOLEAN
  /\ c.s \in Seq(STRING) /\ Len(c.p) \in Nat
  /\ c.init \in Int /\ (c.f # "find" => c.init = 1) /\ c.max_s \in Int
  /\ c.kind \in {"string", "function", "table"} /\ c.repl \in Seq(Nat)

ASSUME CallsAssumption == \A c \in Calls : TypeOfCall(c)

\* The text is at the place i.
TextAt(s, i, p) == i + Len(p) <= Len(s) + 1 /\ \A d \in 1..Len(p) : s[i + d - 1] \in p[d].set

TextMatch(i, p) == [res |-> "ok", from |-> i, to |-> i + Len(p), captures |-> <<>>]

\* What captures hold after a match.
Capture == ({"position"} \X Nat) \cup ({"text"} \X Nat \X Nat)

\* What the manual says that an attempt finds: nothing, or a part of the subject;
\* and of a pattern that is plain text, nothing but this text.
FindsPart(s, q, x) ==
  LET m == Meaning(s, q, x) IN
  \/ m.res = "fail"
  \/ /\ m = [res |-> "ok", from |-> x, to |-> m.to, captures |-> m.captures]
     /\ m.to \in x..Len(s) + 1 /\ m.captures \in Seq(Capture)
FindsText(s, q, x) ==
  LET m == Meaning(s, q, x) IN
  IF TextAt(s, x, q) THEN m = TextMatch(x, q) ELSE m.res = "fail"

\* The subjects with their patterns.
Attempts == {<<c.s, PatternOf(c)>> : c \in {d \in Calls : IsPattern(d.p)}}

ASSUME MeaningAssumption ==
  \A a \in Attempts : \A x \in 1..Len(a[1]) + 1 :
    FindsPart(a[1], a[2], x) /\ (Plain(a[2]) => FindsText(a[1], a[2], x))

\* How the function starts.
StrlibStarts ==
  /\ src = start(call.s, call.init)
  /\ at = IF call.f = "find" /\ ~call.caret /\ Plain(call.p) THEN "plain" ELSE call.f
  /\ found = <<>> /\ out = <<>>

StrlibInit == call \in Calls /\ StrlibStarts

-----------------------------------------------------------------------------
(* Finding.                                                                *)

\* The first place where the text is, as a set.
lmemfind(s, from, p) ==
  {i \in from..Len(s) + 1 : TextAt(s, i, p) /\ \A h \in from..i - 1 : ~TextAt(s, h, p)}

FindPlain ==
  /\ at = "plain"
  /\ \/ \E i \in lmemfind(call.s, src, call.p) : found' = <<TextMatch(i, call.p)>>
     \/ lmemfind(call.s, src, call.p) = {} /\ found' = <<>>
  /\ at' = "done"
  /\ UNCHANGED <<call, src, out>>

\* push_captures, which raises an error over one that holds nothing.
Pushes(m) == \A l \in DOMAIN m.captures : m.captures[l][1] # "error"

\* str_find_aux: the loop over the places.
FindPattern ==
  /\ at = "find"
  /\ \E m \in {Matcher(call.s, pattern, src)} :
       \/ /\ m.res = "ok"
          /\ found' = <<m>> /\ at' = IF Pushes(m) THEN "done" ELSE "error"
          /\ UNCHANGED src
       \/ /\ m.res = "fail" /\ src < src_end /\ ~anchor
          /\ src' = src + 1
          /\ UNCHANGED <<at, found>>
       \/ /\ m.res = "fail" /\ (src = src_end \/ anchor)
          /\ at' = "done"
          /\ UNCHANGED <<src, found>>
       \/ /\ m.res = "error"
          /\ at' = "error"
          /\ UNCHANGED <<src, found>>
  /\ UNCHANGED <<call, out>>

\* gmatch_aux, which the loop of the program calls again after each match.
Gmatch ==
  /\ at = "gmatch" /\ src <= src_end
  /\ \E m \in {Matcher(call.s, pattern, src)} :
       \/ /\ m.res = "ok"
          /\ found' = Append(found, m)
          /\ src' = IF m.to = src THEN src + 1 ELSE m.to
          /\ at' = IF Pushes(m) THEN at ELSE "error"
       \/ /\ m.res = "fail"
          /\ src' = src + 1
          /\ UNCHANGED <<at, found>>
       \/ /\ m.res = "error"
          /\ at' = "error"
          /\ UNCHANGED <<src, found>>
  /\ UNCHANGED <<call, out>>

GmatchEnd ==
  /\ at = "gmatch" /\ src > src_end
  /\ at' = "done"
  /\ UNCHANGED <<call, src, found, out>>

-----------------------------------------------------------------------------
(* Replacing.                                                              *)

Part(from, to) == [i \in 1..to - from |-> <<"subject", from + i - 1>>]

\* What %l stands for, the match being m, as a set, empty where that is an error.
Captured(m, l) ==
  IF l = 0 \/ (l = 1 /\ m.captures = <<>>) THEN {Part(m.from, m.to)}
  ELSE IF l > Len(m.captures) THEN {}
  ELSE LET c == m.captures[l] IN
       CASE c[1] = "error"    -> {}
         [] c[1] = "position" -> {<< <<"number", c[2]>> >>}
         [] OTHER             -> {Part(c[2], c[3])}

\* add_s: what the string becomes.
add_s(m, repl) ==
  LET piece(x) == IF x \in 0..9 THEN Captured(m, x) ELSE {<< <<"new", x>> >>}
  IN  IF \E i \in DOMAIN repl : piece(repl[i]) = {} THEN {}
      ELSE {FlattenSeq([i \in DOMAIN repl |-> CHOOSE x \in piece(repl[i]) : TRUE])}

\* add_value: a function or a table gives a text, or nil or false for the match
\* itself, or what is no text, which is an error like one of the function's own.
add_value(m) ==
  CASE call.kind = "string" -> {add_s(m, call.repl)}
    [] call.kind = "function" /\ ~Pushes(m) -> {{}}
    [] call.kind = "table" /\ Captured(m, 1) = {} -> {{}}
    [] OTHER -> {{}, {Part(m.from, m.to)}, {<< <<"new", 0>> >>}}

\* One round of gsub after an attempt that leads to e, 0 if it failed.
Advance(e) ==
  \/ /\ e > src
     /\ src' = e
     /\ at' = IF anchor THEN "rest" ELSE at
  \/ /\ e <= src /\ src < src_end
     /\ src' = src + 1
     /\ at' = IF anchor THEN "rest" ELSE at
  \/ /\ e <= src /\ src = src_end
     /\ at' = "rest"
     /\ UNCHANGED src

\* The character that a failed or an empty match leaves behind.
Passed(e) == IF e > src THEN <<>> ELSE Part(src, IF src < src_end THEN src + 1 ELSE src)

Gsub ==
  /\ at = "gsub" /\ Len(found) < call.max_s
  /\ \E m \in {Matcher(call.s, pattern, src)} :
       \/ /\ m.res = "ok"
          /\ \E v \in add_value(m) :
               \/ /\ v = {}
                  /\ at' = "error"
                  /\ UNCHANGED <<src, found, out>>
               \/ \E put \in v :
                  /\ found' = Append(found, [m EXCEPT !.res = put])
                  /\ out' = out \o put \o Passed(m.to)
                  /\ Advance(m.to)
       \/ /\ m.res = "fail"
          /\ out' = out \o Passed(0)
          /\ Advance(0)
          /\ UNCHANGED found
       \/ /\ m.res = "error"
          /\ at' = "error"
          /\ UNCHANGED <<src, found, out>>
  /\ UNCHANGED call

GsubEnd ==
  /\ at = "rest" \/ (at = "gsub" /\ Len(found) >= call.max_s)
  /\ out' = out \o Part(src, src_end)
  /\ at' = "done"
  /\ UNCHANGED <<call, src, found>>

StrlibNext == FindPlain \/ FindPattern \/ Gmatch \/ GmatchEnd \/ Gsub \/ GsubEnd

StrlibSpec == StrlibInit /\ [][StrlibNext]_stringvars

-----------------------------------------------------------------------------
(* Properties.                                                             *)

\* Where the search goes on after the i'th match, and where it started.
From(i) ==
  IF i = 0 THEN start(call.s, call.init)
  ELSE IF found[i].to > found[i].from THEN found[i].to ELSE found[i].from + 1

LastPlace == IF anchor THEN From(0) ELSE src_end

\* The places that were tried so far.
Tried == IF at = "done" /\ (call.f # "gsub" \/ Len(found) < call.max_s) /\ ~(call.f = "find" /\ found # <<>>)
         THEN LastPlace ELSE 0

Meant(s) == Meaning(call.s, pattern, s)

\* The matches are those of the manual, each the first one after the one
\* before, none left out, whatever attempts the matcher had to take back.
MatchesMeant ==
  /\ \A i \in 1..Len(found) :
       /\ LET m == Meant(found[i].from) IN
          m.res = "ok" /\ m.to = found[i].to /\ m.captures = found[i].captures
       /\ From(i - 1) <= found[i].from /\ found[i].from <= LastPlace
       /\ \A s \in From(i - 1)..found[i].from - 1 : Meant(s).res = "fail"
  /\ \A s \in From(Len(found))..Tried : Meant(s).res = "fail"
  /\ call.f = "find" => Len(found) <= 1
  /\ call.f = "gsub" => found = <<>> \/ Len(found) <= call.max_s

\* gsub keeps what is between the matches and replaces them, and them only.
Between(i) ==
  Part(IF i = 1 THEN 1 ELSE found[i - 1].to, IF i > Len(found) THEN src_end ELSE found[i].from)
Replaced == [i \in 1..Len(found) |-> Between(i) \o found[i].res]
TextMeant ==
  call.f = "gsub" =>
    /\ out = FlattenSeq(Replaced) \o Between(Len(found) + 1)
    /\ call.kind = "string" =>
         \A i \in 1..Len(found) : {found[i].res} = add_s(found[i], call.repl)

\* Only these raise an error.
MayRaise ==
  call.f = "gsub" /\ (call.kind # "string" \/ \E i \in DOMAIN call.repl : call.repl[i] \in 2..9)

\* find, gmatch and gsub give what the manual says (manual.html, 5.4 and
\* 5.4.1): str_find_aux, gmatch_aux and str_gsub with the matcher, in which a
\* capture of an attempt that failed must not be left to the next.
MatchesAsManual ==
  IsPattern(call.p) =>
    /\ MatchesMeant
    /\ at = "done" => TextMeant
    /\ at = "error" => MayRaise
=============================================================================

------------------------------ MODULE LuaBuffer ------------------------------
(***************************************************************************)
(* luaL_Buffer (lauxlib.c): a text that is made piece by piece, its end in *)
(* a buffer of fixed size, the rest in a few strings on the stack, which   *)
(* are concatenated before they become too many.                           *)
(*                                                                         *)
(* The n'th character that the caller adds is the number n.  The caller    *)
(* leaves the stack above the strings as it was, as it must (manual.html,  *)
(* luaL_Buffer).                                                           *)
(***************************************************************************)
EXTENDS Integers, Sequences, SequencesExt

CONSTANTS
  LUAL_BUFFERSIZE,
  LIMIT,          \* LUA_MINSTACK/2
  MaxText,        \* bound on the length of the text
  MaxAdd          \* ... and of what is added at once

ASSUME SizeAssumption ==
  /\ LUAL_BUFFERSIZE \in Nat \ {0} /\ LIMIT \in Nat \ {0, 1}
  /\ MaxText \in Nat /\ MaxAdd \in Nat

VARIABLES
  p,              \* what is in the buffer
  stack,          \* the strings on the stack, lvl of them
  added,          \* how many characters were added
  result          \* what luaL_pushresult left, before that empty

buffervars == <<p, stack, added, result>>

lvl(s)         == Len(s)
bufffree       == LUAL_BUFFERSIZE - Len(p)
Characters(l)  == [i \in 1..l |-> added + i]
Concat(s, toget) ==
  SubSeq(s, 1, lvl(s) - toget) \o <<FlattenSeq(SubSeq(s, lvl(s) - toget + 1, lvl(s)))>>

\* emptybuffer: the buffer becomes a string.
emptybuffer(s) == IF p = <<>> THEN s ELSE Append(s, p)

\* How many strings adjuststack puts together: as long as there are too many, or
\* those on top are longer than the next.
toget(s) ==
  LET top[n \in 1..lvl(s)] == Len(FlattenSeq(SubSeq(s, lvl(s) - n + 1, lvl(s))))
      more(n) == lvl(s) - n + 1 >= LIMIT \/ top[n] > Len(s[lvl(s) - n])
  IN  CHOOSE n \in 1..lvl(s) : (n = lvl(s) \/ ~more(n)) /\ \A m \in 1..n - 1 : more(m)

\* Mutant: the longer strings stay below the shorter ones, however many.
adjuststack_ByLength(s) ==
  IF lvl(s) > 1 /\ Len(s[lvl(s)]) > Len(s[lvl(s) - 1]) THEN Concat(s, 2) ELSE s

adjuststack(s) == IF lvl(s) > 1 THEN Concat(s, toget(s)) ELSE s

\* luaL_addchar: luaL_prepbuffer, if the buffer is full, before the character.
luaL_addchar ==
  /\ added < MaxText
  /\ IF bufffree = 0
     THEN stack' = adjuststack(emptybuffer(stack)) /\ p' = Characters(1)
     ELSE p' = p \o Characters(1) /\ UNCHANGED stack
  /\ added' = added + 1
  /\ UNCHANGED result

\* luaL_addvalue: a string from the top of the stack goes to the buffer, or with
\* what was in the buffer below it to the strings.
luaL_addvalue(vl) ==
  /\ added + vl <= MaxText
  /\ IF vl <= bufffree
     THEN p' = p \o Characters(vl) /\ UNCHANGED stack
     ELSE /\ stack' = adjuststack(Append(emptybuffer(stack), Characters(vl)))
          /\ p' = <<>>
  /\ added' = added + vl
  /\ UNCHANGED result

\* luaL_prepbuffer and luaL_addsize: the caller fills the buffer itself.
luaL_addsize(n) ==
  /\ added + n <= MaxText
  /\ stack' = IF p = <<>> THEN stack ELSE adjuststack(emptybuffer(stack))
  /\ p' = Characters(n)
  /\ added' = added + n
  /\ UNCHANGED result

luaL_pushresult ==
  /\ result = <<>>
  /\ LET all == emptybuffer(stack) IN
     /\ result' = <<FlattenSeq(all)>>
     /\ stack' = result' /\ p' = <<>>
  /\ UNCHANGED added

BufferInit == p = <<>> /\ stack = <<>> /\ added = 0 /\ result = <<>>

\* After luaL_pushresult the caller is done.
BufferNext ==
  \/ result = <<>> /\ luaL_addchar
  \/ \E vl \in 0..MaxAdd : result = <<>> /\ luaL_addvalue(vl)
  \/ \E n \in 0..LUAL_BUFFERSIZE : result = <<>> /\ luaL_addsize(n)
  \/ luaL_pushresult

BufferSpec == BufferInit /\ [][BufferNext]_buffervars

-----------------------------------------------------------------------------
(* Properties.                                                             *)

Text == FlattenSeq(stack) \o p

\* The text is all that was added, in its order; the buffer does not overflow;
\* and the strings take fewer stack slots than the LUA_MINSTACK that a C function
\* may rely on (luaL_prepbuffer, luaL_addvalue and luaL_pushresult).
BufferKeepsText ==
  /\ Text = [i \in 1..added |-> i]
  /\ Len(p) <= LUAL_BUFFERSIZE
  /\ lvl(stack) < LIMIT
  /\ result # <<>> => Text = result[1]
=============================================================================

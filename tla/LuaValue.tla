------------------------------ MODULE LuaValue ------------------------------
(***************************************************************************)
(* Values (lobject.h) as pairs of a type and a payload, and the arithmetic *)
(* on numbers (luai_num* of luaconf.h).  Numbers are integers and NaN, an  *)
(* integer that no program computes; the operators / and ^ are left out.   *)
(***************************************************************************)
EXTENDS Integers, Sequences, TLC

NaN == -1000003

Nil       == <<"nil", 0>>
Bool(b)   == <<"boolean", IF b THEN 1 ELSE 0>>
Number(n) == <<"number", n>>
String(s) == <<"string", s>>

l_isfalse(v)   == v \in {Nil, Bool(FALSE)}
ttisnumber(v)  == v[1] = "number"
ttisstring(v)  == v[1] = "string"
ttistable(v)   == v[1] = "table"
ttisfunction(v) == v[1] \in {"function", "cfunction"}

\* The remainder has the sign of b.
luai_nummod(a, b) ==
  CASE b = 0 -> NaN [] b > 0 -> a % b [] OTHER -> -((-a) % (-b))

luai_num(op, a, b) ==
  CASE NaN \in {a, b} -> NaN
    [] NaN \notin {a, b} /\ op = "ADD" -> a + b
    [] NaN \notin {a, b} /\ op = "SUB" -> a - b
    [] NaN \notin {a, b} /\ op = "MUL" -> a * b
    [] NaN \notin {a, b} /\ op = "UNM" -> -a
    [] OTHER -> luai_nummod(a, b)

luai_numlt(a, b) == NaN \notin {a, b} /\ a < b
luai_numle(a, b) == NaN \notin {a, b} /\ a <= b

\* Strings that are numerals, among those that the programs have.
Numerals == -9..99
luaV_tonumber(v) ==
  IF ttisstring(v) /\ \E n \in Numerals : ToString(n) = v[2]
  THEN Number(CHOOSE n \in Numerals : ToString(n) = v[2]) ELSE v

tostring(v) == IF ttisnumber(v) THEN String(IF v[2] = NaN THEN "nan" ELSE ToString(v[2])) ELSE v

\* strcoll in the C locale, for the characters that the programs compare.
Alphabet == "-0123456789abcdefghijklmnopqrstuvwxyz"
Char(s, i) == SubSeq(s, i, i)
Code_(c)   == CHOOSE i \in 1..Len(Alphabet) : Char(Alphabet, i) = c
strcoll(l, r) ==
  LET n == IF Len(l) < Len(r) THEN Len(l) ELSE Len(r)
      D == {i \in 1..n : Char(l, i) # Char(r, i)}
      d == CHOOSE i \in D : \A j \in D : i <= j
  IN  IF D = {} THEN Len(l) - Len(r) ELSE Code_(Char(l, d)) - Code_(Char(r, d))
=============================================================================

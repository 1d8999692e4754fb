----------------------------- MODULE LuaOpcodes -----------------------------
(***************************************************************************)
(* Instructions of the virtual machine (lopcodes.h, lopcodes.c).  The      *)
(* fields Bx and sBx are kept in b, and no field has a width; operands    *)
(* from BITRK on are constants.                                            *)
(***************************************************************************)
EXTENDS Integers

NO_JUMP == -1
LUA_MULTRET == -1
NO_REG == 255
BITRK == 256
MAXINDEXRK == BITRK - 1
LFIELDS_PER_FLUSH == 50

RKASK(x)  == x + BITRK
ISK(x)    == x >= BITRK
INDEXK(x) == x - BITRK

CREATE(op, a, b, c) == [op |-> op, a |-> a, b |-> b, c |-> c]

Arithmetic == {"ADD", "SUB", "MUL", "MOD"}
Comparison == {"EQ", "LT", "LE"}

\* The operands' modes: N is not used, U used, R a register or an offset, K a
\* constant or a register.
iABx  == {"LOADK", "GETGLOBAL", "SETGLOBAL", "CLOSURE"}
iAsBx == {"JMP", "FORLOOP", "FORPREP"}

getBMode(op) ==
  CASE op \in {"LOADK", "GETGLOBAL", "SETGLOBAL", "SETTABLE"} \cup Arithmetic \cup Comparison -> "K"
    [] op \in {"MOVE", "LOADNIL", "GETTABLE", "SELF", "UNM", "NOT", "LEN", "CONCAT",
               "TEST", "TESTSET"} \cup iAsBx -> "R"
    [] op \in {"TFORLOOP", "CLOSE"} -> "N"
    [] OTHER -> "U"

getCMode(op) ==
  CASE op \in {"GETTABLE", "SETTABLE", "SELF"} \cup Arithmetic \cup Comparison -> "K"
    [] op = "CONCAT" -> "R"
    [] op \in {"LOADBOOL", "NEWTABLE", "TEST", "TESTSET", "CALL", "TAILCALL", "TFORLOOP",
               "SETLIST"} -> "U"
    [] OTHER -> "N"

\* A test, which the next instruction's jump belongs to.
testTMode(op) == op \in Comparison \cup {"TEST", "TESTSET", "TFORLOOP"}
=============================================================================

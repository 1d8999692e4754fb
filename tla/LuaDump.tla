------------------------------- MODULE LuaDump -------------------------------
(***************************************************************************)
(* Precompiled chunks: what ldump.c writes and lundump.c reads.  A chunk   *)
(* is a sequence of items, which are the values that one DumpBlock writes; *)
(* it may be cut anywhere.  The reader's z has the chunk, how much of it   *)
(* has been read, the value that was read last, and whether the chunk      *)
(* ended too early.  The debug information, which may be stripped, is left *)
(* out.                                                                    *)
(***************************************************************************)
EXTENDS LuaCheckcode, SequencesExt

Header == << <<"header", 0>> >>

Item(n) == << <<"item", n>> >>

DumpString(s) == Item(Len(s) + 1) \o << <<"chars", s>> >>

\* Mutant: a boolean is written as nil.
DumpConstant_NoBooleans(o) ==
  << <<"type", IF o[1] = "boolean" THEN "nil" ELSE o[1]>> >> \o
  (CASE o[1] \in {"nil", "boolean"} -> <<>>
     [] o[1] = "string" -> DumpString(o[2])
     [] OTHER           -> Item(o[2]))

DumpConstant(o) ==
  << <<"type", o[1]>> >> \o
  (CASE o[1] = "nil"    -> <<>>
     [] o[1] = "string" -> DumpString(o[2])
     [] OTHER           -> Item(o[2]))

DumpCode(code) == Item(Len(code)) \o [j \in DOMAIN code |-> <<"instruction", code[j]>>]

RECURSIVE DumpFunction(_)
DumpFunction(f) ==
  Item(f.nups) \o Item(f.numparams) \o << <<"flags", f.is_vararg>> >> \o Item(f.maxstacksize)
    \o DumpCode(f.code)
    \o Item(Len(f.k)) \o FlattenSeq([j \in DOMAIN f.k |-> DumpConstant(f.k[j])])
    \o Item(Len(f.p)) \o FlattenSeq([j \in DOMAIN f.p |-> DumpFunction(f.p[j])])

luaU_dump(f) == Header \o DumpFunction(f)

-----------------------------------------------------------------------------
(* Reading.  An error ends the load: nothing is read after it.             *)

LoadVar(z) == IF z.err \/ z.at = Len(z.chunk) THEN [z EXCEPT !.err = TRUE, !.v = 0]
              ELSE [z EXCEPT !.at = @ + 1, !.v = z.chunk[z.at + 1][2]]

\* n values that load reads, in order; the values are left in vs.
LoadMany(load(_), z, n) ==
  FoldLeft(LAMBDA y, j : LET x == load(y) IN IF y.err THEN y ELSE [x EXCEPT !.vs = Append(y.vs, x.v)],
           [z EXCEPT !.vs = <<>>], [j \in 1..n |-> j])

LoadString(z) == LoadVar(LoadVar(z))

LoadConstant(z) ==
  LET t == LoadVar(z)
      x == CASE t.v = "nil" -> [t EXCEPT !.v = 0] [] t.v = "string" -> LoadString(t) [] OTHER -> LoadVar(t)
  IN  IF t.err \/ x.err THEN [t EXCEPT !.err = TRUE] ELSE [x EXCEPT !.v = <<t.v, x.v>>]

\* A function; luaG_checkcode may refuse it.
RECURSIVE LoadFunction(_)
LoadFunction(z) ==
  LET nups   == LoadVar(z)
      params == LoadVar(nups)
      flags  == LoadVar(params)
      max    == LoadVar(flags)
      ncode  == LoadVar(max)
      code   == LoadMany(LoadVar, ncode, ncode.v)
      nk     == LoadVar(code)
      k      == LoadMany(LoadConstant, nk, nk.v)
      np     == LoadVar(k)
      p      == LoadMany(LoadFunction, np, np.v)
      f      == [code |-> code.vs, k |-> k.vs, p |-> p.vs, nups |-> nups.v, numparams |-> params.v,
                 is_vararg |-> flags.v, maxstacksize |-> max.v]
  IN  IF p.err THEN [p EXCEPT !.v = 0]
      ELSE IF luaG_checkcode(f) THEN [p EXCEPT !.v = f] ELSE [p EXCEPT !.v = 0, !.err = TRUE]

luaU_undump(chunk) ==
  LET h == LoadVar([chunk |-> chunk, at |-> 0, v |-> 0, vs |-> <<>>, err |-> FALSE]) IN
  IF h.err THEN [ok |-> FALSE, v |-> 0] ELSE LET x == LoadFunction(h) IN [ok |-> ~x.err, v |-> x.v]
=============================================================================

------------------------------ MODULE RefTable ------------------------------
(***************************************************************************)
(* What luaL_ref and luaL_unref promise: references are numbers, each one  *)
(* that was given out and not taken back stands for the object it was made *)
(* for, and no two of those are the same.                                  *)
(***************************************************************************)
EXTENDS Naturals

CONSTANTS Obj, MaxRef

VARIABLE refs      \* the objects that the references in use stand for

Init == refs = [r \in {} |-> {}]

Ref(r, v) ==
  /\ r \notin DOMAIN refs
  /\ refs' = [s \in DOMAIN refs \cup {r} |-> IF s = r THEN v ELSE refs[s]]

Unref(r) ==
  /\ r \in DOMAIN refs
  /\ refs' = [s \in DOMAIN refs \ {r} |-> refs[s]]

Next ==
  \/ \E r \in 1..MaxRef, v \in Obj : Ref(r, v)
  \/ \E r \in DOMAIN refs : Unref(r)

Spec == Init /\ [][Next]_refs
=============================================================================

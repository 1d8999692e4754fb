---------------------------- MODULE HandleTable ----------------------------
(***************************************************************************)
(* What the object translator promises to a Lua program: each userdata it  *)
(* can reach stands for one object of C#, always the same, and while it    *)
(* can reach one for an object it gets no second one for that object.      *)
(***************************************************************************)
EXTENDS Naturals

CONSTANTS
  Object,
  Generated,  \* objects that have a userdata more, the field base of their table
  MaxId

VARIABLE handles   \* the objects that the reachable userdata stand for

Init == handles = [i \in {} |-> {}]

Push(o, i) ==
  /\ i \in DOMAIN handles => handles[i] = o
  /\ o \in Generated \/ \A j \in DOMAIN handles : handles[j] = o => j = i
  /\ handles' = [j \in DOMAIN handles \cup {i} |-> IF j = i THEN o ELSE handles[j]]

Lose(i) ==
  /\ i \in DOMAIN handles
  /\ handles' = [j \in DOMAIN handles \ {i} |-> handles[j]]

Next ==
  \/ \E o \in Object, i \in 0..MaxId-1 : Push(o, i)
  \/ \E i \in DOMAIN handles : Lose(i)

Spec == Init /\ [][Next]_handles
=============================================================================

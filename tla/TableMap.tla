------------------------------ MODULE TableMap ------------------------------
(***************************************************************************)
(* What a Lua table promises: it maps keys to values, and a traversal with *)
(* next() returns every field once, if the program meanwhile only changes  *)
(* or clears fields that are there.  If it sets a new one, the traversal   *)
(* is undefined from then on.                                              *)
(***************************************************************************)
CONSTANTS Key, Val, NIL

VARIABLES
  content,    \* the field of every key
  traversal,  \* "none", "on", "done", "undefined" or "error"
  seen        \* the keys that it returned

vars == <<traversal, seen, content>>

Init ==
  /\ content = [k \in Key |-> NIL]
  /\ traversal = "none" /\ seen = {}

\* An assignment, of nil too: it may give a key that had no field a place.  (Bound
\* to old and new, the two contents are evaluated once each.)
Set ==
  \E old \in {content}, new \in {content'}, k \in Key :
    /\ new = [old EXCEPT ![k] = new[k]] /\ new[k] \in Val \cup {NIL}
    /\ IF traversal = "on" /\ old[k] = NIL
       THEN traversal' = "undefined" /\ seen' = {}
       ELSE UNCHANGED <<traversal, seen>>

\* next() starts a traversal, or returns a field that it has not returned ...
Visit(k) ==
  /\ traversal # "undefined" /\ traversal' = "on"
  /\ seen' = (IF traversal = "on" THEN seen ELSE {}) \cup {k}
  /\ content[k] # NIL
  /\ traversal = "on" => k \notin seen
  /\ UNCHANGED content

\* ... and nil when there is none left.
Done ==
  /\ traversal' = "done" /\ seen' = {}
  /\ \A k \in Key : content[k] # NIL => traversal = "on" /\ k \in seen
  /\ UNCHANGED content

\* An undefined traversal ends in any way, or in an error.
Undefined ==
  /\ traversal = "undefined"
  /\ traversal' \in {"done", "error"} /\ seen' = {}
  /\ UNCHANGED content

\* The program leaves the loop.
Break ==
  /\ traversal' = "none" /\ seen' = {}
  /\ UNCHANGED content

Next ==
  \/ Done \/ Undefined \/ Break \/ Set
  \/ \E k \in Key : Visit(k)

Spec == Init /\ [][Next]_vars
=============================================================================

----------------------------- MODULE Coroutines -----------------------------
(***************************************************************************)
(* What coroutines promise: of the threads that are active, the last one   *)
(* runs and the others wait for the one that they resumed; a coroutine     *)
(* that stops goes back to the one that resumed it; and what is dead stays *)
(* dead, unless the host starts it again, or tries to.                     *)
(***************************************************************************)
EXTENDS Sequences, SequencesExt

CONSTANTS Coroutine, Hosted, Main

VARIABLES
  active,   \* the threads that are running or normal, the running one last
  state     \* what coroutine.status says of every coroutine

vars == <<active, state>>

Thread == Coroutine \cup {Main}

Running(c) == active # <<>> /\ Last(active) = c
Status(c)  == IF Running(c) THEN "running" ELSE "normal"

Init ==
  /\ active = <<>>
  /\ state \in [Coroutine -> {"suspended", "dead"}]

\* The status of the threads that are active follows from their order.
Follows == \A c \in Coroutine : c \in ToSet(active)' => state'[c] = Status(c)'

Keeps(C) == \A c \in C : state'[c] = state[c]

Resume(c) ==
  /\ state[c] = "suspended" \/ (c \in Hosted /\ state[c] = "dead")
  /\ c \notin ToSet(active)
  /\ active' = Append(active, c)
  /\ Follows /\ Keeps(Coroutine \ ToSet(active'))

\* The host calls a function on its own thread.
Call ==
  /\ active' = Append(active, Main)
  /\ Follows /\ Keeps(Coroutine \ ToSet(active'))

\* The running thread yields, ends or fails.
Stop ==
  /\ active # <<>>
  /\ active' = Front(active)
  /\ Follows /\ Keeps(Coroutine \ ToSet(active))
  /\ \A c \in Coroutine : Running(c) => state'[c] \in {"suspended", "dead"}

\* resume refuses to start a coroutine, which dies of it; of one of the host's it
\* looks as if the message were its function.
Refuse(c) ==
  /\ \/ state[c] = "suspended" /\ state'[c] = "dead"
     \/ state[c] = "dead" /\ c \in Hosted /\ state'[c] = "suspended"
  /\ Keeps(Coroutine \ {c})
  /\ UNCHANGED active

Next ==
  \/ \E c \in Coroutine : Resume(c) \/ Refuse(c)
  \/ Call \/ Stop

Spec == Init /\ [][Next]_vars
=============================================================================

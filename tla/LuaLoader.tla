------------------------------ MODULE LuaLoader ------------------------------
(***************************************************************************)
(* require (loadlib.c): modules whose code may require others, in circles, *)
(* and fail at any point, and package.loaded, which tells what is loaded   *)
(* already and holds a sentinel for what is about to be.                   *)
(*                                                                         *)
(* The searchers of package.loaders answer as the files are at that time:  *)
(* with a function, with a message, or nil (a name without a dot has no    *)
(* root, loader_Croot), or with an error.  A module's code sets its own    *)
(* entry of package.loaded only.  Left out: entries that it sets for other *)
(* names (the function module takes any), a program that takes entries out *)
(* of package.loaded or puts searchers of its own into package.loaders.    *)
(***************************************************************************)
EXTENDS Integers, Sequences

CONSTANTS
  Name,
  Loaders       \* how many searchers there are

ASSUME LoadersAssumption == Loaders \in Nat

VARIABLES
  loaded,       \* package.loaded: "nil", "false", "sentinel", "true", or a "value"
  calls,        \* the calls of require that are going on: the name, and the searcher
                \* that is next or, once the module's code runs, 0
  ran,          \* the names whose code was called, since it last gave false
  answer        \* what the last require returned, and for which name

loadervars == <<loaded, calls, ran, answer>>

toboolean(v) == v \notin {"nil", "false"}
top          == calls[Len(calls)]
Pop          == SubSeq(calls, 1, Len(calls) - 1)

\* The main program, or the code of a module.
InCode == calls # <<>> => top.loader = 0

\* The error goes through some calls of require, up to a pcall.
Throw(outer) == \E k \in 0..Len(outer) : calls' = SubSeq(outer, 1, k)

\* It is there, and perhaps not complete yet.
RequireLoaded(name) ==
  /\ InCode
  /\ toboolean(loaded[name]) /\ loaded[name] # "sentinel"
  /\ answer' = <<name, loaded[name]>>
  /\ UNCHANGED <<loaded, calls, ran>>

\* "loop or previous error loading module"
RequireLoop(name) ==
  /\ InCode
  /\ loaded[name] = "sentinel"
  /\ Throw(calls)
  /\ UNCHANGED <<loaded, ran, answer>>

Require(name) ==
  /\ InCode
  /\ ~toboolean(loaded[name])
  /\ calls' = Append(calls, [name |-> name, loader |-> 1])
  /\ UNCHANGED <<loaded, ran, answer>>

Searching == calls # <<>> /\ top.loader > 0

\* The searcher gives a message or nothing.
NotFound ==
  /\ Searching /\ top.loader <= Loaders
  /\ calls' = [calls EXCEPT ![Len(calls)].loader = @ + 1]
  /\ UNCHANGED <<loaded, ran, answer>>

\* Mutant: the entry is made when the code has run.
Found_NoSentinel ==
  /\ Searching /\ top.loader <= Loaders
  /\ calls' = [calls EXCEPT ![Len(calls)].loader = 0]
  /\ ran' = ran \cup {top.name}
  /\ UNCHANGED <<loaded, answer>>

\* The searcher gives a function, which is called.
Found ==
  /\ Searching /\ top.loader <= Loaders
  /\ loaded' = [loaded EXCEPT ![top.name] = "sentinel"]
  /\ calls' = [calls EXCEPT ![Len(calls)].loader = 0]
  /\ ran' = ran \cup {top.name}
  /\ UNCHANGED answer

\* A searcher raises an error (loaderror), or there are no more of them.
SearchFails ==
  /\ Searching
  /\ Throw(Pop)
  /\ UNCHANGED <<loaded, ran, answer>>

\* The code of a module may make its entry itself (ll_module).
SetsLoaded ==
  /\ calls # <<>> /\ top.loader = 0
  /\ loaded' = [loaded EXCEPT ![top.name] = "value"]
  /\ UNCHANGED <<calls, ran, answer>>

\* It returns; v is what.
Returns(v) ==
  /\ calls # <<>> /\ top.loader = 0
  /\ LET entry == IF v # "nil" THEN v ELSE loaded[top.name]
         final == IF entry = "sentinel" THEN "true" ELSE entry
     IN  /\ loaded' = [loaded EXCEPT ![top.name] = final]
         /\ answer' = <<top.name, final>>
         /\ ran' = IF final = "false" THEN ran \ {top.name} ELSE ran
  /\ calls' = Pop

\* ... or raises an error.
Raises ==
  /\ calls # <<>> /\ top.loader = 0
  /\ Throw(Pop)
  /\ UNCHANGED <<loaded, ran, answer>>

LoaderInit ==
  /\ loaded = [name \in Name |-> "nil"]
  /\ calls = <<>> /\ ran = {} /\ answer = <<>>

LoaderNext ==
  \/ \E name \in Name : RequireLoaded(name)
  \/ \E name \in Name : RequireLoop(name)
  \/ \E name \in Name : Require(name)
  \/ NotFound \/ Found \/ SearchFails \/ SetsLoaded
  \/ \E v \in {"nil", "false", "value"} : Returns(v)
  \/ Raises

LoaderSpec == LoaderInit /\ [][LoaderNext]_loadervars

-----------------------------------------------------------------------------
(* Properties.                                                             *)

LoaderTypeOK ==
  /\ loaded \in [Name -> {"nil", "false", "sentinel", "true", "value"}]
  /\ calls \in Seq([name : Name, loader : 0..Loaders + 1])
  /\ ran \subseteq Name
  /\ answer \in {<<>>} \cup (Name \X {"nil", "false", "sentinel", "true", "value"})

\* However modules require each other and fail, the code of a module is not
\* called again once it was called, unless it gave false, nor while it runs; and
\* require returns "the final value of package.loaded[modname]"
\* (manual.html:6406), which for a module that does not fail is never the sentinel.
LoadsOnce ==
  /\ \A i, j \in 1..Len(calls) : calls[i].name = calls[j].name => i = j
  /\ \A name \in Name : name \in ran <=> toboolean(loaded[name])
  /\ \A i \in 1..Len(calls) : calls[i].loader > 0 => calls[i].name \notin ran
  /\ answer # <<>> => answer[2] \notin {"nil", "sentinel"}

\* Only the last call may be at its searchers; the modules of the others run,
\* and have their entries: the sentinel, or what they set themselves.
Running ==
  /\ \A i \in 1..Len(calls) : calls[i].loader = 0 => loaded[calls[i].name] \in {"sentinel", "value"}
  /\ \A i \in 1..Len(calls) - 1 : calls[i].loader = 0

LoaderInv == LoaderTypeOK /\ LoadsOnce /\ Running
=============================================================================

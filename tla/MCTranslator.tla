---------------------------- MODULE MCTranslator ----------------------------
(* Few objects and few indices for TLC. *)
EXTENDS LuaTranslator, TLC

CONSTANTS a, b, g

\* No class overrides Equals.
Identity == [o \in Object |-> o]
=============================================================================

------------------------------ MODULE MCEngine ------------------------------
(* An instance of EngineProps for TLC. *)
EXTENDS EngineProps

CONSTANTS c1, c2, c3, h, w, r1

\* A handler, invoked and preloaded, and a WASI command, invoked.
MCPathOf == [c \in Calls |-> IF c \in {c1, c2} THEN h ELSE w]
=============================================================================

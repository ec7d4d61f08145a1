----------------------------- MODULE MCHostCall -----------------------------
(* An instance of HostCall for TLC. *)
EXTENDS HostCall, TLC

\* Two handlers that can call each other, a second name for the first one's
\* module, and a command.
MCFunctions == {"f", "alias", "g", "cmd"}
MCPathOf == [f \in Functions |-> IF f = "alias" THEN "f" ELSE f]
=============================================================================

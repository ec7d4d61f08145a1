--------------------------- MODULE MCInstancePool ---------------------------
(* Instances of InstancePool for TLC. *)
EXTENDS InstancePoolProps, TLC

CONSTANTS c1, c2, c3, c4, p1, p2, fa, fb, r1

\* One stored module deployed under two names (the store is content-addressed).
SharedPathOf == [c \in Calls |-> p1]
SharedNameOf == [c \in Calls |-> IF c = c2 THEN fb ELSE fa]
EvictPath == [r \in Removers |-> {p1}]

\* c3 runs the same name redeployed with another module: its instances take the
\* same names in Wazero. The remover is the engine's close, for all paths.
RedeployedPathOf == [c \in Calls |-> IF c = c3 THEN p2 ELSE p1]
RedeployedNameOf == SharedNameOf
CloseAll == [r \in Removers |-> Paths]
SameCalls == Permutations(Calls \ {c2, c3})
=============================================================================

---------------------------- MODULE MCDispatcher ----------------------------
(* Instances of Dispatcher for TLC. *)
EXTENDS DispatcherProps, TLC

CONSTANTS j1, j2, j3, j4, fa, fb

MCFunctions == {fa, fb}

\* One call under a limit of 1 and one call of a function without a limit.
MCFnOf == [j \in Jobs |-> IF j = j1 THEN fa ELSE fb]
MCLimitOf == [j \in Jobs |-> IF j = j1 THEN 1 ELSE 0]

\* fa was redeployed: calls still carry its old limit and its new one.
RedeployedFnOf == [j \in Jobs |-> fa]
RedeployedLimitOf == [j \in Jobs |-> IF j = j1 THEN 1 ELSE 2]
LimitRaised == [j \in Jobs |-> IF j \in {j1, j2} THEN 1 ELSE 2]

\* Worker identities are interchangeable, and so are j1 and j2.
WorkerSymmetry == Permutations(Workers)
Symmetry == WorkerSymmetry \cup Permutations({j1, j2})
=============================================================================

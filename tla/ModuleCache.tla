---------------------------- MODULE ModuleCache ----------------------------
(***************************************************************************)
(* What the engine promises about compiled modules, with no locks, pools,  *)
(* templates, timestamps or batches: a module is compiled at most once, is *)
(* the only one of its path that the cache serves, leaves the cache once   *)
(* and for good, and is closed once, after it has left or when everything  *)
(* is closed. An engine that has begun to close compiles nothing.          *)
(* Engine implements it (EngineProps!ImplementsCache).                     *)
(***************************************************************************)
CONSTANTS
  Modules,  \* the modules that may come to be
  PathOf    \* PathOf[m]: the path that m is compiled from

VARIABLES
  fate,     \* fate[m]: "unmade", then "cached", "leaving" and "gone"
  phase     \* the engine: "open", then "closing" and "released"

mvars == <<fate, phase>>

MInit ==
  /\ fate = [m \in Modules |-> "unmade"]
  /\ phase = "open"

Becomes(S, f) == fate' = [m \in Modules |-> IF m \in S THEN f ELSE fate[m]]

\* Two callers that miss together do not both compile.
Make(m) ==
  /\ phase = "open" /\ fate[m] = "unmade"
  /\ \A n \in Modules : PathOf[n] = PathOf[m] => fate[n] # "cached"
  /\ Becomes({m}, "cached")
  /\ UNCHANGED phase

\* The caller has no need of a module of its own, or cannot have one.
Forgo(m) ==
  /\ fate[m] = "unmade"
  /\ Becomes({m}, "gone")
  /\ UNCHANGED phase

\* An eviction takes what it chose out of the cache at once.
Retire(S) ==
  /\ \A m \in S : fate[m] = "cached"
  /\ Becomes(S, "leaving")
  /\ UNCHANGED phase

\* And closes it later, one after the other.
Shut(m) ==
  /\ fate[m] = "leaving"
  /\ Becomes({m}, "gone")
  /\ UNCHANGED phase

BeginClose ==
  /\ phase = "open" /\ phase' = "closing"
  /\ UNCHANGED fate

\* Whatever is left is closed with the runtime.
Release ==
  /\ phase = "closing" /\ phase' = "released"
  /\ Becomes(Modules, "gone")

MNext ==
  \/ \E m \in Modules : Make(m) \/ Forgo(m) \/ Shut(m)
  \/ \E S \in (SUBSET Modules) \ {{}} : Retire(S)
  \/ BeginClose \/ Release

MSafe == MInit /\ [][MNext]_mvars
=============================================================================

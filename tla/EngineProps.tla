---------------------------- MODULE EngineProps ----------------------------
(***************************************************************************)
(* What the engine must guarantee while calls, evictions and Close race.   *)
(***************************************************************************)
EXTENDS Engine

\* Every variable has its type; a path in the cache holds a module of its own.
TypeOK ==
  /\ pc \in [Calls -> CallStates]
  /\ mod \in [Calls -> Calls \cup {None}]
  /\ compiled \in [Paths -> Calls \cup {None}]
  /\ \A p \in Paths : Cached(p) => PathOf[compiled[p]] = p
  /\ fresh \subseteq {p \in Paths : Cached(p)}
  /\ open \subseteq Calls
  /\ templates \subseteq Paths /\ pools \subseteq Handlers
  /\ strays \subseteq Calls /\ foreign \subseteq pools
  /\ epc \in [Cleaners -> {"idle", "pool", "template", "module", "done"}]
  /\ batch \in [Cleaners -> SUBSET Calls]
  /\ \A r \in Cleaners : batch[r] # {} <=> epc[r] \notin {"idle", "done"}
  /\ life \in Lives /\ stopping \in BOOLEAN

CachedModules == {compiled[p] : p \in Paths} \ {None}

\* Compiled modules neither leak nor are closed under a cache entry, although
\* two calls may miss together and an eviction closes what it took long after it
\* unlocked: until the runtime is closed, a module is open exactly if it is in
\* the cache or with the one eviction that will close it (executor.go:320-350,
\* 363-380, 393-415, 719-745).
ModulesAccounted ==
  /\ life # "released" => open = CachedModules \cup UNION {batch[r] : r \in Cleaners}
  /\ \A r \in Cleaners : batch[r] \cap CachedModules = {}
  /\ \A r, s \in Cleaners : batch[r] \cap batch[s] # {} => r = s

\* r has yet to take the template of path p away.
Removes(r, p) ==
  \E m \in batch[r] : PathOf[m] = p /\ (m = Current(r) => epc[r] # "module")

\* A template stands for a module in the cache, or an eviction is about to remove
\* it; the one exception is a Preload of a handler, which records its template
\* again after it filled the pool (executor.go:273-283, 345-349).
TemplateIsBacked ==
  \A p \in templates :
    \/ Cached(p)
    \/ \E r \in Cleaners : Removes(r, p)
    \/ p \in Handlers /\ \E c \in Preloads : PathOf[c] = p /\ pc[c] = "returned"

\* Once Close has begun nothing enters the cache, not even for a call that had
\* found the engine open and was waiting for the lock (executor.go:304-325).
ClosingCachesNothing ==
  [][life # "open" => \A p \in Paths : compiled'[p] \in {compiled[p], None}]_vars

\* Pools and runtime are released after the reaper's last eviction and never
\* before, and no module is open afterwards (executor.go:202-220).
ReleasedForGood ==
  /\ life \in {"drained", "released"} => epc[Reaper] = "done"
  /\ life = "released" => open = {}

\* Close returns, whatever the reaper, evictions and calls are doing, unless a call
\* is blocked with the lock of the pool store (executor.go:202-219, 693-707;
\* proto_store.go:228, 281-284).
CloseReturns == life = "closed" ~> (life = "released" \/ ~StoreFree)

\* A module that may be scaled to zero and is not used is evicted, again and again,
\* until the engine stops or a call is blocked with the lock of the pool store, which
\* stops the reaper, directly or through e.mu (executor.go:325, 348, 693-737).
IdleIsEvicted ==
  \A p \in Paths :
    (Cached(p) /\ compiled[p] \in Expires /\ p \notin fresh)
      ~> (~Cached(p) \/ p \in fresh \/ stopping \/ ~StoreFree)

-----------------------------------------------------------------------------
(* The engine as a cache of modules. *)

\* Nothing has been compiled under the name of call m yet.
Unmade(m) == pc[m] \in {"start", "touch", "slow"}

\* What has become of the module that call m may compile.
Fate(m) ==
  IF life = "released" THEN "gone"
  ELSE IF Unmade(m) THEN "unmade"
  ELSE IF m \notin open THEN "gone"
  ELSE IF m \in CachedModules THEN "cached"
  ELSE "leaving"

Phase ==
  CASE life = "open" -> "open"
    [] life = "released" -> "released"
    [] OTHER -> "closing"

Cache == INSTANCE ModuleCache WITH
  Modules <- Calls,
  fate <- [m \in Calls |-> Fate(m)],
  phase <- Phase

\* Compiled modules come and go as ModuleCache says, although callers miss
\* together, several evictions and the reaper run at once, a module is closed long
\* after it left the cache, and Close overtakes callers that wait for the lock
\* (executor.go:202-220, 304-350, 363-415, 719-745).
ImplementsCache == Cache!MSafe
=============================================================================

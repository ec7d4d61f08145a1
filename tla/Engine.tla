------------------------------- MODULE Engine -------------------------------
(***************************************************************************)
(* The engine of internal/runtime/executor.go: its cache of compiled       *)
(* modules, the template records and instance pools that go with a module, *)
(* invocations and preloads, the reaper and the other evictions, and Close.*)
(*                                                                         *)
(* A section under e.mu is one step, and so is one call of the pool store  *)
(* or the template store. Compile asks the pool store for a size while it  *)
(* holds e.mu, and the pool store's own lock can be kept for ever: ensure  *)
(* sends to a pool's channel under it, and blocks when the pool was given  *)
(* back an instance that it had not lent (InstancePool). What else happens *)
(* inside a pool is InstancePool's subject: here a pool is there or not.   *)
(* Wazero is external: a module that was closed cannot be instantiated,    *)
(* and closing the runtime closes all.                                     *)
(*                                                                         *)
(* A compiled module is named by the call that compiled it. A definition   *)
(* marked (slip) is not part of the model but a plausible mistake in the   *)
(* one after it.                                                           *)
(***************************************************************************)
EXTENDS FiniteSets

CONSTANTS
  Calls,     \* invocations, and the functions that Preload goes through
  Preloads,  \* the latter
  Evictors,  \* calls of EvictFunction and EvictIdle
  Reaper,    \* the goroutine of reapIdleModules
  Paths,     \* paths of stored modules
  PathOf,    \* PathOf[c]: the module that call c runs
  Handlers,  \* the paths whose module has the complete handler ABI
  Malformed, \* those that export wasmdee_handle without the rest of that ABI
  Expires,   \* the calls whose module is scaled to zero when it is idle
  None

ASSUME EngineAssumption ==
  /\ PathOf \in [Calls -> Paths]
  /\ Preloads \cup Expires \subseteq Calls
  /\ None \notin Calls \cup Paths
  /\ Reaper \notin Evictors
  /\ Handlers \cap Malformed = {}

VARIABLES
  pc, mod,   \* where call c stands, the module that Compile returned while c needs it
  compiled,  \* compiled[p]: the module in e.compiled
  fresh,     \* the paths whose lastUsed is recent
  open,      \* the modules that are open in the runtime
  templates, \* the paths in the template store
  pools,     \* the paths in the pool store
  strays,    \* the invocations that run on an instance of a pool that was removed
  foreign,   \* the paths whose pool was given an instance that it had not lent
  epc,       \* where an eviction stands, and the reaper
  batch,     \* batch[r]: the modules it took out of the cache and has to close
  life,      \* how far Close has come
  stopping   \* the reaper is told to stop, by Close or by the engine's context

caching == <<compiled, fresh, open, templates>>
evicting == <<epc, batch>>
ending == <<life, stopping>>
pooling == <<pools, strays, foreign>>
vars == <<pc, mod, caching, pooling, evicting, ending>>

Cleaners == Evictors \cup {Reaper}
\* The last three are for ever: "sending" keeps the pool store's s.mu, "sizing"
\* keeps e.mu and waits for s.mu, "waiting" waits for s.mu.
CallStates == {"start", "touch", "slow", "ready", "fill", "record", "run", "returned",
               "sending", "sizing", "waiting"}
Lives == {"open", "closed", "signalled", "drained", "released"}

Init ==
  /\ pc = [c \in Calls |-> "start"]
  /\ mod = [c \in Calls |-> None]
  /\ compiled = [p \in Paths |-> None]
  /\ fresh = {} /\ open = {} /\ templates = {}
  /\ pools = {} /\ strays = {} /\ foreign = {}
  /\ epc = [r \in Cleaners |-> "idle"]
  /\ batch = [r \in Cleaners |-> {}]
  /\ life = "open" /\ stopping = FALSE

Goto(c, label) == pc' = [pc EXCEPT ![c] = label]
Got(c, m) == mod' = [mod EXCEPT ![c] = m]
Return(c) == Goto(c, "returned") /\ Got(c, None)

Cached(p) == compiled[p] # None
IsHandler(c) == PathOf[c] \in Handlers
IsCommand(c) == PathOf[c] \notin Handlers \cup Malformed

\* s.mu and e.mu can be taken: nobody is stuck with them.
StoreFree == \A c \in Calls : pc[c] # "sending"
CacheFree == \A c \in Calls : pc[c] # "sizing"

\* The step of c ends with a section under s.mu.
AfterStore(c, label) == Goto(c, IF StoreFree THEN label ELSE "waiting")

\* e.touch: the entry that the path has by now, if any, was just used.
Touched(c) == fresh' = IF Cached(PathOf[c]) THEN fresh \cup {PathOf[c]} ELSE fresh

-----------------------------------------------------------------------------
(* Compile *)

\* Preload passes over a function that does not ask for it, or fails to say.
PreloadSkips(c) ==
  /\ pc[c] = "start" /\ c \in Preloads
  /\ Return(c)
  /\ UNCHANGED <<caching, pooling, evicting, ending>>

CompileClosed(c) ==
  /\ pc[c] = "start" /\ CacheFree /\ life # "open"
  /\ Return(c)
  /\ UNCHANGED <<caching, pooling, evicting, ending>>

CompileHit(c) ==
  /\ pc[c] = "start" /\ CacheFree /\ life = "open" /\ Cached(PathOf[c])
  /\ Got(c, compiled[PathOf[c]])
  /\ Goto(c, "touch")
  /\ UNCHANGED <<caching, pooling, evicting, ending>>

\* After the RUnlock: the entry may be gone, or be another one. Then pools.size.
Touch(c) ==
  /\ pc[c] = "touch" /\ CacheFree
  /\ Touched(c)
  /\ AfterStore(c, "ready")
  /\ UNCHANGED <<mod, compiled, open, templates, pooling, evicting, ending>>

CompileMiss(c) ==
  /\ pc[c] = "start" /\ CacheFree /\ life = "open" /\ ~Cached(PathOf[c])
  /\ Goto(c, "slow")
  /\ UNCHANGED <<mod, caching, pooling, evicting, ending>>

\* (slip) no second look at e.closed under the write lock.
AnyLife == TRUE

StillOpen == life = "open"

SlowClosed(c) ==
  /\ pc[c] = "slow" /\ CacheFree /\ ~StillOpen
  /\ Return(c)
  /\ UNCHANGED <<caching, pooling, evicting, ending>>

\* (slip) no second look at the cache under the write lock.
AnyEntry(c) == TRUE

StillMissing(c) == ~Cached(PathOf[c])

\* pools.size is asked under e.mu, here and in SlowCompiles.
SlowHit(c) ==
  /\ pc[c] = "slow" /\ CacheFree /\ StillOpen /\ ~StillMissing(c)
  /\ Touched(c)
  /\ IF StoreFree THEN Got(c, compiled[PathOf[c]]) /\ Goto(c, "ready")
                  ELSE UNCHANGED mod /\ Goto(c, "sizing")
  /\ UNCHANGED <<compiled, open, templates, pooling, evicting, ending>>

\* The file cannot be read or does not compile.
SlowFails(c) ==
  /\ pc[c] = "slow" /\ CacheFree /\ StillOpen /\ StillMissing(c)
  /\ Return(c)
  /\ UNCHANGED <<caching, pooling, evicting, ending>>

\* (slip) the module is recorded before the policy is read.
RecordRefused(c) == templates' = templates \cup {PathOf[c]} /\ UNCHANGED open

\* compiled.Close: what was opened for a policy that does not decode.
CloseRefused(c) == UNCHANGED <<open, templates>>

SlowRefuses(c) ==
  /\ pc[c] = "slow" /\ CacheFree /\ StillOpen /\ StillMissing(c)
  /\ CloseRefused(c)
  /\ Return(c)
  /\ UNCHANGED <<compiled, fresh, pooling, evicting, ending>>

SlowCompiles(c) ==
  /\ pc[c] = "slow" /\ CacheFree /\ StillOpen /\ StillMissing(c)
  /\ compiled' = [compiled EXCEPT ![PathOf[c]] = c]
  /\ open' = open \cup {c}
  /\ fresh' = fresh \cup {PathOf[c]}
  /\ IF StoreFree
     THEN templates' = templates \cup {PathOf[c]} /\ Got(c, c) /\ Goto(c, "ready")
     ELSE UNCHANGED <<templates, mod>> /\ Goto(c, "sizing")
  /\ UNCHANGED <<pooling, evicting, ending>>

-----------------------------------------------------------------------------
(* Preload and Invoke, with the module that Compile returned. *)

\* Preload is done with a WASI command; a malformed handler is an error, and so
\* are arguments or a body that a handler does not take.
Leave(c) ==
  /\ pc[c] = "ready"
  /\ IF c \in Preloads THEN ~IsHandler(c) ELSE ~IsCommand(c)
  /\ Return(c)
  /\ UNCHANGED <<caching, pooling, evicting, ending>>

\* ensure finds or makes the pool and drops s.mu before it fills it.
Ensure(c) ==
  /\ pc[c] = "ready" /\ IsHandler(c) /\ StoreFree
  /\ pools' = pools \cup {PathOf[c]}
  /\ Goto(c, "fill")
  /\ UNCHANGED <<mod, caching, strays, foreign, evicting, ending>>

\* The pool is full, and an invocation has borrowed from it; or the pool is gone, a
\* new instance fails; or the wait for an instance, which needs no lock, times out.
Fill(c) ==
  /\ pc[c] = "fill"
  /\ \/ /\ StoreFree /\ PathOf[c] \in pools
        /\ Goto(c, IF c \in Preloads THEN "record" ELSE "run")
     \/ (StoreFree \/ c \notin Preloads) /\ Goto(c, "returned")
  /\ Got(c, None)
  /\ UNCHANGED <<caching, pooling, evicting, ending>>

\* The channel has no room for an instance that the count asked for.
FillBlocks(c) ==
  /\ pc[c] = "fill" /\ StoreFree
  /\ PathOf[c] \in foreign /\ mod[c] \in open
  /\ Goto(c, "sending") /\ Got(c, None)
  /\ UNCHANGED <<caching, pooling, evicting, ending>>

PreloadRecords(c) ==
  /\ pc[c] = "record"
  /\ templates' = templates \cup {PathOf[c]}
  /\ Return(c)
  /\ UNCHANGED <<compiled, fresh, open, pooling, evicting, ending>>

\* invokeWASI makes an instance for the call, if the module is still open.
Instantiate(c) ==
  /\ pc[c] = "ready" /\ c \notin Preloads /\ IsCommand(c)
  /\ mod[c] \in open
  /\ Goto(c, "run") /\ Got(c, None)
  /\ UNCHANGED <<caching, pooling, evicting, ending>>

InstantiateFails(c) ==
  /\ pc[c] = "ready" /\ c \notin Preloads /\ IsCommand(c)
  /\ CacheFree /\ Touched(c)
  /\ AfterStore(c, "returned") /\ Got(c, None)
  /\ UNCHANGED <<compiled, open, templates, pooling, evicting, ending>>

\* release looks the pool up by its path: it may be another than lent the instance.
GivesBack(c) ==
  foreign' = IF c \in strays /\ PathOf[c] \in pools THEN foreign \cup {PathOf[c]} ELSE foreign

\* e.touch, and then the release of a handler's instance.
Finish(c) ==
  /\ pc[c] = "run" /\ CacheFree
  /\ Touched(c)
  /\ AfterStore(c, "returned")
  /\ IF StoreFree THEN GivesBack(c) /\ strays' = strays \ {c}
                  ELSE UNCHANGED <<strays, foreign>>
  /\ UNCHANGED <<mod, compiled, open, templates, pools, evicting, ending>>

-----------------------------------------------------------------------------
(* EvictFunction, EvictIdle and evictExpired *)

\* Time passes: the path has not been used for long.
Age(p) ==
  /\ p \in fresh
  /\ fresh' = fresh \ {p}
  /\ UNCHANGED <<pc, mod, compiled, open, templates, pooling, evicting, ending>>

\* (slip) the idle time is compared the wrong way round.
JustUsed(p) == p \in fresh /\ compiled[p] \in Expires

HasExpired(p) == p \notin fresh /\ compiled[p] \in Expires

\* (slip) an entry is not asked for before it is evicted.
AnyPath(p) == TRUE

HasEntry(p) == Cached(p)

\* What EvictFunction takes out of the cache, EvictIdle and evictExpired.
EvictsFunction(p) == {p} \cap {q \in Paths : HasEntry(q)}
EvictsIdle == {p \in Paths : HasEntry(p) /\ p \notin fresh}
EvictsExpired == {p \in Paths : HasEntry(p) /\ HasExpired(p)}

\* What cleaner r may take out.
Choices(r) ==
  IF r = Reaper THEN {EvictsExpired} ELSE {EvictsIdle} \cup {EvictsFunction(p) : p \in Paths}

EvictNothing(r) ==
  /\ epc[r] = "idle" /\ CacheFree /\ r # Reaper /\ {} \in Choices(r)
  /\ epc' = [epc EXCEPT ![r] = "done"]
  /\ UNCHANGED <<pc, mod, caching, pooling, batch, ending>>

EvictAll(r, V) ==
  /\ epc[r] = "idle" /\ CacheFree /\ V # {}
  /\ batch' = [batch EXCEPT ![r] = {compiled[p] : p \in V}]
  /\ compiled' = [p \in Paths |-> IF p \in V THEN None ELSE compiled[p]]
  /\ fresh' = fresh \ V
  /\ epc' = [epc EXCEPT ![r] = "pool"]
  /\ UNCHANGED <<pc, mod, open, templates, pooling, ending>>

Evict(r) == \E V \in Choices(r) : EvictAll(r, V)

\* The modules of a batch are released one after the other.
Current(r) == CHOOSE m \in batch[r] : TRUE

\* The pools of P are closed; what they have lent stays with its borrowers.
ClosePoolsOf(P) ==
  /\ StoreFree
  /\ pools' = pools \ P /\ foreign' = foreign \ P
  /\ strays' = strays \cup {c \in Calls : pc[c] = "run" /\ IsHandler(c) /\ PathOf[c] \in P}

RemovePool(r) ==
  /\ epc[r] = "pool"
  /\ ClosePoolsOf({PathOf[Current(r)]})
  /\ epc' = [epc EXCEPT ![r] = "template"]
  /\ UNCHANGED <<pc, mod, caching, batch, ending>>

RemoveTemplate(r) ==
  /\ epc[r] = "template"
  /\ templates' = templates \ {PathOf[Current(r)]}
  /\ epc' = [epc EXCEPT ![r] = "module"]
  /\ UNCHANGED <<pc, mod, compiled, fresh, open, pooling, batch, ending>>

CloseModule(r) ==
  /\ epc[r] = "module"
  /\ open' = open \ {Current(r)}
  /\ batch' = [batch EXCEPT ![r] = @ \ {Current(r)}]
  /\ epc' = [epc EXCEPT ![r] = IF batch'[r] # {} THEN "pool"
                                         ELSE IF r = Reaper THEN "idle" ELSE "done"]
  /\ UNCHANGED <<pc, mod, compiled, fresh, templates, pooling, ending>>

ReaperStops ==
  /\ epc[Reaper] = "idle" /\ stopping
  /\ epc' = [epc EXCEPT ![Reaper] = "done"]
  /\ UNCHANGED <<pc, mod, caching, pooling, batch, ending>>

\* The context that the engine was made with ends before Close.
Cancel ==
  /\ ~stopping
  /\ stopping' = TRUE
  /\ UNCHANGED <<pc, mod, caching, pooling, evicting, life>>

-----------------------------------------------------------------------------
(* Close. A second call of Close returns at once and changes nothing. *)

CloseMarks ==
  /\ life = "open" /\ CacheFree
  /\ life' = "closed"
  /\ UNCHANGED <<pc, mod, caching, pooling, evicting, stopping>>

\* (slip) the reaper is awaited before it is told to stop.
WaitThenSignal == epc[Reaper] = "done"

SignalFirst == TRUE

CloseSignals ==
  /\ life = "closed" /\ SignalFirst
  /\ stopping' = TRUE
  /\ life' = "signalled"
  /\ UNCHANGED <<pc, mod, caching, pooling, evicting>>

\* (slip) Close does not wait.
NoWait == TRUE

ReaperDone == epc[Reaper] = "done"

ClosePools ==
  /\ life = "signalled" /\ ReaperDone
  /\ ClosePoolsOf(Paths)
  /\ life' = "drained"
  /\ UNCHANGED <<pc, mod, caching, evicting, stopping>>

\* rt.Close and cache.Close: every module and instance is closed.
CloseRuntime ==
  /\ life = "drained"
  /\ open' = {}
  /\ life' = "released"
  /\ UNCHANGED <<pc, mod, compiled, fresh, templates, pooling, evicting, stopping>>

-----------------------------------------------------------------------------
Compile(c) ==
  \/ CompileClosed(c) \/ CompileHit(c) \/ Touch(c) \/ CompileMiss(c)
  \/ SlowClosed(c) \/ SlowHit(c) \/ SlowFails(c) \/ SlowRefuses(c) \/ SlowCompiles(c)

Invoke(c) ==
  \/ Leave(c) \/ Ensure(c) \/ Fill(c) \/ FillBlocks(c)
  \/ Instantiate(c) \/ InstantiateFails(c) \/ Finish(c)

Preload(c) == PreloadSkips(c) \/ PreloadRecords(c)

Clean(r) == RemovePool(r) \/ RemoveTemplate(r) \/ CloseModule(r)

Close == CloseSignals \/ ClosePools \/ CloseRuntime

Finished ==
  /\ \A c \in Calls : pc[c] = "returned"
  /\ life = "released" /\ \A r \in Cleaners : epc[r] = "done"
  /\ UNCHANGED vars

\* When the store is blocked, everything may come to a stop.
Stuck == ~StoreFree /\ UNCHANGED vars

Next ==
  \/ \E c \in Calls : Compile(c) \/ Invoke(c) \/ Preload(c)
  \/ \E p \in Paths : Age(p)
  \/ \E r \in Cleaners : Evict(r) \/ EvictNothing(r) \/ Clean(r)
  \/ ReaperStops \/ Cancel \/ CloseMarks \/ Close
  \/ Finished \/ Stuck

Spec == Init /\ [][Next]_vars

(***************************************************************************)
(* Fairness. The reaper's ticker goes on and its goroutine runs, as does a *)
(* Close that has begun; a lock that is free is given to who waits for it, *)
(* and one that is kept for ever is not. Nothing is asked of calls and     *)
(* other evictions, nobody is obliged to close, and a path need not grow   *)
(* old.                                                                    *)
(***************************************************************************)
Fairness ==
  /\ WF_vars(Evict(Reaper)) /\ WF_vars(Clean(Reaper)) /\ WF_vars(ReaperStops)
  /\ WF_vars(Close)

FairSpec == Spec /\ Fairness
=============================================================================

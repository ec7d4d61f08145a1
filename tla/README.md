# Verification of wasmdee

wasmdee is a single-process serverless runtime for WebAssembly functions: an
HTTP gateway and a desktop application submit invocations to a dispatcher, whose
workers run them in an engine built on Wazero. This directory holds TLA+ models
of the runtime, the TLC runs that check them on small instances, and TLAPS
proofs of theorems about them. Paths below are relative to the repository root;
line numbers are those of the commit the models were written from.

## 1. Inventory

| component | source | state | operations | how it is reached |
|---|---|---|---|---|
| dispatcher | `internal/runtime/dispatcher.go` | RWMutex, bounded jobs channel, `closed`, `done`, worker count, per-function limiters, counters | `Submit`, `worker`/`handle`, `maybeScaleUp`, `tryRetireWorker`, `Close` | gateway and desktop call `Submit`; workers call `engine.Invoke`; shutdown calls `Close` |
| function policy | `internal/runtime/policy.go` | none | decode `max_concurrency`, preload, scale-to-zero | dispatcher and engine |
| telemetry | `internal/runtime/telemetry.go` | per-function counters and moving averages | `Record*`, `Snapshot` | dispatcher |
| instance pools | `internal/runtime/proto_store.go` | pool per module path: total, next number, channel of idle instances, `closed`, `createMu`; one store mutex | `ensure`, `acquire`, `release`, `remove`, `close` | engine (`invokeHandler`, `Preload`, eviction, `Close`) |
| template store | `internal/runtime/proto_store.go` | template record per path | `recordCompiled`, `touch`, `remove` | engine |
| engine | `internal/runtime/executor.go` | compiled modules by path, `closed`, reaper, counters | `Compile`, `Invoke`, `Preload`, `EvictFunction`, `EvictIdle`, reaper, `Close` | dispatcher workers, CLI, desktop |
| host calls | `internal/runtime/executor.go` | call stack in the context, two counters | `hostInvoke` | a running handler or command |
| registry | `internal/state/db.go` | process-wide SQLite handle, functions table | `GetDB`, `SaveFunction`, lookups | gateway, CLI, host calls, deployment |
| deployment | `internal/deploy/*.go` | content-addressed module files, registry rows | `Function`, `Application`, `LoadManifest` | CLI, desktop |
| gateway | `internal/cli/serve.go` | server, engine and dispatcher life cycle | start, invoke, shut down | HTTP clients |
| benchmark | `internal/cli/bench.go` | shared iteration index | `runMeasured` | CLI |
| desktop | `gui/app.go`, `gui/frontend` | handles of engine and dispatcher | start, invoke, deploy, shut down | Wails |
| others | `internal/config`, `internal/utils`, other commands, fixtures, tools | paths, log files | I/O | |

Interactions that matter: `Submit` hands a job to a worker over a channel and
waits for the answer on a second one; a worker calls the engine, which borrows an
instance from a pool over a third; the reaper removes modules and pools behind
the back of running invocations; a running handler can invoke another function
and holds its instance meanwhile; shutdown closes the dispatcher before the
engine.

What is hard: (a) the order of lock, channel and counter operations in the
dispatcher, which several goroutines interleave; (b) pools, templates and compiled
modules of one path, removed one after the other under three locks, while
invocations recreate them; (c) waits that end only by a timeout, or not at all;
(d) partial failures of instantiation, deployment and manifest application.

What makes each part correct: dispatcher - an accepted job runs exactly once and
is answered, a refused one never runs, limits and worker bounds hold, Close drains;
pools - exclusive use, no use of a closed instance, no leak, exact counts, every
wait ends; engine - at most one compiled module per path, nothing used after
close, no template without a module; host calls - depth and cycle bounds, no
wait for oneself; registry and deployment - a registered function has a valid
stored module, a manifest that fails has deployed a prefix of its entries, and a
look-up ends; gateway, desktop, benchmark - an accepted request is answered before
the engine goes, and the program ends.

## 2. Modules

| module | what it is |
|---|---|
| `Dispatcher` | the dispatcher, one action per uninterruptible section of code |
| `DispatcherProps` | its properties, the inductive invariant, the refinement mapping, and two statements of the docs that do not hold |
| `JobService` | what a client may rely on: a bounded, exactly-once job service |
| `DispatcherProofs`, `DispatcherCapacityProofs`, `DispatcherServiceProofs` | TLAPS proofs about the dispatcher: where a job is and that it runs once; workers, slots and limits; draining, the refinement and freedom from deadlock |
| `InstancePool`, `InstancePoolProps` | the pools, driven by invocations, preloads and evictions; their properties, the refinement mapping, and two statements of the docs that do not hold |
| `Leases` | what a caller of the pools may rely on: instances of its module, each lent to one call at a time, closed once and never seen again |
| `InstancePoolProofs`, `InstancePoolCountProofs` | TLAPS proofs about the pools: who has an instance; what a pool counts, the refinement of `Leases`, locks and deadlock |
| `Engine`, `EngineProps`, `EngineProofs` | the cache of compiled modules, templates, evictions, the reaper and Close; the properties and the refinement mapping; the proofs |
| `ModuleCache` | what the engine promises of compiled modules: each is made once, served alone for its path, retired once and closed once |
| `HostCall`, `HostCallProofs` | calls between functions in one process, with their properties; the proofs |
| `Deploy` | deployments: manifest, module store, registry rows, with their properties |
| `Host`, `HostProofs` | the programs around the runtime (gateway, desktop, benchmark) and the registry's handle, next to `Deploy`; the proofs |
| `MCDispatcher`, `MCInstancePool`, `MCEngine`, `MCHostCall`, `MCHost` | definitions for the TLC instances |

How they compose. `Dispatcher` is shown to implement `JobService`, and `Host` uses
`JobService` in its place: `Svc == INSTANCE JobService WITH Jobs <- Requests`, whose
actions are conjuncts of the actions of `Host`. `Host` extends `Deploy`, since
deployments run next to a gateway or inside the desktop and share the files and the
table with it. `InstancePool` is shown to implement `Leases`, and `Engine` to
implement `ModuleCache`; these two abstract modules have no pool objects, channels,
locks, batches or timestamps, and say what is left for a caller. `Engine` keeps of a
pool that it exists, which calls run on an instance of a pool that was removed, and
whether a pool was given such an instance back: from then on the pool store may
block, as `InstancePool` shows. `HostCall` keeps of an `ensure` only that it fills the
pool. `Host` has an engine that is open or closed and owes nothing: a job, and
`engine.Close`, may take for ever.

The models contain plausible mistakes marked "(slip)": definitions that are not
part of the model. Putting one in the place of the definition after it must
violate the property it is aimed at, which shows that the property can fail.

### Dispatcher and the code

`pc[j]` is the line at which call `j` of `Submit` stands. `SubmitEnter` and
`SubmitRefused` are lines 128-132; `LookupLimiter` is the section under
`limitsMu` and `AcquireSlot`/`RejectLimit` the select after it, kept apart
because a redeployment can replace the limiter between them; `Enqueue`,
`AbandonEnqueue` and `RejectFull` are the three cases of the first select;
`CountAccepted` is 148-150, after the job is visible to workers; `CheckBacklog`
reads the queue without the lock, `AnnounceScaleUp`, `ScaleUp` and
`DeclineScaleUp` take the write lock as Go's RWMutex does (announce, then wait
for readers); `Await` is the second select. `WorkerReceive`, `WorkerInvoke`,
`WorkerAnswer` and `WorkerFinish` are `handle` with its deferred release last;
`WorkerRetire` is the idle timer. `CloseLock`, `CloseJobs`, `CloseAgain` and
`CloseDone` are `Close`, which waits for the workers with the lock held.

Abstracted: requests and results are the identity of the call; a timer may fire
at any time; an unrecovered panic ends the process and is not modelled.
`engine.Invoke` is one step, and that it returns is an *assumption* of the liveness
properties (section 3), not something that the code guarantees: the call has a
timeout, but the pool store can block with its lock held, timeouts ignored
(`pool_store_blocks`). A `slots`
channel holds anonymous tokens; the model remembers whose they are, which is
sound because a token is only ever taken back by a call that put one. Telemetry's
`in_flight` is started minus completed. Config that `NewDispatcher` refuses is
excluded by the assumptions.

### InstancePool and the code

`EnsurePool` ... `EnsureSend` are `ensure` (163-231), `AcquirePool` ... `GiveUp`
are `acquire` (233-250), `HandlerReturns` and `HandlerFails` stand for the
handler call of `invokeHandler`, `ReleaseReused`, `ReleaseDiscarded` and
`CloseInstance` are `release` (252-274), `RemovePool`, `Drain` and `RemoveDone`
are `remove` and `close` (294-334). A section under `s.mu` is one step. The only
place where the mutex is held across a wait is the send at 228; there `mu` names
its holder and every other section waits for it. Pool objects and instances have
identities, so that an instance of an evicted pool can be told from one of its
replacement although the code looks pools up by path. Names matter because Wazero
refuses to instantiate a module under the name of a live one; `live` is Wazero's
table, which is outside the repository. When a context ends inside a handler,
Wazero closes the module at once, otherwise `release` does: both are modelled.
Instantiation may fail for any reason. A capacity mismatch (186-190) cannot occur
because one engine uses one pool size, and a closed pool in the map (182) cannot
either, which `TypeOK` states.

### Engine and the code

A section under `e.mu` is one step. `Compile` (296-350) is double-checked:
`CompileHit`, `CompileMiss` and `CompileClosed` are the look under the read lock,
`Touch` is the second critical section of a hit, `SlowHit` ... `SlowCompiles` are
the section under the write lock, with the file read, compilation and policy inside
it as in the code. `mod[c]` is the module that `Compile` returned and that the call
uses later without a lock; a module bears the name of the call that compiled it.
`Leave`, `Ensure`, `Fill`, `PreloadRecords`, `Instantiate` and `Finish` are
`Preload`, `Invoke`, `invokeWASI` and `invokeHandler` seen from the cache. `Evict`
is the locked part of `EvictFunction`, `EvictIdle` and `evictExpired` (`Choices` are
the sets of paths that each of them may take); for each module it took,
`RemovePool`, `RemoveTemplate` and `CloseModule` follow without the lock, in this
order. `CloseMarks` ... `CloseRuntime` are `Close`. Time is the set `fresh`: an
entry is recent until `Age` makes it old. The reaper may be stopped by `Close` or by
the context that the engine was made with.

The lock of the pool store, `s.mu`, is part of the model as far as it can be kept
for ever. An invocation that runs while its pool is removed is a `stray`; when it
gives its instance back (`GivesBack`, proto_store.go:252-274) and its path has a new
pool, that pool becomes `foreign`: its channel and its count need not agree any
more. A later `ensure` of that path can then block in the send at 228
(`FillBlocks`), with `s.mu` held. `StoreFree` says that this has not happened; every
step that takes `s.mu` - `Ensure`, `Fill` up to the wait for an instance,
`RemovePool`, `ClosePools`, and `pools.size` in `Touch`, `Finish` and
`InstantiateFails` - needs it, or stays `waiting`. `Compile` asks `pools.size` while
it holds `e.mu` (325, 348): with the store blocked it keeps `e.mu` for ever
(`sizing`), and `CacheFree` is what every step that takes `e.mu` needs. Whether a
foreign pool's channel is really full depends on counts that `InstancePool` keeps;
here it may or may not be. The hand-over of `s.mu` between calls that do release it
is one step per section, as everywhere. `Stuck` lets a blocked system stand still.
Wazero is external: a closed module cannot be instantiated, and closing the runtime
closes every module.

### HostCall and the code

A chain is one goroutine: `frames[r]` is the stack that `Invoke` keeps in the
context (448-458), with the phase of each frame. `Refuse`, `EnterCommand` and
`EnterHandler` are `Invoke` up to the pool, `Acquire` and `GiveUp` the wait for an
instance, `Call` and `CallRefused` are `hostInvoke` up to the nested `Invoke`,
`Return` and `RunFails` the end of a frame with the reply that its caller gets. A
frame's instance is given back or discarded when the frame ends, not before: a
caller keeps its own while it waits. `Expire` is the timeout of a frame, which ends
the frames above it too. The result word is arithmetic on halves of `HalfWord`, so
that a wrong shift shows as a wrong status. `Reply` counts a failure in one place
where the code has an `Add(1)` at each of its exits (625-672), so a counter that one
exit forgets would not show. Pools are never evicted here, and `ensure` is one step:
a module whose start code, which runs inside `ensure` with `createMu` held
(proto_store.go:193, 212), calls another function is left out. The depth check
counts the frames below the new one; the cycle check is by name, and two names may
share a module.

### Deploy and the code

A stored module is a path, named by content, that leads to a file of two halves:
`Truncate` is `OpenFile` with O_TRUNC, `WriteFirst` and `WriteSecond` the copy,
`WriteFails` its failure. `Validate` is `ValidateModule`, which returns nil
whatever `Compile` said; `ValidateFails` is the one way it fails (its engine does
not start), after which the path is removed. `RegisterFails` and `Save` are the
checks of names, routes and domains with the module already stored, and
`SaveFunction`. `Load` is `LoadManifest`, `Advance` and `SkipDisabled` are
`Application`'s loop. A deployer may stop at any point, which is a crash of the
command as well; nothing is rolled back in either case. Whether a name, route or
domain is well formed is an attribute of the entry, and a route may be missing, in
which case it is made from the name. The desktop preloads what it has deployed
(app.go:162), which changes the engine and nothing here, and is left out.

### Host and the code

`stage` is where `serveCmd`, `benchmarkWasm` or the desktop's start-up and shutdown
stand; the deferred calls of Go are the stages `closing`, `draining`, `engine`
and `exiting` in the order in which they run. `handle` is `db # nil`, which `GetDB`
reads without the lock; who finds none is `knocking`, waits for `dbMu` and then finds
the handle that another has set (`FindsOpen`) or runs `initDB`: `OpenDB`, `CreateTable`,
`AddColumns`, each of which may fail and release the lock (`OpenFails`, `InitFails`).
Since the handle is set before the table exists, a `Query` can run in between. A query
names the later columns and fails before the schema has them; it also fails, with the
schema complete, for any reason of the database's own (db.go:128-130, 150-152), and the
gateway answers 404 for every error alike (serve.go:172-175, 190-194). `Arrive`, `Submitted`,
`Refused` and `Answered` are the two HTTP handlers, the desktop's `InvokeFunction`
and a measured call; outcomes are HTTP status codes, the desktop and the
benchmark see the error they stand for. `Take` and `Measure` are a worker of
`runMeasured`. `net/http` is external: a request reaches a handler only while the
server serves, `Shutdown` returns nil when no handler is left and an error when
the grace period is over, and handlers that are left go on until the process
ends. A desktop whose start-up failed stays open but answers every call with that
error and holds no engine; `exited` stands for it.

## 3. Runs

| run | instance | shows |
|---|---|---|
| `dispatcher_safety` | 3 calls of one function, two under limit 1 and one under limit 2 after a redeployment, 1-2 workers over 3 identities, queue of 1, two calls of Close | `TypeOK`, `ExactlyOnce`, `NoSendOnClosedChannel`, `WorkerAccounting`, `FunctionLimit`, `SlotsMatchOutstanding`, `DrainedWhenDone`, `ClosingOnlyShrinks` |
| `dispatcher_liveness` | 3 calls, one of which does not decode, 2 workers, 1 Close, fair | `SubmitReturns`, `AcceptedIsAnswered`, `CloseReturns`, refinement of `JobService` |
| `dispatcher_limit_after_redeploy` | redeployed function | violation: two limiters together exceed the limit (docs/interview-defense.md:1811) |
| `dispatcher_closed_but_ran` | 3 cancellable calls | violation: a caller whose job ran gets ErrDispatcherClosed (dispatcher.go:18) |
| `pool_safety` | 3 invocations and a preload, two modules, two names, pool size 1, the engine's close | `TypeOK`, `ExclusiveUse`, `UsableIsOpen`, `NothingLeaks`, `CountsExactly`, `ClosedOnlyDrains`, refinement of `Leases` |
| `pool_liveness` | 3 invocations, pool size 2, no eviction, fair | `CallsReturn` |
| `pool_reentry` | 3 invocations, one eviction | violation: an evicted pool's instance enters the next pool (docs/interview-defense.md:1260) |
| `pool_store_blocks` | the same, fair | violation: the store blocks for ever with its mutex held (docs/interview-defense.md:1245) |
| `engine` | a handler, invoked and preloaded, and a command; one EvictFunction or EvictIdle, the reaper and Close, a pool store that can block, fair | `TypeOK`, `ModulesAccounted`, `TemplateIsBacked`, `ReleasedForGood`, refinement of `ModuleCache`, `CloseReturns`, `IdleIsEvicted` |
| `hostcall` | 2 chains over two handlers, an alias of one and a command; pools of 1, depth 3, 3 host calls, fair | `TypeOK`, `InstancesAccounted`, `ChainIsAcyclic`, `FailuresCounted`, `ChainsEnd` |
| `service` | each host with 3 requests and a deployment next to it, or 3 deployments that share names and contents | `TypeOK`, `RegisteredIsStored`, `ManifestIsPrefix`, `ServedOnOpenEngine`, `GracefulEndAnswersAll`, `MeasuredOnce`, `LookupsEnd`, `HostExits` |
| `deploy_validation` | one deployment of a file that is no Wasm | violation: it is registered (executor.go:418) |

Bounds. Sizes are the smallest at which every action happens and every resource runs
out. Dispatcher: a queue of 1 with three calls is full while a job runs; limit 1
with two calls refuses, and the third call's limit makes a second limiter; two
workers allow one scale-up and one retirement, and a third identity lets a spawn
precede the exit of a retired worker; two calls of Close make one of them second.
Pools: size 1 with three users makes one wait, one discard and one refill; after the
removal the same calls build the replacement. Engine: two calls of one path race to
compile it, and a third of another path gives EvictIdle a batch of two; each call
compiles at most once, so three calls bound the modules. One call that borrows, an
eviction, and a preload that fills the next pool suffice to block the store, with
the third call, the reaper and Close left to wait for it. The one evictor may take
what EvictFunction or EvictIdle takes, and races with the reaper; two evictors
multiply the states beyond what a run should cost, and the theorems of section 5 are
about any number. HostCall: two chains suffice for chains that wait for each other,
an alias for a chain that waits for itself, depth 3 for a third function between
two; `MaxHostCalls` bounds the calls that guests make, `HalfWord = 2` is the
smallest word with an empty and a non-empty output. Host: `Iterations = 3` requests
for two workers make one of them take twice, three requests exceed the `Capacity` of
2; `Alongside` names the deployer that runs next to a host (all three run together
when there is no host, in 3 entries, one of them disabled, with a name and a content
in common and a repeated route). Symmetry is used for identities that the constants
treat alike, in safety runs only. `pool_safety` and the two pool violations switch
deadlock checking off: the blocked store that `pool_store_blocks` exhibits is a
state in which the system really stops. No other run does.

Fairness. Go runs every runnable goroutine: weak fairness on the next step of
each call, worker and closer. `sync.Mutex` hands itself over to a waiter after
1 ms and `sync.RWMutex` lets waiting readers in after a writer and holds new
readers off for a waiting writer, hence strong fairness on the steps that take
one. Nothing is assumed to be cancelled, evicted, retired or closed.

* Dispatcher: it is *assumed that `engine.Invoke` returns*. It runs under a timeout,
  and in a guest Wazero enforces it, but the wait for the pool store's lock ignores it.
  So `SubmitReturns`, `AcceptedIsAnswered`, `CloseReturns` and the liveness half of
  `ImplementsService` say of the dispatcher that it adds no wait of its own: they hold
  as long as no call meets a blocked store, and the code guarantees that only until the
  first eviction of a path in use (`CountsExactly`, `OnlyForeignBlocks`).
* Pools: handlers return, and waits for an instance end, by their timeouts; whoever has
  the mutex and can go on does. `CallsReturn` is about runs without evictions.
* Engine: the reaper's ticker goes on, so its evictions are weakly fair, and so is a
  `Close` that has begun; these steps are disabled while the store is blocked, and no
  fairness helps then. Calls and other evictions owe nothing, nor does anyone have to
  begin `Close`. `CloseReturns` and `IdleIsEvicted` therefore say: or a call is
  blocked with the store's lock. Without that exception both are false.
* HostCall: a goroutine that can run runs, and the timeout of the outermost invocation
  comes (`inv.Timeout`, which the dispatcher always sets). Without evictions the store
  does not block.
* Host: the main goroutine outside the engine, the look-ups (`database/sql` answers, be it
  with an error), the benchmark's workers, and those of its calls that wait for nobody.
  Nothing of jobs and nothing of `engine.Close` or `engine.Preload`, which may take for
  ever; nothing of the gateway's handlers after their look-up, which may hang on their
  clients; nothing of deployments. `HostExits` has the two exceptions that this
  leaves: a host that ends stays for ever in the drain (or the benchmark in its
  measurement) with a job accepted that the engine does not finish, or in
  `engine.Close`. TLC refutes the property without either of them.

## 4. What the violations mean

* Limits after a redeployment. A call that looked a limiter up before another call
  replaced it takes its slot from the old one afterwards (dispatcher.go:272-281);
  the two limiters together admit more than either limit.
* Closed but ran. After a drain both the result and `done` are ready and the select
  picks either; the gateway may answer 503 for work that was done.
* Re-entry and blocking. `release` finds a pool by path only. An instance borrowed
  before an eviction is pushed into, or subtracted from, the pool that replaced
  it. Then the channel can be full while `total` is below the size; the next
  `ensure` sends to it with the mutex held and never returns, and every operation
  on any pool waits behind it, timeouts included. `CountsExactly` shows that this
  cannot happen to a path that was never evicted. What it costs the rest: the reaper
  stops in `pools.remove`, `Compile` stops in `pools.size` with `e.mu` held, so that no
  call gets at the cache, jobs do not return, and with them `dispatcher.Close`,
  `engine.Close` and the host. `CloseReturns` and `IdleIsEvicted` of `Engine` and
  `HostExits` except these states and no others.
* Validation. `ValidateModule` assigns the compiler's verdict and returns nil
  (executor.go:426-427): a file that is no Wasm is stored and registered, and
  fails at its first invocation.

What the properties that hold had to leave room for is worth as much notice; a defect
that is an exception of a property is not found by it.

* `TemplateIsBacked` excepts a handler that a Preload has recorded: `Preload` records
  its template again after it filled the pool (283), and an eviction in between leaves
  a template without a module. The other way round, a module that is compiled anew
  while an eviction of the same path goes on loses its template to that eviction (374):
  no property excludes it. Templates are only shown.
* `RegisteredIsStored` excepts a module that another deployment of the same content is
  rewriting, or failed to rewrite or to validate: it truncates or removes the file that
  a deployed function runs from (deploy.go:75, 88). What the property says is that
  nothing else damages a stored module.
* The gateway answers 404 for every error of a look-up, where
  docs/documentation/api-reference/introduction.mdx:46 says "Function not found in
  registry": a database that is busy, and, in a gateway without `--preload` that gets its
  first requests together, a handle that is visible before the schema (db.go:240). So a
  deployed function can get a 404, and no property excludes it. `ListedIsReady` shows
  that a host which lists the functions at start-up does not meet the second case.
* `ServedOnOpenEngine` holds even when handlers are cut off, since `dispatcher.Close`
  waits for the workers; when a worker does not come back, the host waits for ever
  (`HostExits`) rather than close the engine under it.
* Names. An instance is named after its function and a number that starts from 1 in each
  pool, so two modules of one name can collide. `InstancePool` has the collision
  (`NameTaken`) and `pool_safety` reaches it; `CallsReturn` is checked with one path,
  where it cannot occur.

## 5. Proofs

`DispatcherProofs` proves, for every set of calls, workers, closers and
functions and every configuration that satisfies `ConfigAssumption`,
`CallAssumption` and `IdentityAssumption`:

* `TypeCorrect`: `Spec => []TypeOK`.
* `NeverSendsOnClosedChannel`: from `LockInv` - the readers are exactly the calls
  between RLock and RUnlock, and there are none once `closed` is set.
* `Invariance`: `Spec => []Inv`, with `Inv` the conjunction of `TypeOK`,
  `LockInv`, `PlaceInv` (a job that was sent is in at most one place, and one that
  was not sent is nowhere) and `RunInv` (what was run and answered follows from
  where the job is).
* `RunsExactlyOnce`: `ExactlyOnce` alone is not inductive - that a job runs once
  depends on its being in one place - and follows from `Inv`.

Each invariant has an Init lemma and a Next lemma with a case per action;
`Classify` collects the steps that move no job, so that `PlaceInv` and `RunInv`
need detail only for the send and the four steps of a worker.

`DispatcherCapacityProofs` goes on with what is counted. `WorkerInv` adds to
`WorkerAccounting` that fewer workers than the minimum are left only when the
channel is empty: that is what a worker needs to have seen before it ends, and it
gives the drain. `SlotInv` adds to `SlotsMatchOutstanding` that the slots of a
limiter are with calls that looked it up, at most as many as its limit. `LimitInv`
says which limiter a call can have: the one in the map, as long as its function's
limit does not change. `WorkersAreCounted`, `SlotsAreNeverLeaked` and
`FunctionLimitsHold` follow; the last needs `Inv` too, since a queued or running
job must still have its slot. `ClosedOnlyShrinks` (`ClosingOnlyShrinks`) is proved
of every step.

`DispatcherServiceProofs` adds `CloseInv` (a Close that waits has closed the
channel, one that is done left no worker) and `CountInv` (each counter is the
cardinality of the set of jobs it is about, so that a step which counts is compared
with the one job that it moves), from which `CloseDrains` (`DrainedWhenDone`)
follows. `IsJobService` is the safety half of the refinement: the initial states
of the dispatcher are those of `JobService`, and each of its steps is an admission,
a refusal, a run, a stop or a stutter of it. The status of a job in `JobService` is
defined by cases, which `Inv` makes disjoint.

`NobodyDeadlocks` says that some call, worker or Close that has begun can always take
a step while one has not ended. Its hypothesis is a goroutine identity for each of
`MaxWorkers` workers, without which the model, and not the code, would refuse to
spawn. A step is possible when its guard holds: `CallMoves`, `WorkerMoves` and
`CloserMoves` spell the guards out, since ENABLED is out of the prover's reach (TLC
finds them equal to ENABLED of the steps they stand for in every state of
`dispatcher_liveness`).
`WriterInv` - whoever holds or awaits `d.mu` for writing stands where he takes or
releases it - is what `Inv`, `WorkerInv` and `CloseInv` lack. The argument: a writer
waits only for readers, and a reader always has a next step that needs no lock; a
Close waits with the lock held for workers that never take it; a call waits for an
answer that is in the queue, where a worker is left to take it, or on its way.

`InstancePoolProofs` proves, from `SizeAssumption` and `UseAssumption`, that `IInv`
is inductive: `Shape` (`TypeOK`; a pool object was made by a call of its path that
has started, so a call that has not can make a new one; a call blocked on a full
channel has the mutex, so its pool stays open), `Numbered` (no instance has a
number that its pool has still to give out, so a reservation names a new one),
`NotYetOpen`, and the properties `ExclusiveUse`, `UsableIsOpen` and `NothingLeaks`,
which need each other: closing one instance leaves the others open because nobody
else has it. `OneUserEach`, `NeverUsesClosed` and `NoInstanceLeaks` follow, and
`NeverSendsOnClosed` (`ClosedOnlyDrains`) holds of every step under `Shape`.
Re-entry of an evicted pool's instance, which `pool_reentry` exhibits, is covered:
the instance is in the wrong pool, but still in one place only, open and not lost.

`InstancePoolCountProofs` proves `PoolsCountExactly` (`CountsExactly`). Inductive is
`CountInv`: with `Homes` (calls, pools and instances keep to one path, so that one
path cannot disturb the counter of another), `Settled` (before its first eviction
a path has one pool, with which all its calls work and from which all its
instances come) and `Fresh` (a pool not made yet is empty). `CountedByOne` reduces
a step to the one call that moves, and `CountsOwnCall` compares its place before
and after with the change of the counter and of the channel.

`PoolsLend` (`ImplementsLeases`) is the refinement of `Leases`, from `LendInv`,
which adds to the two invariants above `OneRecord` (of what is anywhere, a pool and
a number name one instance), `DrainsEvicted` (only an evicted path has a pool that
is being drained) and `OneShelf` (of the pools of a path only the one in the map has
idle instances to offer). Without `OneShelf` a call could be lent an instance from a
pool that nobody finds any more, and the count of a path that was never evicted
could not be read off its shelf. From the same invariants: `OwnModuleOnly` (an
instance is of the module its call named), `NoReentryUntilEvicted` (the statement of
the docs that `pool_reentry` refutes holds of a path until it is evicted), and, with
`LocksHeld` (who has the mutex and who a pool's `createMu`), `OneFillsAPool`,
`StopsOnlyOnSend` (if no call can move although some have not returned, one keeps
the mutex while it waits for room in a full channel: the state that
`pool_store_blocks` finds is the only kind) and `MovesUntilEvicted` (before the
first eviction some call can always move).

`EngineProofs` proves, from `EngineAssumption`, that `IInv` is inductive:
`TypeOK`, `Owned` (ModulesAccounted module by module: open exactly if cached or in
a batch), `Apart` (batches are disjoint from the cache and from each other),
`Named` (a call that has not compiled owns no module, so that a compilation
adds a new one) and `ReleasedForGood`. Without `Named` the step that compiles could
reopen a module that an eviction holds; without `Apart` one eviction could close
what another or the cache still has. `TypeCorrect`, `NoModuleLeaks`
(`ModulesAccounted`) and `ClosedForGood` (`ReleasedForGood`) follow, and
`NothingCachedLate` (`ClosingCachesNothing`) is proved of every step under it.
`TemplatesAreBacked` (`TemplateIsBacked`) needs `TInv`: `Backed`, path by path, and
that only a Preload of a handler records a template again. An eviction takes over
what the cache backed; a compilation in between backs the template anew, and when
the eviction removes it nothing has to back it.
`EngineCaches` (`ImplementsCache`) is the refinement of `ModuleCache`. `FateIs` says
that under `IInv` a module's fate is its place: cached, in a batch, or closed; a
call that goes on without compiling forgoes its module, and after the runtime is
released every step is a stutter. `HandedAnOpenModule` and `OnlyItsEvictionCloses`
are two consequences for callers: `Compile` returns a module of the right path that
is open at that moment, and afterwards only the eviction that took it, or Close, can
have closed it. That the call still finds it open is not promised, nor true
(`InstantiateFails`).

Two theorems are about what can be blocked. `OnlyForeignBlocks`: whoever keeps `s.mu` or
`e.mu` for ever does so because of a call that fills a pool which was given an
instance that it had not lent (`BInv`); such a pool stays in the map, since removing it
needs the lock. `CloseCanGoOn` is the safe
half of `CloseReturns`: a Close that has begun can take its next step, or the reaper
can, which was told to stop before Close waits for it (`ToldFirst`), or such a call has
the store blocked. Close and the reaper never block each other.

`HostCallProofs` proves, from `HostCallAssumption`, `ChainsAreAcyclic`: that the
names of a chain are distinct, apart from a last frame that is still to be
checked, is inductive with the shape of the chains and the phases of their
frames. `CountersAgree` rests on `PackIsExact`: for every size below `HalfWord` the
status read from a packed word is the one that was packed. `InstancesAreAccounted`
(`InstancesAccounted`) is inductive as `PoolInv`: the frames that run in a pool are a
finite set, since chains are bounded, and each step adds or removes one frame, or the
frames of one chain together with their instances. `CallsAreAccounted`
(`FailuresCounted`) is inductive as `CallInv`: the host calls made are those that
succeeded, those that failed and the frames above the first of their chain.
`TypeCorrect` needs both, and that all frames but the last of a chain run (`Chains`)
and pools keep within their size (`Bounds`).

Chains can wait for each other: that is why `ChainsEnd` needs the timeout. Two
theorems say when they do not. Both suppose `OwnModules` (two handlers never share
a module; the check for cycles is by name, and an alias defeats it). `NoSelfWait`:
then no chain waits for an instance of a pool that it has borrowed from itself.
`PoolsSuffice`: if moreover at most `Size` chains are under way at any time (`Few`,
which is the dispatcher's `MaxWorkers` up to the pool size), whoever waits finds an
idle instance, at any depth of nesting, as long as no pool is evicted (this model has no
evictions). The invariant is `WaitInv`: a pool
has an idle instance for each chain that waits for it; `OneEach` (a chain has at most
one frame in a pool) makes the count work. It turns
the remark of docs/interview-defense.md:2087, that more workers than instances
increase the waiting, into the bound below which there is none.

`HostProofs` proves, from `HostAssumption` and `DeployAssumption`, that `IInv` is
inductive: the types of requests and jobs, `Stages` (which stages have an open
engine and an open dispatcher), `JobsInTime` (no job before its request, none left
once the dispatcher has stopped) and `Grace` (no handler left in a gateway that
ended in time). `JobsRunOnOpenEngine` (`ServedOnOpenEngine`) and `GraceAnswersAll`
(`GracefulEndAnswersAll`) follow. Deployments touch none of these variables, which
one lemma says for all their steps. About the rest of the state it proves:

* Deployments. `DInv`: the entry at which a deployer stands has been checked
  (`Standing`), paths of different contents lead to different files (`Stored`, which
  uses `NoneAssumption`), and each half of a stored file is there or being written,
  unless a deployment of that content broke off (`SoundOrBroken`). Hence
  `ModulesAreStored` (`RegisteredIsStored`). `RowsOfEntries`, with the distinct names
  and routes that `LoadManifest` has checked, gives `ManifestsArePrefixes`
  (`ManifestIsPrefix`).
* Benchmark. `BInv`: an iteration below the index is with exactly one worker or was
  measured, one from the index on is neither, and a worker returns only beyond the
  last. Hence `EachMeasuredOnce` (`MeasuredOnce`).
* Registry. `ReadyInTime`: a host that lists the functions at start-up has a handle,
  nobody in `initDB` and a complete schema before its first request. Hence
  `ListedIsReady`. What a query can still fail for is the query itself.
* Answers. `AnswersInv`: an outcome agrees with the place of the request's job. Hence
  `AnswersBelievable` (a result means that the job ran; 400, 404 or 429 that it never
  did; 503 that it is over, run or not), `OneAnswer` (an answer never changes) and
  `SafeToSendAgain` (a job refused with 400, 404 or 429 is never admitted later: a
  client that sends again runs its function once). The benchmark needs `Taken`: its
  iterations begin when a worker takes them, and never before.
* Progress. `HostNeverStuck`, the safe half of `HostExits`: only the engine can hold up
  a host that is neither serving nor gone. It can go on, or is in the engine (a
  Preload, the warm-up, `engine.Close`), or drains jobs that the engine has, or every
  worker of the benchmark that has not returned can go on or has a job that the engine
  has. It needs nearly all of the above: what a waiting worker's call waits for
  (`AnswersInv`, `Taken`, `BInv`), that a drain waits only for jobs (`Draining`), and who
  may be in `initDB` while the host lists (`ReadyInTime`). Guards stand for ENABLED as in
  `NobodyDeadlocks`.
* Types. `HostTypes`, and `IndexBounded`: the index passes the last iteration once
  for each worker that returns, of which there are finitely many. Hence
  `TypeCorrect`.

So every safety invariant and every action property that a passing run checks is
also proved, for every value of the constants. Some theorems state formulas that no
run lists: `NobodyDeadlocks`, `OnlyForeignBlocks`, `CloseCanGoOn`, `ListedIsReady`,
`HostNeverStuck`, `PoolsSuffice`, `NoSelfWait`, the ones on locks, on answers and on
what Compile returns, and `ClosingCachesNothing`, which the refinement of
`ModuleCache` contains. TLC found these, and the inductive invariants, true on the
instances of section 3 before they were proved (`PoolsSuffice` and `NoSelfWait` on
instances that satisfy their hypotheses). Only model-checked is liveness, with the
liveness half of the refinement: fairness is stated with ENABLED, which is out of
the prover's reach.

## 6. Not modelled, and the plan

Not modelled: floating-point averages, HTTP parsing and JSON, terminal and GUI
presentation, log files and paths, the benchmark's cold runs, percentiles and
reports, test fixtures and tools: I/O or arithmetic with no protocol. An
unrecovered panic in `engine.Invoke` ends the process; there is no state after it.
`CloseDB` has no caller outside the tests. Handlers that only show state
(`/healthz`, `/runtime`, `/functions`, `RuntimeSnapshot`) read counters one by one,
and nothing depends on their agreement.

What is left to model. Evictions under nested host calls, and what a blocked store does
to a chain; start code that calls functions. A `Host` composed with `Dispatcher` and
`Engine` in place of their abstractions would replace the two exceptions of `HostExits` by
their cause.

What is left to prove. Fairness apart, the progress theorems say that somebody can
move, not that the moves come to an end: a measure that each step of the reaper, of a
draining dispatcher and of a chain lowers would say so without ENABLED. Evictions next
to nested host calls, which `PoolsSuffice` leaves out, need a module that composes
`HostCall` with `InstancePool`.

Liveness stays with TLC, at the bounds of section 3. Larger
instances would add little to what the theorems say for every size, but four calls
in `dispatcher_liveness` and a second path in `pool_liveness` would widen what TLC
says of waits. The parts listed above have no protocol of their own to model. A
change of the code starts at the definition whose lines it touches (`map` in
PROJECT.json), and its cost shows first in the lemma of that action.

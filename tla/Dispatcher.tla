----------------------------- MODULE Dispatcher -----------------------------
(***************************************************************************)
(* The bounded invocation scheduler of internal/runtime/dispatcher.go.     *)
(*                                                                         *)
(* Callers of Submit, worker goroutines and callers of Close interleave.   *)
(* An action is the longest piece of a goroutine's code that nothing else  *)
(* can observe half-way; Submit takes up to seven of them, because a       *)
(* worker may run, answer and even retire between any two.                 *)
(*                                                                         *)
(* One element of Jobs is one call of Submit and the dispatchJob it makes. *)
(* Jobs is finite: it bounds how many calls a behaviour contains.          *)
(*                                                                         *)
(* A definition marked (slip) is not part of the model: it is a plausible  *)
(* mistake in the definition after it, there to be put in its place to see *)
(* that a property notices.                                                *)
(***************************************************************************)
EXTENDS Integers, Sequences, FiniteSets

CONSTANTS
  Jobs,         \* the calls of Submit
  Workers,      \* worker goroutines; an exited one is reused by a later spawn
  Closers,      \* the calls of Close
  Functions,    \* names of deployed functions
  FnOf,         \* FnOf[j]: the function call j invokes
  LimitOf,      \* LimitOf[j]: max_concurrency in the policy that call j carries
  BadPolicy,    \* the calls whose stored policy does not decode
  Cancellable,  \* the calls whose context may be cancelled
  MinWorkers, MaxWorkers, QueueSize,
  None          \* no job, no limiter, no writer

\* What NewDispatcher refuses (dispatcher.go:96-104) cannot be an instance.
ASSUME ConfigAssumption ==
  /\ MinWorkers \in Nat \ {0}
  /\ MaxWorkers \in Nat /\ MaxWorkers >= MinWorkers
  /\ QueueSize \in Nat \ {0}

ASSUME CallAssumption ==
  /\ FnOf \in [Jobs -> Functions]
  /\ LimitOf \in [Jobs -> Nat]
  /\ BadPolicy \subseteq Jobs
  /\ Cancellable \subseteq Jobs

ASSUME IdentityAssumption ==
  /\ IsFiniteSet(Jobs) /\ IsFiniteSet(Workers)
  /\ Cardinality(Workers) >= MinWorkers
  /\ None \notin Jobs \cup Workers \cup Closers
  /\ Jobs \cap Closers = {}

VARIABLES
  pc,        \* pc[j]: where call j of Submit stands
  outcome,   \* outcome[j]: what it returned
  ctxDone,   \* the calls whose context is cancelled
  readers,   \* the calls that hold d.mu for reading
  writer,    \* who holds, or has announced that it wants, d.mu for writing
  queue,     \* d.jobs
  answered,  \* the jobs whose result is in, or was taken from, job.res
  limits,    \* limits[f]: the functionLimit in d.limits, named by its creator
  limiter,   \* limiter[j]: the functionLimit call j looked up
  slots,     \* slots[o]: the calls that hold a slot of functionLimit o
  wstate,    \* wstate[w]: where worker w stands
  wjob,      \* wjob[w]: the job worker w handles
  runs,      \* runs[j]: how often engine.Invoke ran job j
  closed, done, cpc,
  accepted, rejected, completed, active, scaleUps, scaleDown,
  tel        \* tel[f]: the counters of telemetry.go for function f; its in_flight
             \* changes only with two of them, and is started - completed

vars == <<pc, outcome, ctxDone, readers, writer, queue, answered, limits, limiter,
          slots, wstate, wjob, runs, closed, done, cpc, accepted, rejected,
          completed, active, scaleUps, scaleDown, tel>>

\* What the steps of Submit (but for the spawn), of a worker and of Close never touch.
submitFrame == <<ctxDone, wstate, wjob, answered, runs, closed, done, cpc,
                 completed, active, scaleUps, scaleDown>>
workerFrame == <<pc, outcome, ctxDone, readers, writer, limits, limiter, closed,
                 done, cpc, accepted, rejected, scaleUps>>
closeFrame  == <<pc, outcome, ctxDone, readers, queue, answered, limits, limiter,
                 slots, wstate, wjob, runs, accepted, rejected, completed, active,
                 scaleUps, scaleDown, tel>>

CallStates   == {"called", "admit", "slot", "send", "sent", "scale", "scaling",
                 "wait", "returned"}
Refusals     == {"closed", "policy", "limit", "full", "cancelled"}
Outcomes     == {"none", "result", "ctx", "done"} \cup Refusals
WorkerStates == {"off", "idle", "busy", "ran", "answered", "retired"}
CloserStates == {"idle", "called", "locked", "draining", "returned"}
Counters     == {"accepted", "rejected", "started", "completed"}

-----------------------------------------------------------------------------
\* NewDispatcher spawns MinWorkers workers.
Init ==
  \E started \in SUBSET Workers :
    /\ Cardinality(started) = MinWorkers
    /\ wstate = [w \in Workers |-> IF w \in started THEN "idle" ELSE "off"]
    /\ pc = [j \in Jobs |-> "called"]
    /\ outcome = [j \in Jobs |-> "none"]
    /\ ctxDone = {}
    /\ readers = {} /\ writer = None
    /\ queue = <<>>
    /\ answered = {}
    /\ limits = [f \in Functions |-> None]
    /\ limiter = [j \in Jobs |-> None]
    /\ slots = [o \in Jobs |-> {}]
    /\ wjob = [w \in Workers |-> None]
    /\ runs = [j \in Jobs |-> 0]
    /\ closed = FALSE /\ done = FALSE
    /\ cpc = [c \in Closers |-> "idle"]
    /\ accepted = 0 /\ rejected = 0 /\ completed = 0
    /\ active = MinWorkers /\ scaleUps = 0 /\ scaleDown = 0
    /\ tel = [f \in Functions |-> [n \in Counters |-> 0]]

-----------------------------------------------------------------------------
(* Submit. *)

\* telemetry.RecordAccepted, RecordRejected, RecordStarted, RecordCompleted.
CountFor(j, counter) == tel' = [tel EXCEPT ![FnOf[j]][counter] = @ + 1]

Goto(j, label) == pc' = [pc EXCEPT ![j] = label]

Return(j, result) ==
  /\ Goto(j, "returned")
  /\ outcome' = [outcome EXCEPT ![j] = result]

\* (slip) a return path without d.mu.RUnlock().
KeepRLock(j) == UNCHANGED readers

RUnlock(j) == readers' = readers \ {j}

\* job.releaseLimit receives one token from the slots of the job's limiter; a
\* job without a limiter holds no slot and its releaseLimit does nothing.
ReleaseLimit(j) == slots' = [o \in Jobs |-> slots[o] \ {j}]

\* The caller's context ends: its client went away.
Cancel(j) ==
  /\ j \in Cancellable \ ctxDone
  /\ pc[j] # "returned"
  /\ ctxDone' = ctxDone \cup {j}
  /\ UNCHANGED <<pc, outcome, readers, writer, queue, answered, limits, limiter,
                 slots, wstate, wjob, runs, closed, done, cpc, accepted, rejected,
                 completed, active, scaleUps, scaleDown, tel>>

\* d.mu.RLock() waits for a writer that holds or has announced the lock, and
\* ignores the context while it waits. `closed` cannot change under the lock.
SubmitRefused(j) ==
  /\ pc[j] = "called" /\ writer = None /\ closed
  /\ Return(j, "closed")
  /\ UNCHANGED <<readers, writer, queue, limits, limiter, slots, accepted,
                 rejected, tel, submitFrame>>

SubmitEnter(j) ==
  /\ pc[j] = "called" /\ writer = None /\ ~closed
  /\ readers' = readers \cup {j}
  /\ Goto(j, "admit")
  /\ UNCHANGED <<outcome, writer, queue, limits, limiter, slots, accepted,
                 rejected, tel, submitFrame>>

\* Count the refusal, tell telemetry, unlock, return.
Reject(j, why) ==
  /\ rejected' = rejected + 1
  /\ CountFor(j, "rejected")
  /\ RUnlock(j)
  /\ Return(j, why)
  /\ UNCHANGED <<writer, queue, limits, limiter, accepted, submitFrame>>

RejectPolicy(j) ==
  /\ pc[j] = "admit" /\ j \in BadPolicy
  /\ Reject(j, "policy")
  /\ UNCHANGED slots

AdmitUnlimited(j) ==
  /\ pc[j] = "admit" /\ j \notin BadPolicy /\ LimitOf[j] = 0
  /\ Goto(j, "send")
  /\ UNCHANGED <<outcome, readers, writer, queue, limits, limiter, slots, accepted,
                 rejected, tel, submitFrame>>

\* The functionLimit in the map serves the call unless it has another limit and
\* none of its slots is taken.
Reusable(o, j) == o # None /\ (LimitOf[o] = LimitOf[j] \/ slots[o] # {})

\* The section under limitsMu. The slot is taken after it, in a later step.
LookupLimiter(j) ==
  LET o == limits[FnOf[j]]
      mine == IF Reusable(o, j) THEN o ELSE j
  IN  /\ pc[j] = "admit" /\ j \notin BadPolicy /\ LimitOf[j] > 0
      /\ limits' = [limits EXCEPT ![FnOf[j]] = mine]
      /\ limiter' = [limiter EXCEPT ![j] = mine]
      /\ Goto(j, "slot")
      /\ UNCHANGED <<outcome, readers, writer, queue, slots, accepted, rejected,
                     tel, submitFrame>>

\* (slip) a slots channel with room for one slot more than the limit.
HasSlotOverLimit(o) == Cardinality(slots[o]) <= LimitOf[o]

HasFreeSlot(o) == Cardinality(slots[o]) < LimitOf[o]

AcquireSlot(j) ==
  /\ pc[j] = "slot" /\ HasFreeSlot(limiter[j])
  /\ slots' = [slots EXCEPT ![limiter[j]] = @ \cup {j}]
  /\ Goto(j, "send")
  /\ UNCHANGED <<outcome, readers, writer, queue, limits, limiter, accepted,
                 rejected, tel, submitFrame>>

RejectLimit(j) ==
  /\ pc[j] = "slot" /\ ~HasFreeSlot(limiter[j])
  /\ Reject(j, "limit")
  /\ UNCHANGED slots

\* (slip) a jobs channel with room for one job more than QueueSize.
RoomForOneMore == Len(queue) <= QueueSize

HasRoom == Len(queue) < QueueSize

\* (slip) a cancelled caller's send is taken for one that failed, and tried again.
EnqueueAndRetry(j) ==
  /\ pc[j] = "send" /\ HasRoom
  /\ queue' = Append(queue, j)
  /\ Goto(j, IF j \in ctxDone THEN "send" ELSE "sent")
  /\ UNCHANGED <<outcome, readers, writer, limits, limiter, slots, accepted,
                 rejected, tel, submitFrame>>

\* The select: Go picks any ready case, and `default` only when none is ready.
Enqueue(j) ==
  /\ pc[j] = "send" /\ HasRoom
  /\ queue' = Append(queue, j)
  /\ Goto(j, "sent")
  /\ UNCHANGED <<outcome, readers, writer, limits, limiter, slots, accepted,
                 rejected, tel, submitFrame>>

AbandonEnqueue(j) ==
  /\ pc[j] = "send" /\ j \in ctxDone
  /\ ReleaseLimit(j)
  /\ RUnlock(j)
  /\ Return(j, "cancelled")
  /\ UNCHANGED <<writer, queue, limits, limiter, accepted, rejected, tel,
                 submitFrame>>

\* (slip) the full-queue case forgets releaseLimit().
RejectFullKeepingSlot(j) ==
  /\ pc[j] = "send" /\ ~HasRoom /\ j \notin ctxDone
  /\ UNCHANGED slots
  /\ Reject(j, "full")

RejectFull(j) ==
  /\ pc[j] = "send" /\ ~HasRoom /\ j \notin ctxDone
  /\ ReleaseLimit(j)
  /\ Reject(j, "full")

\* The job is already visible to the workers when it is counted as accepted.
CountAccepted(j) ==
  /\ pc[j] = "sent"
  /\ accepted' = accepted + 1
  /\ CountFor(j, "accepted")
  /\ RUnlock(j)
  /\ Goto(j, "scale")
  /\ UNCHANGED <<outcome, writer, queue, limits, limiter, slots, rejected,
                 submitFrame>>

\* maybeScaleUp up to its lock: len(d.jobs) and d.active are read without it.
CheckBacklog(j) ==
  /\ pc[j] = "scale"
  /\ IF MaxWorkers > MinWorkers /\ Len(queue) >= active
     THEN Goto(j, "scaling") ELSE Goto(j, "wait")
  /\ UNCHANGED <<outcome, readers, writer, queue, limits, limiter, slots, accepted,
                 rejected, tel, submitFrame>>

\* sync.RWMutex.Lock: announce (new readers wait from here on), then wait until
\* the readers that are inside have left.
AnnounceScaleUp(j) ==
  /\ pc[j] = "scaling" /\ writer = None
  /\ writer' = j
  /\ UNCHANGED <<pc, outcome, readers, queue, limits, limiter, slots, accepted,
                 rejected, tel, submitFrame>>

\* (slip) d.mu is a lock that readers do not hold off.
IgnoreReaders == TRUE

NoReaders == readers = {}

\* (slip) maybeScaleUp does not look at d.closed again under the lock.
MaySpawnIfClosed == active < MaxWorkers

MaySpawn == ~closed /\ active < MaxWorkers

\* spawnWorkerLocked: the new goroutine is counted before it runs.
ScaleUp(j) ==
  /\ pc[j] = "scaling" /\ writer = j /\ NoReaders
  /\ MaySpawn
  /\ \E w \in Workers :
       wstate[w] = "off" /\ wstate' = [wstate EXCEPT ![w] = "idle"]
  /\ active' = active + 1
  /\ scaleUps' = scaleUps + 1
  /\ writer' = None
  /\ Goto(j, "wait")
  /\ UNCHANGED <<outcome, ctxDone, readers, queue, answered, limits, limiter, slots,
                 wjob, runs, closed, done, cpc, accepted, rejected, completed,
                 scaleDown, tel>>

DeclineScaleUp(j) ==
  /\ pc[j] = "scaling" /\ writer = j /\ NoReaders
  /\ ~MaySpawn
  /\ writer' = None
  /\ Goto(j, "wait")
  /\ UNCHANGED <<outcome, readers, queue, limits, limiter, slots, accepted,
                 rejected, tel, submitFrame>>

\* The second select: any of the three may be taken when several are ready.
Await(j) ==
  /\ pc[j] = "wait"
  /\ \/ j \in answered /\ Return(j, "result")
     \/ j \in ctxDone /\ Return(j, "ctx")
     \/ done /\ Return(j, "done")
  /\ UNCHANGED <<readers, writer, queue, limits, limiter, slots, accepted,
                 rejected, tel, submitFrame>>

-----------------------------------------------------------------------------
(* Workers. *)

WorkerReceive(w) ==
  /\ wstate[w] = "idle" /\ queue # <<>>
  /\ queue' = Tail(queue)
  /\ wjob' = [wjob EXCEPT ![w] = Head(queue)]
  /\ wstate' = [wstate EXCEPT ![w] = "busy"]
  /\ CountFor(Head(queue), "started")
  /\ UNCHANGED <<slots, answered, runs, completed, active, scaleDown, workerFrame>>

\* engine.Invoke returned, with a result or an error; both are counted.
WorkerInvoke(w) ==
  /\ wstate[w] = "busy"
  /\ runs' = [runs EXCEPT ![wjob[w]] = @ + 1]
  /\ CountFor(wjob[w], "completed")
  /\ completed' = completed + 1
  /\ wstate' = [wstate EXCEPT ![w] = "ran"]
  /\ UNCHANGED <<queue, slots, wjob, answered, active, scaleDown, workerFrame>>

\* (slip) an unbuffered job.res: the send waits until the caller receives.
CallerReceives(j) == pc[j] = "wait"

\* job.res has room for one result: the send never waits for the caller.
ResHasRoom(j) == j \notin answered

WorkerAnswer(w) ==
  /\ wstate[w] = "ran" /\ ResHasRoom(wjob[w])
  /\ answered' = answered \cup {wjob[w]}
  /\ wstate' = [wstate EXCEPT ![w] = "answered"]
  /\ UNCHANGED <<queue, slots, wjob, runs, completed, active, scaleDown, tel,
                 workerFrame>>

\* The deferred releaseLimit, then the idle timer is reset.
WorkerFinish(w) ==
  /\ wstate[w] = "answered"
  /\ ReleaseLimit(wjob[w])
  /\ wstate' = [wstate EXCEPT ![w] = "idle"]
  /\ wjob' = [wjob EXCEPT ![w] = None]
  /\ UNCHANGED <<queue, answered, runs, completed, active, scaleDown, tel,
                 workerFrame>>

\* (slip) an off-by-one in tryRetireWorker's guard.
MayRetireAtMinimum == MaxWorkers > MinWorkers /\ active >= MinWorkers

MayRetire == MaxWorkers > MinWorkers /\ active > MinWorkers

\* The idle timer fired (even if a job just arrived) and the CAS succeeded.
WorkerRetire(w) ==
  /\ wstate[w] = "idle" /\ MayRetire
  /\ active' = active - 1
  /\ scaleDown' = scaleDown + 1
  /\ wstate' = [wstate EXCEPT ![w] = "retired"]
  /\ UNCHANGED <<queue, slots, wjob, answered, runs, completed, tel, workerFrame>>

\* The deferred wg.Done of a worker whose retirement already lowered `active`.
WorkerRetired(w) ==
  /\ wstate[w] = "retired"
  /\ wstate' = [wstate EXCEPT ![w] = "off"]
  /\ UNCHANGED <<queue, slots, wjob, answered, runs, completed, active, scaleDown,
                 tel, workerFrame>>

\* The jobs channel is closed and drained: active.Add(-1), wg.Done.
WorkerExit(w) ==
  /\ wstate[w] = "idle" /\ closed /\ queue = <<>>
  /\ active' = active - 1
  /\ wstate' = [wstate EXCEPT ![w] = "off"]
  /\ UNCHANGED <<queue, slots, wjob, answered, runs, completed, scaleDown, tel,
                 workerFrame>>

-----------------------------------------------------------------------------
(* Close. *)

MoveCloser(c, label) == cpc' = [cpc EXCEPT ![c] = label]

CloseCall(c) ==
  /\ cpc[c] = "idle"
  /\ MoveCloser(c, "called")
  /\ UNCHANGED <<writer, closed, done, closeFrame>>

CloseLock(c) ==
  /\ cpc[c] = "called" /\ writer = None
  /\ writer' = c
  /\ MoveCloser(c, "locked")
  /\ UNCHANGED <<closed, done, closeFrame>>

\* The CAS on `closed` and close(d.jobs), both under the write lock.
CloseJobs(c) ==
  /\ cpc[c] = "locked" /\ NoReaders /\ ~closed
  /\ closed' = TRUE
  /\ MoveCloser(c, "draining")
  /\ UNCHANGED <<writer, done, closeFrame>>

CloseAgain(c) ==
  /\ cpc[c] = "locked" /\ NoReaders /\ closed
  /\ writer' = None
  /\ MoveCloser(c, "returned")
  /\ UNCHANGED <<closed, done, closeFrame>>

\* (slip) Close waits for an empty queue and not for the workers.
QueueIsEmpty == queue = <<>>

\* wg.Wait: every worker goroutine that was spawned has called wg.Done.
AllWorkersDone == \A w \in Workers : wstate[w] = "off"

CloseDone(c) ==
  /\ cpc[c] = "draining" /\ AllWorkersDone
  /\ done' = TRUE
  /\ writer' = None
  /\ MoveCloser(c, "returned")
  /\ UNCHANGED <<closed, closeFrame>>

-----------------------------------------------------------------------------
Submit(j) ==
  \/ SubmitRefused(j) \/ SubmitEnter(j)
  \/ RejectPolicy(j) \/ AdmitUnlimited(j) \/ LookupLimiter(j)
  \/ AcquireSlot(j) \/ RejectLimit(j)
  \/ Enqueue(j) \/ AbandonEnqueue(j) \/ RejectFull(j)
  \/ CountAccepted(j)
  \/ CheckBacklog(j) \/ AnnounceScaleUp(j) \/ ScaleUp(j) \/ DeclineScaleUp(j)
  \/ Await(j)

Handle(w) ==
  \/ WorkerReceive(w) \/ WorkerInvoke(w) \/ WorkerAnswer(w) \/ WorkerFinish(w)

Worker(w) == Handle(w) \/ WorkerRetire(w) \/ WorkerRetired(w) \/ WorkerExit(w)

Close(c) ==
  \/ CloseCall(c) \/ CloseLock(c) \/ CloseJobs(c) \/ CloseAgain(c)
  \/ CloseDone(c)

\* Every call is over and the workers that are left wait for jobs that will
\* not come: the only state in which nothing else may happen.
Finished ==
  /\ \A j \in Jobs : pc[j] = "returned"
  /\ \A c \in Closers : cpc[c] = "returned"
  /\ \A w \in Workers : wstate[w] \in {"idle", "off"}
  /\ UNCHANGED vars

Next ==
  \/ \E j \in Jobs : Cancel(j) \/ Submit(j)
  \/ \E w \in Workers : Worker(w)
  \/ \E c \in Closers : Close(c)
  \/ Finished

Spec == Init /\ [][Next]_vars

(***************************************************************************)
(* Fairness. The Go scheduler runs every goroutine that can run (WF on its *)
(* next step). sync.RWMutex starves neither readers (a writer's Unlock     *)
(* admits the readers that wait) nor writers (its inner Mutex is handed    *)
(* over after 1 ms), hence SF on the steps that take it. Nothing obliges a *)
(* context to be cancelled, an idle timer to win its select, or Close to   *)
(* be called.                                                              *)
(*                                                                         *)
(* Assumed, and not always true: engine.Invoke returns. It has a timeout,  *)
(* which Wazero enforces in a guest, but ensure can wait for ever with the *)
(* lock of the pool store once a module was evicted (InstancePool).        *)
(***************************************************************************)
Fairness ==
  /\ \A j \in Jobs :
       /\ WF_vars(Submit(j))
       /\ SF_vars(SubmitRefused(j) \/ SubmitEnter(j) \/ AnnounceScaleUp(j))
  /\ \A w \in Workers : WF_vars(Handle(w) \/ WorkerRetired(w) \/ WorkerExit(w))
  /\ \A c \in Closers :
       /\ WF_vars(CloseJobs(c) \/ CloseAgain(c) \/ CloseDone(c))
       /\ SF_vars(CloseLock(c))

FairSpec == Spec /\ Fairness
=============================================================================

--------------------------- MODULE DispatcherProps ---------------------------
(***************************************************************************)
(* What the dispatcher must guarantee, and two things its documentation    *)
(* says of it that its code does not do.                                   *)
(***************************************************************************)
EXTENDS Dispatcher, SequencesExt

Handling(w) == wstate[w] \in {"busy", "ran", "answered"}

\* The jobs that wait in the channel, and those that a worker is handling.
Queued == ToSet(queue)
Handled == {wjob[w] : w \in {v \in Workers : Handling(v)}}

\* "All accepted outstanding work for a function, including queued work".
Outstanding(f) == {j \in Queued \cup Handled : FnOf[j] = f}

HoldsSlot(j) == \E o \in Jobs : j \in slots[o]

\* Every variable has its type, and the queue never exceeds its capacity.
TypeOK ==
  /\ pc \in [Jobs -> CallStates]
  /\ outcome \in [Jobs -> Outcomes]
  /\ ctxDone \subseteq Jobs
  /\ readers \subseteq Jobs
  /\ writer \in Jobs \cup Closers \cup {None}
  /\ queue \in Seq(Jobs) /\ Len(queue) <= QueueSize
  /\ answered \subseteq Jobs
  /\ limits \in [Functions -> Jobs \cup {None}]
  /\ limiter \in [Jobs -> Jobs \cup {None}]
  /\ slots \in [Jobs -> SUBSET Jobs]
  /\ wstate \in [Workers -> WorkerStates]
  /\ wjob \in [Workers -> Jobs \cup {None}]
  /\ \A w \in Workers : Handling(w) => wjob[w] \in Jobs
  /\ runs \in [Jobs -> Nat]
  /\ closed \in BOOLEAN /\ done \in BOOLEAN
  /\ cpc \in [Closers -> CloserStates]
  /\ accepted \in Nat /\ rejected \in Nat /\ completed \in Nat
  /\ active \in Int /\ scaleUps \in Nat /\ scaleDown \in Nat
  /\ tel \in [Functions -> [Counters -> Nat]]

\* Whatever becomes of its caller, a job runs at most once, a job whose Submit
\* answered with a refusal is nowhere in the dispatcher and never runs, and a
\* caller that was given a result was given that of a job that ran
\* (dispatcher.go:124-172, 254-261).
ExactlyOnce ==
  \A j \in Jobs :
    /\ runs[j] <= 1
    /\ outcome[j] \in Refusals => runs[j] = 0 /\ j \notin Queued \cup Handled
    /\ outcome[j] = "result" => runs[j] = 1

\* No Submit stands between its check of `closed` and its send when Close has
\* closed the channel: a send on a closed channel would crash the process
\* (dispatcher.go:128-147, 208-213).
NoSendOnClosedChannel ==
  closed => \A j \in Jobs : pc[j] \notin {"admit", "slot", "send"}

\* d.active is the number of workers that will still take a job, whichever of
\* spawn, retirement and exit raced; it stays within the configured bounds, and
\* only Close takes it below the minimum (dispatcher.go:218-226, 298-324).
WorkerAccounting ==
  /\ active = Cardinality({w \in Workers : wstate[w] \notin {"off", "retired"}})
  /\ active <= MaxWorkers
  /\ ~closed => active >= MinWorkers

\* A call holds a slot exactly while it is about to be sent, queued or handled:
\* no path out of Submit or of a worker leaks a slot or gives one back twice
\* (dispatcher.go:153-158, 255, 280-285).
SlotsMatchOutstanding ==
  \A j \in Jobs :
    HoldsSlot(j) <=> /\ limiter[j] # None
                     /\ pc[j] = "send" \/ j \in Queued \cup Handled

\* A limiter bounds the jobs queued or running that passed it by the limit it
\* was made with, whoever gives its slots back and whatever limiter replaced it;
\* when all calls of a function carry one limit, that bounds all its outstanding
\* jobs (dispatcher.go:263-286).
FunctionLimit ==
  /\ \A o \in Jobs :
       Cardinality({j \in Queued \cup Handled : limiter[j] = o}) <= LimitOf[o]
  /\ \A j \in Jobs :
       LimitOf[j] > 0 /\ (\A k \in Jobs : FnOf[k] = FnOf[j] => LimitOf[k] = LimitOf[j])
         => Cardinality(Outstanding(FnOf[j])) <= LimitOf[j]

\* "Close stops workers after draining accepted jobs" (dispatcher.go:206): when
\* d.done is closed no worker is left, every accepted job ran and was answered,
\* every slot is back and the counters agree with each other.
DrainedWhenDone ==
  done =>
    /\ queue = <<>> /\ active = 0
    /\ \A w \in Workers : wstate[w] = "off"
    /\ \A j \in Jobs :
         /\ ~HoldsSlot(j)
         /\ pc[j] \in {"scale", "scaling", "wait"} => j \in answered
    /\ accepted = completed
    /\ \A f \in Functions :
         tel[f]["accepted"] = tel[f]["started"] /\ tel[f]["started"] = tel[f]["completed"]

\* From the moment Close has closed the channel the dispatcher only shrinks: no
\* job is queued or accepted and no worker is spawned, even by a maybeScaleUp
\* that read the queue before (dispatcher.go:207-216, 288-303).
ClosingOnlyShrinks ==
  [][closed => /\ Len(queue') <= Len(queue)
               /\ accepted' = accepted
               /\ \A w \in Workers : wstate[w] = "off" => wstate'[w] = "off"]_vars

-----------------------------------------------------------------------------
(* Why they hold: the inductive invariant behind the proofs.               *)

\* The calls between RLock and RUnlock.
Inside(j) == pc[j] \in {"admit", "slot", "send", "sent"}

\* The calls whose job was sent, wherever the job is now.
Sent(j) == pc[j] \in {"sent", "scale", "scaling", "wait"}
           \/ outcome[j] \in {"result", "ctx", "done"}

\* Readers are counted as they come and go, and a closed channel has none.
LockInv ==
  /\ readers = {j \in Jobs : Inside(j)}
  /\ closed => readers = {}

\* A job that was sent is in one place: the queue, one worker, or answered.
PlaceInv ==
  /\ IsInjective(queue)
  /\ Queued \cap Handled = {}
  /\ \A v, w \in Workers : Handling(v) /\ Handling(w) /\ wjob[v] = wjob[w] => v = w
  /\ \A j \in Jobs : outcome[j] # "none" <=> pc[j] = "returned"
  /\ \A j \in Jobs : ~Sent(j) => j \notin Queued \cup Handled

\* What the worker did with it: run and answered once each, in this order.
RunInv ==
  /\ \A j \in Jobs :
       /\ ~Sent(j) \/ j \in Queued => runs[j] = 0 /\ j \notin answered
       /\ Sent(j) /\ j \notin Queued \cup Handled => runs[j] = 1 /\ j \in answered
       /\ outcome[j] = "result" => j \in answered
  /\ \A w \in Workers : Handling(w) =>
       /\ runs[wjob[w]] = IF wstate[w] = "busy" THEN 0 ELSE 1
       /\ wjob[w] \in answered <=> wstate[w] = "answered"

\* The conjunction is inductive (DispatcherProofs!NextInv).
Inv == TypeOK /\ LockInv /\ PlaceInv /\ RunInv

-----------------------------------------------------------------------------
(* Liveness, under FairSpec, which assumes that engine.Invoke returns.     *)

\* Submit returns, whatever the load, the cancellations and the calls of Close:
\* neither the read lock nor the scale-up's write lock keeps a caller for ever.
SubmitReturns == \A j \in Jobs : <>(pc[j] = "returned")

\* A job that was sent is answered even when its caller is gone: the result
\* channel has room, so no worker waits for a caller (dispatcher.go:144, 260).
AcceptedIsAnswered == \A j \in Jobs : pc[j] = "sent" ~> j \in answered

\* Close returns: its wait for the workers, which holds d.mu, is not a wait for
\* somebody who waits for d.mu (dispatcher.go:207-216).
CloseReturns == \A c \in Closers : cpc[c] = "called" ~> cpc[c] = "returned"

-----------------------------------------------------------------------------
(* Refinement. *)

ServiceStatus(j) ==
  CASE runs[j] = 1                   -> "ran"
    [] runs[j] > 1                   -> "ran twice"
    [] runs[j] = 0 /\ j \in Queued \cup Handled -> "admitted"
    [] outcome[j] \in Refusals       -> "refused"
    [] OTHER                         -> "new"

Service == INSTANCE JobService WITH
  Capacity <- QueueSize + MaxWorkers,
  status   <- [j \in Jobs |-> ServiceStatus(j)],
  open     <- ~closed,
  stopped  <- done

\* The dispatcher is a JobService: exactly once for what it admits, never for
\* what it refuses, at most QueueSize + MaxWorkers jobs that have not run yet. Its
\* liveness, too, is as good as the assumption that engine.Invoke returns.
ImplementsService == Service!SSpec

-----------------------------------------------------------------------------
(* What the documentation says and the code does not do. *)

\* docs/interview-defense.md:1811: "The limit bounds all accepted outstanding
\* work for a function, including queued work". Here for calls whose policies
\* carry different limits: at least the largest of them should be a bound.
LimitBoundsOutstanding ==
  \A f \in Functions :
    (\E j \in Jobs : FnOf[j] = f) =>
      \E j \in Jobs :
        /\ FnOf[j] = f
        /\ LimitOf[j] = 0 \/ Cardinality(Outstanding(f)) <= LimitOf[j]

\* dispatcher.go:18: "ErrDispatcherClosed means the dispatcher is no longer
\* accepting work", so the work of a caller that got it was not done.
ClosedMeansNotRun ==
  \A j \in Jobs : outcome[j] \in {"closed", "done"} => runs[j] = 0
=============================================================================

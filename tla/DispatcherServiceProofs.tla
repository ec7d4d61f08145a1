----------------------- MODULE DispatcherServiceProofs -----------------------
(***************************************************************************)
(* The proofs that Close leaves nothing behind, that the dispatcher, in    *)
(* every behaviour and for every set of calls and workers, is a            *)
(* JobService, and that it never comes to a stop with work in hand.        *)
(***************************************************************************)
EXTENDS DispatcherCapacityProofs

-----------------------------------------------------------------------------
(* Closing. *)

\* A Close that waits has closed the channel, and one that is done left no worker.
CloseInv ==
  /\ \A c \in Closers : cpc[c] = "draining" => closed
  /\ done => closed /\ AllWorkersDone

\* No Close has begun at the start.
LEMMA InitCloseInv == Init => CloseInv
  BY DEF Init, CloseInv

\* No step reopens the channel or brings back a worker after Close is done.
LEMMA NextCloseInv == TypeOK /\ CloseInv /\ [Next]_vars => CloseInv'
  <1> SUFFICES ASSUME TypeOK, CloseInv, [Next]_vars PROVE CloseInv'
    OBVIOUS
  <1>1. ASSUME UNCHANGED <<closed, done, cpc>>, closed /\ AllWorkersDone => AllWorkersDone'
        PROVE  CloseInv'
    BY <1>1 DEF CloseInv
  <1>2. ASSUME NEW j \in Jobs, Cancel(j) \/ Submit(j) PROVE CloseInv'
    <2>1. CASE ScaleUp(j)
      BY <1>1, <2>1 DEF ScaleUp, MaySpawn
    <2>2. CASE ~ScaleUp(j)
      <3>1. UNCHANGED <<closed, done, cpc, wstate>>
        BY <1>2, <2>2 DEF Cancel, Submit, SubmitRefused, SubmitEnter, RejectPolicy,
             AdmitUnlimited, LookupLimiter, AcquireSlot, RejectLimit, Enqueue,
             AbandonEnqueue, RejectFull, CountAccepted, CheckBacklog, AnnounceScaleUp,
             DeclineScaleUp, Await, Reject, submitFrame
      <3> QED
        BY <1>1, <3>1 DEF AllWorkersDone
    <2> QED
      BY <2>1, <2>2
  <1>3. ASSUME NEW w \in Workers, Worker(w) PROVE CloseInv'
    <2>1. /\ UNCHANGED <<closed, done, cpc>>
          /\ wstate[w] # "off" \/ wstate' = wstate
      BY <1>3 DEF Worker, Handle, WorkerReceive, WorkerInvoke, WorkerAnswer,
           WorkerFinish, WorkerRetire, WorkerRetired, WorkerExit, workerFrame
    <2> QED
      BY <1>1, <2>1 DEF AllWorkersDone
  <1>4. ASSUME NEW c \in Closers, Close(c) PROVE CloseInv'
    <2>1. UNCHANGED wstate
      BY <1>4 DEF Close, CloseCall, CloseLock, CloseJobs, CloseAgain, CloseDone, closeFrame
    <2>2. CASE CloseCall(c) \/ CloseLock(c) \/ CloseAgain(c)
      BY <2>1, <2>2 DEF CloseCall, CloseLock, CloseAgain, MoveCloser, CloseInv, TypeOK,
           AllWorkersDone
    <2>3. CASE CloseJobs(c)
      BY <2>1, <2>3 DEF CloseJobs, CloseInv, AllWorkersDone
    <2>4. CASE CloseDone(c)
      BY <2>1, <2>4 DEF CloseDone, MoveCloser, CloseInv, AllWorkersDone, TypeOK
    <2> QED
      BY <1>4, <2>2, <2>3, <2>4 DEF Close
  <1>5. CASE UNCHANGED vars
    BY <1>1, <1>5 DEF vars, AllWorkersDone
  <1> QED
    BY <1>2, <1>3, <1>4, <1>5 DEF Next, Finished

-----------------------------------------------------------------------------
(* The counters. *)

\* The calls that counted their job as accepted, the jobs that a worker received,
\* and those that were run.
AcceptedJobs == {j \in Jobs : \/ pc[j] \in {"scale", "scaling", "wait"}
                              \/ outcome[j] \in {"result", "ctx", "done"}}
StartedJobs  == {j \in Jobs : Sent(j) /\ j \notin Queued}
RanJobs      == {j \in Jobs : runs[j] = 1}

Of(S, f) == {j \in S : FnOf[j] = f}

\* One counter of telemetry.go counts the jobs of S, by function.
Tells(n, S) == \A f \in Functions : tel[f][n] = Cardinality(Of(S, f))

\* Every counter is the number of jobs it is about.
CountInv ==
  /\ accepted = Cardinality(AcceptedJobs)
  /\ completed = Cardinality(RanJobs)
  /\ Tells("accepted", AcceptedJobs)
  /\ Tells("started", StartedJobs)
  /\ Tells("completed", RanJobs)

\* One job more in a set, counted once, for its function only.
LEMMA CountOne ==
  ASSUME TypeOK, NEW S \in SUBSET Jobs, NEW j \in Jobs, j \notin S
  PROVE  /\ Cardinality(S \cup {j}) = Cardinality(S) + 1
         /\ \A n \in Counters : Tells(n, S) /\ CountFor(j, n) =>
              \A f \in Functions : tel'[f][n] = Cardinality(Of(S \cup {j}, f))
  <1>1. \A T \in SUBSET Jobs : IsFiniteSet(T)
    BY IdentityAssumption, FS_Subset
  <1>2. \A T \in SUBSET Jobs : j \notin T => Cardinality(T \cup {j}) = Cardinality(T) + 1
    BY <1>1, FS_AddElement
  <1>3. ASSUME NEW n \in Counters, Tells(n, S), CountFor(j, n), NEW f \in Functions
        PROVE  tel'[f][n] = Cardinality(Of(S \cup {j}, f))
    <2>1. FnOf[j] \in Functions
      BY CallAssumption
    <2>2. tel'[f][n] = IF f = FnOf[j] THEN tel[f][n] + 1 ELSE tel[f][n]
      BY <1>3, <2>1 DEF CountFor, TypeOK
    <2>3. CASE f = FnOf[j]
      <3>1. Of(S \cup {j}, f) = Of(S, f) \cup {j} /\ Of(S, f) \in SUBSET Jobs /\ j \notin Of(S, f)
        BY <2>3 DEF Of
      <3> QED
        BY <1>2, <1>3, <2>2, <2>3, <3>1 DEF Tells
    <2>4. CASE f # FnOf[j]
      <3>1. Of(S \cup {j}, f) = Of(S, f)
        BY <2>4 DEF Of
      <3> QED
        BY <1>3, <2>2, <2>4, <3>1 DEF Tells
    <2> QED
      BY <2>3, <2>4
  <1> QED
    BY <1>2, <1>3

\* Counting one thing leaves the counters of the others alone.
LEMMA CountOther ==
  ASSUME TypeOK, NEW j \in Jobs, NEW n \in Counters, NEW m \in Counters, m # n,
         CountFor(j, n)
  PROVE  \A f \in Functions : tel'[f][m] = tel[f][m]
  BY CallAssumption DEF CountFor, TypeOK

\* Nothing is counted at the start.
LEMMA InitCountInv == Init => CountInv
  <1> SUFFICES ASSUME Init PROVE CountInv
    OBVIOUS
  <1>1. /\ \A j \in Jobs : pc[j] = "called" /\ outcome[j] = "none" /\ runs[j] = 0
        /\ accepted = 0 /\ completed = 0
        /\ tel = [f \in Functions |-> [n \in Counters |-> 0]]
    BY DEF Init
  <1>2. AcceptedJobs = {} /\ StartedJobs = {} /\ RanJobs = {}
    BY <1>1 DEF AcceptedJobs, StartedJobs, RanJobs, Sent
  <1>3. Cardinality({}) = 0 /\ \A f \in Functions : Of({}, f) = {}
    BY FS_EmptySet DEF Of
  <1>4. \A n \in Counters : Tells(n, {})
    BY <1>1, <1>3 DEF Tells
  <1> QED
    BY <1>1, <1>2, <1>3, <1>4 DEF CountInv, Counters

\* The steps that count nothing but refusals change neither a counter nor a set.
LEMMA OthersCountNothing ==
  ASSUME TypeOK, PlaceInv, [Next]_vars,
         \A j \in Jobs : ~CountAccepted(j),
         \A w \in Workers : ~WorkerReceive(w) /\ ~WorkerInvoke(w)
  PROVE  /\ UNCHANGED <<accepted, completed>>
         /\ \A f \in Functions : \A n \in {"accepted", "started", "completed"} :
              tel'[f][n] = tel[f][n]
         /\ AcceptedJobs' = AcceptedJobs /\ StartedJobs' = StartedJobs /\ RanJobs' = RanJobs
  <1>1. UNCHANGED <<accepted, completed, runs>>
    <2>1. ASSUME NEW j \in Jobs, Cancel(j) \/ Submit(j)
          PROVE  UNCHANGED <<accepted, completed, runs>>
      BY <2>1 DEF Cancel, Submit, SubmitRefused, SubmitEnter, RejectPolicy,
           AdmitUnlimited, LookupLimiter, AcquireSlot, RejectLimit, Enqueue,
           AbandonEnqueue, RejectFull, CheckBacklog, AnnounceScaleUp, ScaleUp,
           DeclineScaleUp, Await, Reject, submitFrame
    <2>2. ASSUME \/ \E w \in Workers : Worker(w)
                 \/ \E c \in Closers : Close(c)
                 \/ UNCHANGED vars
          PROVE  UNCHANGED <<accepted, completed, runs>>
      BY <2>2 DEF Worker, Handle, WorkerAnswer, WorkerFinish, WorkerRetire,
           WorkerRetired, WorkerExit, workerFrame, Close, CloseCall, CloseLock,
           CloseJobs, CloseAgain, CloseDone, closeFrame, vars
    <2> QED
      BY <2>1, <2>2 DEF Next, Finished
  <1>2. \A f \in Functions : \A n \in {"accepted", "started", "completed"} :
          tel'[f][n] = tel[f][n]
    <2>1. CASE tel' = tel
      BY <2>1
    <2>2. ASSUME NEW j \in Jobs, RejectPolicy(j) \/ RejectLimit(j) \/ RejectFull(j)
          PROVE  \A f \in Functions : \A n \in {"accepted", "started", "completed"} :
                   tel'[f][n] = tel[f][n]
      <3>1. CountFor(j, "rejected")
        BY <2>2 DEF RejectPolicy, RejectLimit, RejectFull, Reject
      <3> QED
        BY <3>1, CountOther DEF Counters
    <2>3. ASSUME NEW j \in Jobs, Cancel(j) \/ Submit(j),
                 ~RejectPolicy(j), ~RejectLimit(j), ~RejectFull(j)
          PROVE  tel' = tel
      BY <2>3 DEF Cancel, Submit, SubmitRefused, SubmitEnter, AdmitUnlimited,
           LookupLimiter, AcquireSlot, Enqueue, AbandonEnqueue, CheckBacklog,
           AnnounceScaleUp, ScaleUp, DeclineScaleUp, Await, submitFrame
    <2>4. ASSUME \/ \E w \in Workers : Worker(w)
                 \/ \E c \in Closers : Close(c)
                 \/ UNCHANGED vars
          PROVE  tel' = tel
      BY <2>4 DEF Worker, Handle, WorkerAnswer, WorkerFinish, WorkerRetire,
           WorkerRetired, WorkerExit, workerFrame, Close, CloseCall, CloseLock,
           CloseJobs, CloseAgain, CloseDone, closeFrame, vars
    <2> QED
      BY <2>1, <2>2, <2>3, <2>4 DEF Next, Finished
  <1>3. StartedJobs' = StartedJobs
    <2>1. CASE Still
      BY <2>1 DEF Still, StartedJobs, Queued
    <2>2. ASSUME NEW j \in Jobs, Enqueue(j) PROVE StartedJobs' = StartedJobs
      <3>1. /\ Queued' = Queued \cup {j} /\ ~Sent(j)
            /\ \A k \in Jobs \ {j} : Sent(k)' <=> Sent(k)
        BY <2>2, EnqueueMoves DEF Enqueue, Goto, Sent, PlaceInv, TypeOK
      <3> QED
        BY <3>1 DEF StartedJobs
    <2>3. ASSUME NEW w \in Workers, WorkerAnswer(w) \/ WorkerFinish(w)
          PROVE  StartedJobs' = StartedJobs
      BY <2>3 DEF WorkerAnswer, WorkerFinish, workerFrame, StartedJobs, Sent, Queued
    <2> QED
      BY <2>1, <2>2, <2>3, Classify DEF Handle
  <1>4. AcceptedJobs' = AcceptedJobs
    <2>1. ASSUME NEW j \in Jobs, NEW label, Goto(j, label),
                 \/ outcome' = outcome /\ label \in {"scale", "scaling", "wait"}
                    /\ pc[j] \in {"scale", "scaling", "wait"}
                 \/ outcome' = outcome /\ label \in {"admit", "slot", "send", "sent"}
                    /\ pc[j] \notin {"scale", "scaling", "wait"}
          PROVE  AcceptedJobs' = AcceptedJobs
      BY <2>1 DEF AcceptedJobs, Goto, TypeOK
    <2>2. ASSUME NEW j \in Jobs, NEW r, Return(j, r), pc[j] # "returned",
                 r \in {"result", "ctx", "done"} <=> pc[j] \in {"scale", "scaling", "wait"}
          PROVE  AcceptedJobs' = AcceptedJobs
      BY <2>2 DEF AcceptedJobs, Return, Goto, PlaceInv, TypeOK
    <2>3. ASSUME UNCHANGED <<pc, outcome>> PROVE AcceptedJobs' = AcceptedJobs
      BY <2>3 DEF AcceptedJobs
    <2>4. ASSUME NEW j \in Jobs, Cancel(j) \/ Submit(j) PROVE AcceptedJobs' = AcceptedJobs
      <3>1. CASE Cancel(j) \/ AnnounceScaleUp(j)
        BY <2>3, <3>1 DEF Cancel, AnnounceScaleUp
      <3>2. CASE SubmitEnter(j) \/ AdmitUnlimited(j) \/ LookupLimiter(j) \/ AcquireSlot(j)
                 \/ Enqueue(j)
        <4>1. /\ outcome' = outcome /\ pc[j] \notin {"scale", "scaling", "wait"}
              /\ \E label \in {"admit", "slot", "send", "sent"} : Goto(j, label)
          BY <3>2 DEF SubmitEnter, AdmitUnlimited, LookupLimiter, AcquireSlot, Enqueue
        <4> QED
          BY <2>1, <4>1
      <3>3. CASE CheckBacklog(j) \/ ScaleUp(j) \/ DeclineScaleUp(j)
        <4>1. /\ outcome' = outcome /\ pc[j] \in {"scale", "scaling", "wait"}
              /\ \E label \in {"scale", "scaling", "wait"} : Goto(j, label)
          BY <3>3 DEF CheckBacklog, ScaleUp, DeclineScaleUp
        <4> QED
          BY <2>1, <4>1
      <3>4. CASE SubmitRefused(j) \/ RejectPolicy(j) \/ RejectLimit(j) \/ RejectFull(j)
                 \/ AbandonEnqueue(j)
        <4>1. /\ pc[j] \in {"called", "admit", "slot", "send"}
              /\ \E r \in {"closed", "policy", "limit", "full", "cancelled"} : Return(j, r)
          BY <3>4 DEF SubmitRefused, RejectPolicy, RejectLimit, RejectFull,
               AbandonEnqueue, Reject
        <4> QED
          BY <2>2, <4>1
      <3>5. CASE Await(j)
        <4>1. pc[j] = "wait" /\ \E r \in {"result", "ctx", "done"} : Return(j, r)
          BY <3>5, Zenon DEF Await
        <4> QED
          BY <2>2, <4>1
      <3> QED
        BY <2>4, <3>1, <3>2, <3>3, <3>4, <3>5 DEF Submit
    <2>5. ASSUME \/ \E w \in Workers : Worker(w)
                 \/ \E c \in Closers : Close(c)
                 \/ UNCHANGED vars
          PROVE  UNCHANGED <<pc, outcome>>
      BY <2>5 DEF Worker, Handle, WorkerReceive, WorkerInvoke, WorkerAnswer,
           WorkerFinish, WorkerRetire, WorkerRetired, WorkerExit, workerFrame, Close,
           CloseCall, CloseLock, CloseJobs, CloseAgain, CloseDone, closeFrame, vars
    <2> QED
      BY <2>3, <2>4, <2>5 DEF Next, Finished
  <1>5. RanJobs' = RanJobs
    BY <1>1 DEF RanJobs
  <1> QED
    BY <1>1, <1>2, <1>3, <1>4, <1>5

\* Every step counts what it does, once.
LEMMA NextCountInv ==
  TypeOK /\ PlaceInv /\ RunInv /\ CountInv /\ [Next]_vars => CountInv'
  <1> SUFFICES ASSUME TypeOK, PlaceInv, RunInv, CountInv, [Next]_vars PROVE CountInv'
    OBVIOUS
  <1>1. \A f \in Functions : \A S : Of(S, f)' = {j \in S : FnOf[j] = f}
    BY DEF Of
  <1>2. AcceptedJobs \in SUBSET Jobs /\ StartedJobs \in SUBSET Jobs /\ RanJobs \in SUBSET Jobs
    BY DEF AcceptedJobs, StartedJobs, RanJobs
  <1>3. ASSUME NEW j \in Jobs, CountAccepted(j) PROVE CountInv'
    <2>1. /\ pc[j] = "sent" /\ pc' = [pc EXCEPT ![j] = "scale"]
          /\ accepted' = accepted + 1 /\ CountFor(j, "accepted")
          /\ UNCHANGED <<outcome, completed, runs, queue>>
      BY <1>3 DEF CountAccepted, Goto, submitFrame
    <2>2. AcceptedJobs' = AcceptedJobs \cup {j} /\ j \notin AcceptedJobs
      BY <2>1 DEF AcceptedJobs, PlaceInv, TypeOK
    <2>3. StartedJobs' = StartedJobs /\ RanJobs' = RanJobs
      BY <2>1 DEF StartedJobs, RanJobs, Sent, Queued, TypeOK
    <2>4. \A f \in Functions : tel'[f]["accepted"] = Cardinality(Of(AcceptedJobs \cup {j}, f))
      BY <1>2, <2>1, <2>2, CountOne DEF CountInv, Counters
    <2>5. \A f \in Functions :
            tel'[f]["started"] = tel[f]["started"] /\ tel'[f]["completed"] = tel[f]["completed"]
      BY <2>1, CountOther DEF Counters
    <2>6. accepted' = Cardinality(AcceptedJobs')
      BY <1>2, <2>1, <2>2, CountOne DEF CountInv
    <2> QED
      BY <2>1, <2>2, <2>3, <2>4, <2>5, <2>6 DEF CountInv, Tells
  <1>4. ASSUME NEW w \in Workers, WorkerReceive(w) PROVE CountInv'
    <2> DEFINE j == Head(queue)
    <2>1. /\ CountFor(j, "started")
          /\ UNCHANGED <<pc, outcome, accepted, completed, runs>>
      BY <1>4 DEF WorkerReceive, workerFrame
    <2>2. j \in Jobs /\ j \in Queued /\ Sent(j) /\ Queued' = Queued \ {j}
      BY <1>4, ReceiveMoves DEF PlaceInv
    <2>3. StartedJobs' = StartedJobs \cup {j} /\ j \notin StartedJobs
      BY <2>1, <2>2 DEF StartedJobs, Sent
    <2>4. AcceptedJobs' = AcceptedJobs /\ RanJobs' = RanJobs
      BY <2>1 DEF AcceptedJobs, RanJobs
    <2>5. \A f \in Functions : tel'[f]["started"] = Cardinality(Of(StartedJobs \cup {j}, f))
      BY <1>2, <2>1, <2>2, <2>3, CountOne DEF CountInv, Counters
    <2>6. \A f \in Functions :
            tel'[f]["accepted"] = tel[f]["accepted"] /\ tel'[f]["completed"] = tel[f]["completed"]
      BY <2>1, <2>2, CountOther DEF Counters
    <2> QED
      BY <2>1, <2>3, <2>4, <2>5, <2>6 DEF CountInv, Tells
  <1>5. ASSUME NEW w \in Workers, WorkerInvoke(w) PROVE CountInv'
    <2> DEFINE j == wjob[w]
    <2>1. /\ runs' = [runs EXCEPT ![j] = @ + 1]
          /\ CountFor(j, "completed") /\ completed' = completed + 1
          /\ UNCHANGED <<pc, outcome, accepted, queue>>
      BY <1>5 DEF WorkerInvoke, workerFrame
    <2>2. j \in Jobs /\ runs[j] = 0
      BY <1>5 DEF WorkerInvoke, Handling, RunInv, TypeOK
    <2>3. RanJobs' = RanJobs \cup {j} /\ j \notin RanJobs
      BY <2>1, <2>2 DEF RanJobs, TypeOK
    <2>4. AcceptedJobs' = AcceptedJobs /\ StartedJobs' = StartedJobs
      BY <2>1 DEF AcceptedJobs, StartedJobs, Sent, Queued
    <2>5. \A f \in Functions : tel'[f]["completed"] = Cardinality(Of(RanJobs \cup {j}, f))
      BY <1>2, <2>1, <2>2, <2>3, CountOne DEF CountInv, Counters
    <2>6. \A f \in Functions :
            tel'[f]["accepted"] = tel[f]["accepted"] /\ tel'[f]["started"] = tel[f]["started"]
      BY <2>1, <2>2, CountOther DEF Counters
    <2>7. completed' = Cardinality(RanJobs')
      BY <1>2, <2>1, <2>2, <2>3, CountOne DEF CountInv
    <2> QED
      BY <2>1, <2>3, <2>4, <2>5, <2>6, <2>7 DEF CountInv, Tells
  <1>6. CASE /\ \A j \in Jobs : ~CountAccepted(j)
             /\ \A w \in Workers : ~WorkerReceive(w) /\ ~WorkerInvoke(w)
    <2>1. /\ UNCHANGED <<accepted, completed>>
          /\ \A f \in Functions : \A n \in {"accepted", "started", "completed"} :
               tel'[f][n] = tel[f][n]
          /\ AcceptedJobs' = AcceptedJobs /\ StartedJobs' = StartedJobs /\ RanJobs' = RanJobs
      BY <1>6, OthersCountNothing
    <2> QED
      BY <2>1 DEF CountInv, Tells
  <1> QED
    BY <1>3, <1>4, <1>5, <1>6

\* When Close is done no worker is left, every accepted job ran and was answered,
\* every slot is back and the counters agree.
THEOREM CloseDrains == Spec => []DrainedWhenDone
  <1>1. Inv /\ WorkerInv /\ SlotInv /\ CloseInv /\ CountInv => DrainedWhenDone
    <2> SUFFICES ASSUME Inv, WorkerInv, SlotInv, CloseInv, CountInv, done
                 PROVE  DrainedWhenDone
      BY DEF DrainedWhenDone
    <2>1. /\ closed /\ \A w \in Workers : wstate[w] = "off"
          /\ \A j \in Jobs : pc[j] \notin {"admit", "slot", "send", "sent"}
      BY DEF CloseInv, AllWorkersDone, Inv, LockInv, Inside
    <2>2. active = 0 /\ queue = <<>>
      <3>1. Taking = {}
        BY <2>1 DEF Taking
      <3>2. Cardinality(Taking) = 0
        BY <3>1, FS_EmptySet
      <3> QED
        BY <3>2, ConfigAssumption DEF WorkerInv, WorkerAccounting, Taking
    <2>3. Queued = {} /\ Handled = {}
      BY <2>1, <2>2 DEF Queued, ToSet, Handled, Handling
    <2>4. \A j \in Jobs : ~HoldsSlot(j)
      BY <2>1, <2>3 DEF SlotInv, SlotsMatchOutstanding
    <2>5. \A j \in Jobs : pc[j] \in {"scale", "scaling", "wait"} => j \in answered
      BY <2>3 DEF Inv, RunInv, Sent
    <2>6. AcceptedJobs = RanJobs /\ StartedJobs = RanJobs
      <3>1. \A j \in Jobs : Sent(j) <=> runs[j] = 1
        BY <2>3 DEF Inv, RunInv
      <3>2. \A j \in Jobs : Sent(j) <=> j \in AcceptedJobs
        BY <2>1 DEF Sent, AcceptedJobs
      <3> QED
        BY <2>3, <3>1, <3>2 DEF AcceptedJobs, StartedJobs, RanJobs
    <2>7. /\ accepted = completed
          /\ \A f \in Functions :
               tel[f]["accepted"] = tel[f]["started"] /\ tel[f]["started"] = tel[f]["completed"]
      BY <2>6 DEF CountInv, Tells
    <2> QED
      BY <2>1, <2>2, <2>4, <2>5, <2>7 DEF DrainedWhenDone
  <1> QED
    BY InitInv, NextInv, InitWorkerInv, NextWorkerInv, InitSlotInv, NextSlotInv,
       InitCloseInv, NextCloseInv, InitCountInv, NextCountInv, <1>1, PTL
    DEF Spec, Inv

-----------------------------------------------------------------------------
(* The dispatcher is a JobService. *)

\* What the dispatcher's state says of a job to a client of JobService.
LEMMA StatusIs ==
  ASSUME Inv, NEW j \in Jobs
  PROVE  ServiceStatus(j) =
           IF runs[j] = 1 THEN "ran"
           ELSE IF j \in Queued \cup Handled THEN "admitted"
           ELSE IF outcome[j] \in Refusals THEN "refused"
           ELSE "new"
  <1>1. runs[j] \in {0, 1}
    <2>1. ASSUME j \in Handled PROVE runs[j] \in {0, 1}
      <3>1. PICK w \in Workers : Handling(w) /\ wjob[w] = j
        BY <2>1 DEF Handled
      <3> QED
        BY <3>1 DEF Inv, RunInv
    <2> QED
      BY <2>1 DEF Inv, RunInv
  <1>0. outcome[j] \in Refusals => runs[j] = 0 /\ j \notin Queued \cup Handled
    <2>1. outcome[j] \in Refusals => ~Sent(j)
      BY DEF Inv, PlaceInv, Sent, Refusals
    <2> QED
      BY <2>1 DEF Inv, RunInv, PlaceInv
  <1>2. CASE runs[j] = 1
    <2>1. ~(runs[j] > 1) /\ runs[j] # 0
      BY <1>2
    <2>2. ServiceStatus(j) = "ran"
      BY <1>0, <1>2, <2>1 DEF ServiceStatus
    <2> QED
      BY <1>2, <2>2
  <1>3. CASE runs[j] = 0 /\ j \in Queued \cup Handled
    <2>1. ~(runs[j] > 1) /\ runs[j] # 1
      BY <1>3
    <2>2. ServiceStatus(j) = "admitted"
      BY <1>0, <1>3, <2>1 DEF ServiceStatus
    <2> QED
      BY <1>3, <2>1, <2>2
  <1>4. CASE runs[j] = 0 /\ j \notin Queued \cup Handled /\ outcome[j] \in Refusals
    BY <1>4 DEF ServiceStatus
  <1>5. CASE runs[j] = 0 /\ j \notin Queued \cup Handled /\ outcome[j] \notin Refusals
    BY <1>5 DEF ServiceStatus
  <1> QED
    BY <1>1, <1>2, <1>3, <1>4, <1>5

\* A channel has as many places as jobs at least.
LEMMA QueuedCount ==
  ASSUME TypeOK
  PROVE  IsFiniteSet(Queued) /\ Cardinality(Queued) <= Len(queue)
  <1>1. Len(queue) \in Nat /\ queue \in [1 .. Len(queue) -> Queued]
    BY DEF TypeOK, Queued, ToSet
  <1>2. queue \in Surjection(1 .. Len(queue), Queued)
    BY <1>1 DEF Surjection, Queued, ToSet, TypeOK
  <1>3. IsFiniteSet(1 .. Len(queue)) /\ Cardinality(1 .. Len(queue)) = Len(queue)
    BY <1>1, FS_Interval
  <1> QED
    BY <1>2, <1>3, FS_Surjection

\* The workers handle no more jobs than there are workers that take jobs.
LEMMA HandledCount ==
  ASSUME TypeOK, WorkerInv
  PROVE  IsFiniteSet(Handled) /\ Cardinality(Handled) <= active
  <1> DEFINE H == {w \in Workers : Handling(w)}
             g == [w \in H |-> wjob[w]]
  <1>1. g \in Surjection(H, Handled)
    BY DEF Surjection, Handled
  <1>2. IsFiniteSet(Taking) /\ H \in SUBSET Taking
    BY IdentityAssumption, FS_Subset DEF Taking, Handling
  <1>3. IsFiniteSet(H) /\ Cardinality(H) <= Cardinality(Taking)
    BY <1>2, FS_Subset
  <1>4. IsFiniteSet(Handled) /\ Cardinality(Handled) <= Cardinality(H)
    BY <1>1, <1>3, FS_Surjection
  <1>5. active = Cardinality(Taking)
    BY DEF WorkerInv, WorkerAccounting, Taking
  <1>6. Cardinality(Handled) \in Nat /\ Cardinality(H) \in Nat /\ Cardinality(Taking) \in Nat
    BY <1>2, <1>3, <1>4, FS_CardinalityType
  <1> QED
    BY <1>3, <1>4, <1>5, <1>6

\* The jobs that wait to run are in the channel or with a worker.
LEMMA AdmittedCount ==
  ASSUME Inv, WorkerInv, Len(queue) < QueueSize
  PROVE  Cardinality(Service!Admitted) < QueueSize + MaxWorkers
  <1>1. Service!Admitted \in SUBSET (Queued \cup Handled)
    BY StatusIs DEF Service!Admitted
  <1>2. /\ IsFiniteSet(Queued) /\ Cardinality(Queued) <= Len(queue)
        /\ IsFiniteSet(Handled) /\ Cardinality(Handled) <= active
    BY QueuedCount, HandledCount DEF Inv
  <1>3. /\ IsFiniteSet(Queued \cup Handled)
        /\ Cardinality(Queued \cup Handled) =
             Cardinality(Queued) + Cardinality(Handled) - Cardinality(Queued \cap Handled)
    BY <1>2, FS_Union
  <1>4. Queued \cap Handled \in SUBSET Queued
    OBVIOUS
  <1>5. /\ Cardinality(Queued) \in Nat /\ Cardinality(Handled) \in Nat
        /\ Cardinality(Queued \cap Handled) \in Nat
    BY <1>2, <1>4, FS_Subset, FS_CardinalityType
  <1>6. /\ IsFiniteSet(Service!Admitted)
        /\ Cardinality(Service!Admitted) <= Cardinality(Queued \cup Handled)
    BY <1>1, <1>3, FS_Subset
  <1>7. Cardinality(Service!Admitted) \in Nat /\ Cardinality(Queued \cup Handled) \in Nat
    BY <1>3, <1>6, FS_CardinalityType
  <1>8. active <= MaxWorkers /\ active \in Int /\ Len(queue) \in Nat
    BY DEF WorkerInv, WorkerAccounting, Inv, TypeOK
  <1> QED
    BY <1>2, <1>3, <1>5, <1>6, <1>7, <1>8, ConfigAssumption

\* A new dispatcher is a new service.
LEMMA InitService == Init => Service!SInit
  <1> SUFFICES ASSUME Init PROVE Service!SInit
    OBVIOUS
  <1>1. Inv
    BY InitInv
  <1>2. \A j \in Jobs : runs[j] = 0 /\ outcome[j] = "none"
    BY DEF Init
  <1>3. Queued = {} /\ Handled = {}
    BY DEF Init, Queued, Handled, Handling, ToSet
  <1>4. \A j \in Jobs : ServiceStatus(j) = "new"
    BY <1>1, <1>2, <1>3, StatusIs DEF Refusals
  <1>5. closed = FALSE /\ done = FALSE
    BY DEF Init
  <1> QED
    BY <1>4, <1>5 DEF Service!SInit

\* StatusIs for all jobs: the form in which it can be used of the next state.
LEMMA StatusOfAll ==
  Inv => \A j \in Jobs : ServiceStatus(j) =
           IF runs[j] = 1 THEN "ran"
           ELSE IF j \in Queued \cup Handled THEN "admitted"
           ELSE IF outcome[j] \in Refusals THEN "refused"
           ELSE "new"
  BY StatusIs

\* Every step of the dispatcher is a step of the service or none.
LEMMA NextService ==
  Inv /\ Inv' /\ WorkerInv /\ CloseInv /\ [Next]_vars => [Service!SNext]_(Service!svars)
  <1> SUFFICES ASSUME Inv, Inv', WorkerInv, CloseInv, [Next]_vars
               PROVE  [Service!SNext]_(Service!svars)
    OBVIOUS
  <1>1. \A j \in Jobs : ServiceStatus(j) =
          IF runs[j] = 1 THEN "ran"
          ELSE IF j \in Queued \cup Handled THEN "admitted"
          ELSE IF outcome[j] \in Refusals THEN "refused"
          ELSE "new"
    BY StatusOfAll
  <1>2. \A j \in Jobs : ServiceStatus(j)' =
          IF runs'[j] = 1 THEN "ran"
          ELSE IF j \in Queued' \cup Handled' THEN "admitted"
          ELSE IF outcome'[j] \in Refusals THEN "refused"
          ELSE "new"
    <2>1. Inv' => (\A j \in Jobs : ServiceStatus(j) =
            IF runs[j] = 1 THEN "ran"
            ELSE IF j \in Queued \cup Handled THEN "admitted"
            ELSE IF outcome[j] \in Refusals THEN "refused"
            ELSE "new")'
      BY StatusOfAll, PTL
    <2> QED
      BY <2>1
  <1>3. TypeOK /\ PlaceInv /\ RunInv /\ LockInv
    BY DEF Inv
  <1>4. ASSUME UNCHANGED <<closed, done>>, \A k \in Jobs : ServiceStatus(k)' = ServiceStatus(k)
        PROVE  UNCHANGED Service!svars
    BY <1>4 DEF Service!svars
  <1>5. ASSUME UNCHANGED <<closed, done, runs>>, Queued' \cup Handled' = Queued \cup Handled,
               \A k \in Jobs : outcome'[k] \in Refusals <=> outcome[k] \in Refusals
        PROVE  UNCHANGED Service!svars
    BY <1>1, <1>2, <1>4, <1>5
  <1>6. ASSUME NEW j \in Jobs,
               SubmitRefused(j) \/ RejectPolicy(j) \/ RejectLimit(j) \/ AbandonEnqueue(j)
                 \/ RejectFull(j)
        PROVE  Service!SNext
    <2>1. /\ pc[j] \in {"called", "admit", "slot", "send"}
          /\ \E r \in Refusals : Return(j, r)
          /\ UNCHANGED <<closed, done, runs, queue, wstate, wjob>>
      BY <1>6 DEF SubmitRefused, RejectPolicy, RejectLimit, AbandonEnqueue, RejectFull,
           Reject, submitFrame, Refusals
    <2>2. /\ outcome[j] = "none" /\ ~Sent(j) /\ j \notin Queued \cup Handled /\ runs[j] = 0
      BY <1>3, <2>1 DEF PlaceInv, RunInv, Sent, TypeOK
    <2>3. /\ outcome'[j] \in Refusals
          /\ \A k \in Jobs \ {j} : outcome'[k] = outcome[k]
      BY <1>3, <2>1 DEF Return, TypeOK
    <2>4. Queued' = Queued /\ Handled' = Handled
      BY <2>1, NothingMoves
    <2>5. /\ ServiceStatus(j) = "new" /\ ServiceStatus(j)' = "refused"
          /\ \A k \in Jobs \ {j} : ServiceStatus(k)' = ServiceStatus(k)
      BY <1>1, <1>2, <2>1, <2>2, <2>3, <2>4 DEF Refusals
    <2>6. Service!Refuse(j)
      BY <2>1, <2>5 DEF Service!Refuse
    <2> QED
      BY <2>6 DEF Service!SNext
  <1>7. ASSUME NEW j \in Jobs, Enqueue(j) PROVE Service!SNext
    <2>1. /\ pc[j] = "send" /\ Len(queue) < QueueSize
          /\ UNCHANGED <<closed, done, runs, outcome>>
      BY <1>7 DEF Enqueue, HasRoom, submitFrame
    <2>2. outcome[j] = "none" /\ ~Sent(j) /\ runs[j] = 0 /\ ~closed
      BY <1>3, <2>1 DEF PlaceInv, RunInv, LockInv, Inside, Sent, TypeOK
    <2>3. Queued' = Queued \cup {j} /\ Handled' = Handled /\ j \notin Queued \cup Handled
      BY <1>3, <1>7, EnqueueMoves
    <2>4. /\ ServiceStatus(j) = "new" /\ ServiceStatus(j)' = "admitted"
          /\ \A k \in Jobs \ {j} : ServiceStatus(k)' = ServiceStatus(k)
      BY <1>1, <1>2, <2>1, <2>2, <2>3 DEF Refusals
    <2>5. Cardinality(Service!Admitted) < QueueSize + MaxWorkers
      BY <2>1, AdmittedCount
    <2>6. Service!Cardinality(Service!Admitted) = Cardinality(Service!Admitted)
      BY DEF Service!Cardinality, Cardinality
    <2>7. Service!Admit(j)
      BY <2>1, <2>2, <2>4, <2>5, <2>6 DEF Service!Admit
    <2> QED
      BY <2>7 DEF Service!SNext
  <1>8. ASSUME NEW j \in Jobs, Cancel(j) \/ SubmitEnter(j) \/ AdmitUnlimited(j)
                 \/ LookupLimiter(j) \/ AcquireSlot(j) \/ CountAccepted(j) \/ CheckBacklog(j)
                 \/ AnnounceScaleUp(j) \/ DeclineScaleUp(j)
        PROVE  UNCHANGED Service!svars
    <2>1. UNCHANGED <<closed, done, runs, outcome, queue, wstate, wjob>>
      BY <1>8 DEF Cancel, SubmitEnter, AdmitUnlimited, LookupLimiter, AcquireSlot,
           CountAccepted, CheckBacklog, AnnounceScaleUp, DeclineScaleUp, submitFrame
    <2> QED
      BY <1>5, <2>1, NothingMoves
  <1>9. ASSUME NEW j \in Jobs, ScaleUp(j) PROVE UNCHANGED Service!svars
    <2>1. UNCHANGED <<closed, done, runs, outcome>>
      BY <1>9 DEF ScaleUp
    <2> QED
      BY <1>3, <1>5, <1>9, <2>1, SpawnMoves
  <1>10. ASSUME NEW j \in Jobs, Await(j) PROVE UNCHANGED Service!svars
    <2>1. /\ pc[j] = "wait" /\ \E r \in {"result", "ctx", "done"} : Return(j, r)
          /\ UNCHANGED <<closed, done, runs, queue, wstate, wjob>>
      BY <1>10, Zenon DEF Await, submitFrame
    <2>2. outcome[j] = "none"
      BY <1>3, <2>1 DEF PlaceInv
    <2>3. \A k \in Jobs : outcome'[k] \in Refusals <=> outcome[k] \in Refusals
      BY <1>3, <2>1, <2>2 DEF Return, TypeOK, Refusals
    <2> QED
      BY <1>5, <2>1, <2>3, NothingMoves
  <1>11. ASSUME NEW w \in Workers, WorkerReceive(w) PROVE UNCHANGED Service!svars
    <2>1. UNCHANGED <<closed, done, runs, outcome>>
      BY <1>11 DEF WorkerReceive, workerFrame
    <2>2. Queued' \cup Handled' = Queued \cup Handled
      BY <1>3, <1>11, ReceiveMoves
    <2> QED
      BY <1>5, <2>1, <2>2
  <1>12. ASSUME NEW w \in Workers, WorkerInvoke(w) PROVE Service!SNext
    <2>0. PICK j \in Jobs : j = wjob[w]
      BY <1>3, <1>12 DEF WorkerInvoke, Handling, TypeOK
    <2>1. /\ wstate[w] = "busy" /\ runs' = [runs EXCEPT ![j] = @ + 1]
          /\ UNCHANGED <<closed, done, outcome>>
      BY <1>12, <2>0 DEF WorkerInvoke, workerFrame
    <2>2. Handling(w) /\ j \in Jobs /\ j \in Handled /\ runs[j] = 0 /\ ~done
      BY <1>3, <2>0, <2>1 DEF Handling, Handled, RunInv, TypeOK, CloseInv, AllWorkersDone
    <2>3. Queued' = Queued /\ Handled' = Handled
      BY <1>3, <1>12, RunMoves
    <2>4. /\ runs'[j] = 1 /\ \A k \in Jobs \ {j} : runs'[k] = runs[k]
      BY <1>3, <2>1, <2>2 DEF TypeOK
    <2>5. ServiceStatus(j) = "admitted"
      BY <1>1, <2>2
    <2>6. ServiceStatus(j)' = "ran"
      BY <1>2, <2>2, <2>4
    <2>7. \A k \in Jobs \ {j} : ServiceStatus(k)' = ServiceStatus(k)
      BY <1>1, <1>2, <2>1, <2>3, <2>4
    <2>8. Service!Run(j)
      BY <2>1, <2>2, <2>5, <2>6, <2>7 DEF Service!Run
    <2> QED
      BY <2>2, <2>8 DEF Service!SNext
  <1>13. ASSUME NEW w \in Workers, WorkerAnswer(w) PROVE UNCHANGED Service!svars
    <2>1. UNCHANGED <<closed, done, runs, outcome>>
      BY <1>13 DEF WorkerAnswer, workerFrame
    <2> QED
      BY <1>3, <1>5, <1>13, <2>1, RunMoves
  <1>14. ASSUME NEW w \in Workers, WorkerFinish(w) PROVE UNCHANGED Service!svars
    <2>1. /\ UNCHANGED <<closed, done, runs, outcome>>
          /\ Handling(w) /\ wstate[w] # "busy"
      BY <1>14 DEF WorkerFinish, workerFrame, Handling
    <2>2. /\ Queued' = Queued /\ Handled' = Handled \ {wjob[w]}
          /\ wjob[w] \in Jobs /\ runs[wjob[w]] = 1
      BY <1>3, <1>14, <2>1, FinishMoves DEF RunInv
    <2>3. \A k \in Jobs : ServiceStatus(k)' = ServiceStatus(k)
      BY <1>1, <1>2, <2>1, <2>2
    <2> QED
      BY <1>4, <2>1, <2>3
  <1>15. ASSUME NEW w \in Workers, WorkerRetire(w) \/ WorkerRetired(w) \/ WorkerExit(w)
         PROVE  UNCHANGED Service!svars
    <2>1. UNCHANGED <<closed, done, runs, outcome>>
      BY <1>15 DEF WorkerRetire, WorkerRetired, WorkerExit, workerFrame
    <2> QED
      BY <1>3, <1>5, <1>15, <2>1, LeavingMoves
  <1>16. ASSUME NEW c \in Closers, Close(c) PROVE [Service!SNext]_(Service!svars)
    <2>1. /\ UNCHANGED <<runs, outcome, queue, wstate, wjob>>
          /\ \A k \in Jobs : ServiceStatus(k)' = ServiceStatus(k)
      <3>1. UNCHANGED <<runs, outcome, queue, wstate, wjob>>
        BY <1>16 DEF Close, CloseCall, CloseLock, CloseJobs, CloseAgain, CloseDone, closeFrame
      <3> QED
        BY <1>1, <1>2, <3>1, NothingMoves
    <2>2. CASE UNCHANGED <<closed, done>>
      BY <1>4, <2>1, <2>2
    <2>3. CASE CloseJobs(c)
      <3>1. Service!StopAdmission
        BY <2>1, <2>3 DEF CloseJobs, Service!StopAdmission
      <3> QED
        BY <3>1 DEF Service!SNext
    <2>4. CASE CloseDone(c) /\ done' # done
      <3>1. /\ closed /\ closed' = closed /\ done' = TRUE /\ done = FALSE
            /\ \A w \in Workers : wstate[w] = "off"
        BY <1>3, <2>4 DEF CloseDone, CloseInv, AllWorkersDone, TypeOK
      <3>2. queue = <<>>
        <4>1. Taking = {}
          BY <3>1 DEF Taking
        <4>2. Cardinality(Taking) = 0
          BY <4>1, FS_EmptySet
        <4> QED
          BY <4>2, ConfigAssumption DEF WorkerInv, WorkerAccounting, Taking
      <3>3. Queued \cup Handled = {}
        BY <3>1, <3>2 DEF Queued, ToSet, Handled, Handling
      <3>4. Service!Admitted = {}
        BY <1>1, <3>3 DEF Service!Admitted
      <3>5. Service!Stop
        BY <2>1, <3>1, <3>4 DEF Service!Stop
      <3> QED
        BY <3>5 DEF Service!SNext
    <2> QED
      BY <1>16, <2>2, <2>3, <2>4
      DEF Close, CloseCall, CloseLock, CloseAgain, CloseDone, closeFrame
  <1>17. CASE UNCHANGED vars
    <2>1. UNCHANGED <<closed, done, runs, outcome, queue, wstate, wjob>>
      BY <1>17 DEF vars
    <2> QED
      BY <1>5, <2>1, NothingMoves
  <1> QED
    BY <1>6, <1>7, <1>8, <1>9, <1>10, <1>11, <1>12, <1>13, <1>14, <1>15, <1>16, <1>17
    DEF Next, Submit, Worker, Handle, Finished

\* Every behaviour of the dispatcher is one of the service: it admits within its
\* capacity, runs what it admitted once, never what it refused, and stops empty.
THEOREM IsJobService == Spec => Service!SSafe
  BY InitService, NextService, InitInv, NextInv, InitWorkerInv, NextWorkerInv,
     InitCloseInv, NextCloseInv, PTL
  DEF Spec, Inv, Service!SSafe

-----------------------------------------------------------------------------
(* Nobody waits for somebody who waits for him. *)

\* Whether the next step of a call, a worker or a Close waits for nobody. (The guards
\* of their steps: ENABLED is out of the prover's reach. Left out is what need not
\* happen: a cancellation, a retirement, a first call of Close.)
CallMoves(j) ==
  \/ pc[j] = "called" /\ writer = None
  \/ pc[j] \in {"admit", "slot", "send", "sent", "scale"}
  \/ pc[j] = "scaling" /\ writer = None
  \/ /\ pc[j] = "scaling" /\ writer = j /\ NoReaders
     /\ MaySpawn => \E w \in Workers : wstate[w] = "off"
  \/ pc[j] = "wait" /\ (j \in answered \cup ctxDone \/ done)

WorkerMoves(w) ==
  \/ wstate[w] \in {"busy", "answered", "retired"}
  \/ wstate[w] = "ran" /\ ResHasRoom(wjob[w])
  \/ wstate[w] = "idle" /\ (queue # <<>> \/ closed)

CloserMoves(c) ==
  \/ cpc[c] = "called" /\ writer = None
  \/ cpc[c] = "locked" /\ NoReaders
  \/ cpc[c] = "draining" /\ AllWorkersDone

\* While a call or a Close is under way, one of them or a worker can go on.
SomebodyMoves ==
  \/ \E j \in Jobs : pc[j] # "returned"
  \/ \E c \in Closers : cpc[c] \notin {"idle", "returned"}
  => \/ \E j \in Jobs : CallMoves(j)
     \/ \E w \in Workers : WorkerMoves(w)
     \/ \E c \in Closers : CloserMoves(c)

\* Who has, or wants, d.mu for writing is where he will take it and let it go.
WriterInv ==
  /\ writer \in Jobs => pc[writer] = "scaling"
  /\ writer \in Closers => cpc[writer] \in {"locked", "draining"}
  /\ \A c \in Closers : cpc[c] \in {"locked", "draining"} => writer = c

\* Only the one who has announced himself moves the write lock on.
LEMMA NextWriterInv == TypeOK /\ WriterInv /\ [Next]_vars => WriterInv'
  <1> SUFFICES ASSUME TypeOK, WriterInv, [Next]_vars PROVE WriterInv'
    OBVIOUS
  <1> USE IdentityAssumption
  <1>1. /\ pc \in [Jobs -> CallStates] /\ cpc \in [Closers -> CloserStates]
        /\ writer \in Jobs \cup Closers \cup {None}
    BY DEF TypeOK
  <1>2. ASSUME UNCHANGED <<writer, cpc>>, writer \in Jobs => pc'[writer] = "scaling"
        PROVE  WriterInv'
    BY <1>2 DEF WriterInv
  <1>3. ASSUME NEW j \in Jobs, Submit(j) \/ Cancel(j) PROVE WriterInv'
    <2>1. CASE AnnounceScaleUp(j)
      BY <1>1, <2>1 DEF AnnounceScaleUp, submitFrame, WriterInv
    <2>2. CASE ScaleUp(j) \/ DeclineScaleUp(j)
      <3>1. writer = j /\ writer' = None /\ cpc' = cpc
        BY <2>2 DEF ScaleUp, DeclineScaleUp, submitFrame
      <3> QED
        BY <3>1 DEF WriterInv
    <2>3. CASE Cancel(j)
      BY <1>2, <2>3 DEF Cancel, WriterInv
    <2>4. CASE ~AnnounceScaleUp(j) /\ ~ScaleUp(j) /\ ~DeclineScaleUp(j) /\ Submit(j)
      <3>1. /\ UNCHANGED <<writer, cpc>> /\ pc[j] # "scaling"
            /\ \A k \in Jobs \ {j} : pc'[k] = pc[k]
        BY <1>1, <2>4 DEF Submit, SubmitRefused, SubmitEnter, RejectPolicy,
           AdmitUnlimited, LookupLimiter, AcquireSlot, RejectLimit, Enqueue,
           AbandonEnqueue, RejectFull, CountAccepted, CheckBacklog,
           Await, Reject, Return, Goto, submitFrame
      <3> QED
        BY <1>2, <3>1 DEF WriterInv
    <2> QED
      BY <1>3, <2>1, <2>2, <2>3, <2>4
  <1>4. ASSUME NEW w \in Workers, Worker(w) PROVE WriterInv'
    <2>1. UNCHANGED <<writer, cpc, pc>>
      BY <1>4 DEF Worker, Handle, WorkerReceive, WorkerInvoke, WorkerAnswer, WorkerFinish,
         WorkerRetire, WorkerRetired, WorkerExit, workerFrame
    <2> QED
      BY <1>2, <2>1 DEF WriterInv
  <1>5. ASSUME NEW c \in Closers, Close(c) PROVE WriterInv'
    <2>1. pc' = pc /\ (\A d \in Closers \ {c} : cpc'[d] = cpc[d])
      BY <1>1, <1>5 DEF Close, CloseCall, CloseLock, CloseJobs, CloseAgain, CloseDone,
         MoveCloser, closeFrame
    <2>2. \/ writer' = writer /\ cpc[c] = "idle" /\ cpc'[c] = "called"
          \/ writer = None /\ writer' = c /\ cpc'[c] = "locked"
          \/ cpc[c] = "locked" /\ writer' = writer /\ cpc'[c] = "draining"
          \/ cpc[c] \in {"locked", "draining"} /\ writer' = None /\ cpc'[c] = "returned"
      BY <1>1, <1>5 DEF Close, CloseCall, CloseLock, CloseJobs, CloseAgain, CloseDone,
         MoveCloser, closeFrame
    <2> QED
      BY <1>1, <2>1, <2>2 DEF WriterInv
  <1>6. CASE UNCHANGED vars
    BY <1>2, <1>6 DEF vars, WriterInv
  <1> QED
    BY <1>3, <1>4, <1>5, <1>6 DEF Next, Finished

\* With no worker busy and nothing queued, who holds the lock goes on, or, if there
\* is no such one, who waits for it does.
LEMMA LockMoves ==
  ASSUME Inv, WorkerInv, CloseInv, WriterInv, Cardinality(Workers) >= MaxWorkers,
         \A w \in Workers : wstate[w] \in {"idle", "off"}, queue = <<>>, readers = {},
         writer # None
  PROVE  \/ CallMoves(writer) /\ writer \in Jobs
         \/ \E w \in Workers : WorkerMoves(w)
         \/ CloserMoves(writer) /\ writer \in Closers
  <1>1. writer \in Jobs \cup Closers
    BY DEF Inv, TypeOK
  <1>2. CASE writer \in Jobs
    <2>1. MaySpawn => \E w \in Workers : wstate[w] = "off"
      <3> SUFFICES ASSUME MaySpawn, \A w \in Workers : wstate[w] = "idle" PROVE FALSE
        OBVIOUS
      <3>1. {w \in Workers : wstate[w] \notin {"off", "retired"}} = Workers
        OBVIOUS
      <3>2. active = Cardinality(Workers) /\ active < MaxWorkers
        BY <3>1 DEF WorkerInv, WorkerAccounting, MaySpawn
      <3>3. Cardinality(Workers) \in Nat
        BY IdentityAssumption, FS_CardinalityType
      <3> QED
        BY <3>2, <3>3, ConfigAssumption
    <2> QED
      BY <1>2, <2>1 DEF WriterInv, CallMoves, NoReaders
  <1>3. CASE writer \in Closers
    <2>1. CASE cpc[writer] = "locked"
      BY <1>3, <2>1 DEF CloserMoves, NoReaders
    <2>2. CASE cpc[writer] = "draining"
      <3>1. closed
        BY <1>3, <2>2 DEF CloseInv
      <3> QED
        BY <1>3, <2>2, <3>1 DEF CloserMoves, WorkerMoves, AllWorkersDone
    <2> QED
      BY <1>3, <2>1, <2>2 DEF WriterInv
  <1> QED
    BY <1>1, <1>2, <1>3

LEMMA InvMoves ==
  ASSUME Inv, WorkerInv, CloseInv, WriterInv, Cardinality(Workers) >= MaxWorkers
  PROVE  SomebodyMoves
  <1> SUFFICES ASSUME \/ \E j \in Jobs : pc[j] # "returned"
                      \/ \E c \in Closers : cpc[c] \notin {"idle", "returned"},
                      \A j \in Jobs : ~CallMoves(j), \A w \in Workers : ~WorkerMoves(w),
                      \A c \in Closers : ~CloserMoves(c)
               PROVE  FALSE
    BY DEF SomebodyMoves
  <1>1. \A w \in Workers : wstate[w] \in {"idle", "off"}
    <2> SUFFICES ASSUME NEW w \in Workers PROVE wstate[w] \in {"idle", "off"}
      OBVIOUS
    <2>1. wstate[w] \in WorkerStates
      BY DEF Inv, TypeOK
    <2>2. wstate[w] # "ran"
      <3>1. wstate[w] = "ran" => ResHasRoom(wjob[w])
        BY DEF Inv, RunInv, Handling, ResHasRoom
      <3> QED
        BY <3>1 DEF WorkerMoves
    <2> QED
      BY <2>1, <2>2 DEF WorkerMoves, WorkerStates
  <1>2. queue = <<>>
    <2>1. CASE active < MinWorkers
      BY <2>1 DEF WorkerInv
    <2>2. CASE ~(active < MinWorkers)
      <3>1. active \in Int /\ active = Cardinality({w \in Workers : wstate[w] \notin {"off", "retired"}})
        BY DEF WorkerInv, WorkerAccounting, Inv, TypeOK
      <3>2. Cardinality({w \in Workers : wstate[w] \notin {"off", "retired"}}) # 0
        BY <2>2, <3>1, ConfigAssumption
      <3>3. {w \in Workers : wstate[w] \notin {"off", "retired"}} # {}
        BY <3>2, FS_EmptySet
      <3> QED
        BY <1>1, <3>3 DEF WorkerMoves
    <2> QED
      BY <2>1, <2>2
  <1>3. readers = {}
    <2>1. \A j \in Jobs : ~Inside(j)
      BY DEF CallMoves, Inside
    <2> QED
      BY <2>1 DEF Inv, LockInv
  <1>4. writer = None
    BY <1>1, <1>2, <1>3, LockMoves
  <1>5. \A j \in Jobs : pc[j] = "returned"
    <2> SUFFICES ASSUME NEW j \in Jobs, pc[j] # "returned" PROVE FALSE
      OBVIOUS
    <2>1. pc[j] = "wait"
      BY <1>4 DEF CallMoves, Inv, TypeOK, CallStates
    <2>2. j \notin Queued \cup Handled
      BY <1>1, <1>2 DEF Queued, ToSet, Handled, Handling
    <2>3. j \in answered
      BY <2>1, <2>2 DEF Inv, RunInv, Sent
    <2> QED
      BY <2>1, <2>3 DEF CallMoves
  <1>6. \A c \in Closers : cpc[c] \in {"idle", "returned"}
    BY <1>4, IdentityAssumption DEF CloserMoves, WriterInv, Inv, TypeOK, CloserStates
  <1> QED
    BY <1>5, <1>6

\* The dispatcher never comes to a stop with work in hand: whatever Submit, the
\* workers, the scale-up and Close hold and wait for, some of them can go on
\* (SomebodyMoves), provided that there is a goroutine for each of MaxWorkers
\* workers. Close keeps d.mu while it waits for the workers, and these never take it;
\* no worker waits for a caller; who sent a job left d.mu before it asked for more
\* workers (dispatcher.go:124-172, 207-216, 254-261, 288-303).
THEOREM NobodyDeadlocks ==
  ASSUME Cardinality(Workers) >= MaxWorkers
  PROVE  Spec => []SomebodyMoves
  <1>1. Init => WriterInv
    BY IdentityAssumption DEF Init, WriterInv
  <1>2. Inv /\ WorkerInv /\ CloseInv /\ WriterInv => SomebodyMoves
    BY InvMoves
  <1> QED
    BY <1>1, <1>2, NextWriterInv, InitInv, NextInv, InitWorkerInv, NextWorkerInv,
       InitCloseInv, NextCloseInv, PTL
    DEF Spec, Inv
=============================================================================

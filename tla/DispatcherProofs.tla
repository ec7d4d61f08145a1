-------------------------- MODULE DispatcherProofs --------------------------
(***************************************************************************)
(* What is proved of the dispatcher for every set of calls, workers and    *)
(* configuration.                                                          *)
(***************************************************************************)
EXTENDS DispatcherProps, FiniteSetTheorems, TLAPS

-----------------------------------------------------------------------------
(* Type correctness. *)

TelType == tel \in [Functions -> [Counters -> Nat]]

\* Counting keeps the table of counters a table of counters.
LEMMA CountType ==
  ASSUME TelType, NEW j \in Jobs, NEW n \in Counters, CountFor(j, n)
  PROVE  TelType'
  <1>1. FnOf[j] \in Functions
    BY CallAssumption
  <1>2. tel[FnOf[j]] \in [Counters -> Nat]
    BY <1>1 DEF TelType
  <1>3. [tel[FnOf[j]] EXCEPT ![n] = @ + 1] \in [Counters -> Nat]
    BY <1>2
  <1> QED
    BY <1>1, <1>3 DEF TelType, CountFor

\* NewDispatcher starts every variable with a value of its type.
LEMMA InitTypeOK == Init => TypeOK
  <1> SUFFICES ASSUME Init PROVE TypeOK
    OBVIOUS
  <1>1. /\ wstate \in [Workers -> {"off", "idle"}]
        /\ \A w \in Workers : ~Handling(w)
    BY DEF Init, Handling
  <1>2. wstate \in [Workers -> WorkerStates]
    BY <1>1 DEF WorkerStates
  <1>3. tel \in [Functions -> [Counters -> Nat]]
    BY DEF Init
  <1>4. queue \in Seq(Jobs) /\ Len(queue) <= QueueSize
    BY ConfigAssumption DEF Init
  <1>5. /\ limits \in [Functions -> Jobs \cup {None}]
        /\ limiter \in [Jobs -> Jobs \cup {None}]
        /\ slots \in [Jobs -> SUBSET Jobs]
        /\ wjob \in [Workers -> Jobs \cup {None}]
    BY DEF Init
  <1>6. /\ pc \in [Jobs -> CallStates] /\ outcome \in [Jobs -> Outcomes]
        /\ cpc \in [Closers -> CloserStates] /\ runs \in [Jobs -> Nat]
    BY DEF Init, CallStates, Outcomes, CloserStates
  <1>7. /\ ctxDone \subseteq Jobs /\ readers \subseteq Jobs /\ answered \subseteq Jobs
        /\ writer \in Jobs \cup Closers \cup {None}
        /\ closed \in BOOLEAN /\ done \in BOOLEAN
    BY Zenon DEF Init
  <1>8. /\ accepted \in Nat /\ rejected \in Nat /\ completed \in Nat
        /\ active \in Int /\ scaleUps \in Nat /\ scaleDown \in Nat
    BY ConfigAssumption DEF Init
  <1> QED
    BY <1>1, <1>2, <1>3, <1>4, <1>5, <1>6, <1>7, <1>8 DEF TypeOK

\* No step of Submit, of a worker or of Close takes a variable out of its type.
LEMMA NextTypeOK == TypeOK /\ [Next]_vars => TypeOK'
  <1> SUFFICES ASSUME TypeOK, [Next]_vars PROVE TypeOK'
    OBVIOUS
  <1> USE DEF TypeOK, CallStates, Outcomes, Refusals, WorkerStates, CloserStates,
              Handling, Goto, Return, RUnlock
  <1>1. ASSUME NEW j \in Jobs, Cancel(j) PROVE TypeOK'
    BY <1>1 DEF Cancel
  <1>2. ASSUME NEW j \in Jobs, SubmitRefused(j) PROVE TypeOK'
    BY <1>2 DEF SubmitRefused, submitFrame
  <1>3. ASSUME NEW j \in Jobs, SubmitEnter(j) PROVE TypeOK'
    BY <1>3 DEF SubmitEnter, submitFrame
  <1>4. ASSUME NEW j \in Jobs, RejectPolicy(j) \/ RejectLimit(j) PROVE TypeOK'
    <2>1. TelType'
      BY <1>4, CountType DEF RejectPolicy, RejectLimit, Reject, TelType, Counters
    <2>2. CASE RejectPolicy(j)
      BY <2>1, <2>2 DEF RejectPolicy, Reject, submitFrame, TelType
    <2>3. CASE RejectLimit(j)
      BY <2>1, <2>3 DEF RejectLimit, Reject, submitFrame, TelType
    <2> QED
      BY <1>4, <2>2, <2>3
  <1>5. ASSUME NEW j \in Jobs, AdmitUnlimited(j) PROVE TypeOK'
    BY <1>5 DEF AdmitUnlimited, submitFrame
  <1>6. ASSUME NEW j \in Jobs, LookupLimiter(j) PROVE TypeOK'
    BY <1>6, CallAssumption DEF LookupLimiter, submitFrame
  <1>7. ASSUME NEW j \in Jobs, AcquireSlot(j) PROVE TypeOK'
    BY <1>7 DEF AcquireSlot, submitFrame
  <1>8. ASSUME NEW j \in Jobs, Enqueue(j) PROVE TypeOK'
    <2>1. queue' \in Seq(Jobs) /\ Len(queue') <= QueueSize
      BY <1>8, ConfigAssumption DEF Enqueue, HasRoom
    <2> QED
      BY <1>8, <2>1 DEF Enqueue, submitFrame
  <1>9. ASSUME NEW j \in Jobs, AbandonEnqueue(j) PROVE TypeOK'
    BY <1>9 DEF AbandonEnqueue, ReleaseLimit, submitFrame
  <1>10. ASSUME NEW j \in Jobs, RejectFull(j) PROVE TypeOK'
    <2>1. TelType'
      BY <1>10, CountType DEF RejectFull, Reject, TelType, Counters
    <2> QED
      BY <1>10, <2>1 DEF RejectFull, Reject, ReleaseLimit, submitFrame, TelType
  <1>11. ASSUME NEW j \in Jobs, CountAccepted(j) PROVE TypeOK'
    <2>1. TelType'
      BY <1>11, CountType DEF CountAccepted, TelType, Counters
    <2> QED
      BY <1>11, <2>1 DEF CountAccepted, submitFrame, TelType
  <1>12. ASSUME NEW j \in Jobs,
                CheckBacklog(j) \/ AnnounceScaleUp(j) \/ DeclineScaleUp(j) \/ Await(j)
         PROVE TypeOK'
    <2>1. CASE CheckBacklog(j)
      BY <2>1 DEF CheckBacklog, submitFrame
    <2>2. CASE AnnounceScaleUp(j)
      BY <2>2 DEF AnnounceScaleUp, submitFrame
    <2>3. CASE DeclineScaleUp(j)
      BY <2>3 DEF DeclineScaleUp, submitFrame
    <2>4. CASE Await(j)
      <3>1. PICK r \in {"result", "ctx", "done"} : Return(j, r)
        BY <2>4, Zenon DEF Await
      <3>2. pc' \in [Jobs -> CallStates] /\ outcome' \in [Jobs -> Outcomes]
        BY <3>1
      <3> QED
        BY <2>4, <3>2 DEF Await, submitFrame
    <2> QED
      BY <1>12, <2>1, <2>2, <2>3, <2>4
  <1>13. ASSUME NEW j \in Jobs, ScaleUp(j) PROVE TypeOK'
    BY <1>13 DEF ScaleUp
  <1>14. ASSUME NEW w \in Workers, WorkerReceive(w) PROVE TypeOK'
    <2>1. /\ Head(queue) \in Jobs
          /\ Tail(queue) \in Seq(Jobs) /\ Len(Tail(queue)) <= QueueSize
      BY <1>14, ConfigAssumption DEF WorkerReceive
    <2>2. TelType'
      BY <1>14, <2>1, CountType DEF WorkerReceive, TelType, Counters
    <2> QED
      BY <1>14, <2>1, <2>2 DEF WorkerReceive, workerFrame, TelType
  <1>15. ASSUME NEW w \in Workers, WorkerInvoke(w) PROVE TypeOK'
    <2>1. TelType'
      BY <1>15, CountType DEF WorkerInvoke, TelType, Counters
    <2>2. runs' \in [Jobs -> Nat]
      BY <1>15 DEF WorkerInvoke
    <2>3. wstate' \in [Workers -> WorkerStates] /\ completed' \in Nat
      BY <1>15 DEF WorkerInvoke
    <2>4. \A v \in Workers : Handling(v)' => wjob'[v] \in Jobs
      BY <1>15 DEF WorkerInvoke
    <2> QED
      BY <1>15, <2>1, <2>2, <2>3, <2>4 DEF WorkerInvoke, workerFrame, TelType
  <1>16. ASSUME NEW w \in Workers, WorkerAnswer(w) PROVE TypeOK'
    BY <1>16 DEF WorkerAnswer, workerFrame
  <1>17. ASSUME NEW w \in Workers, WorkerFinish(w) PROVE TypeOK'
    BY <1>17 DEF WorkerFinish, ReleaseLimit, workerFrame
  <1>18. ASSUME NEW w \in Workers,
                WorkerRetire(w) \/ WorkerRetired(w) \/ WorkerExit(w)
         PROVE TypeOK'
    <2>1. CASE WorkerRetire(w)
      BY <2>1 DEF WorkerRetire, workerFrame
    <2>2. CASE WorkerRetired(w)
      BY <2>2 DEF WorkerRetired, workerFrame
    <2>3. CASE WorkerExit(w)
      BY <2>3 DEF WorkerExit, workerFrame
    <2> QED
      BY <1>18, <2>1, <2>2, <2>3
  <1>19. ASSUME NEW c \in Closers, Close(c) PROVE TypeOK'
    BY <1>19 DEF Close, CloseCall, CloseLock, CloseJobs, CloseAgain, CloseDone,
                 MoveCloser, closeFrame
  <1>20. CASE UNCHANGED vars
    BY <1>20 DEF vars
  <1> QED
    BY <1>1, <1>2, <1>3, <1>4, <1>5, <1>6, <1>7, <1>8, <1>9, <1>10, <1>11, <1>12,
       <1>13, <1>14, <1>15, <1>16, <1>17, <1>18, <1>19, <1>20
    DEF Next, Submit, Worker, Handle, Finished

\* Every variable keeps its type and the queue its capacity.
THEOREM TypeCorrect == Spec => []TypeOK
  BY InitTypeOK, NextTypeOK, PTL DEF Spec

-----------------------------------------------------------------------------
(* The read lock. *)

\* Nobody holds the read lock of a new dispatcher.
LEMMA InitLockInv == Init => LockInv
  BY DEF Init, LockInv, Inside

\* A call that releases the read lock leaves the section it protects.
LEMMA LeavingLockInv ==
  ASSUME TypeOK, LockInv, NEW j \in Jobs, NEW label,
         label \notin {"admit", "slot", "send", "sent"},
         Goto(j, label), RUnlock(j), UNCHANGED closed
  PROVE  LockInv'
  <1>1. \A k \in Jobs : k \in readers' <=> Inside(k)'
    BY DEF TypeOK, LockInv, Inside, Goto, RUnlock
  <1>2. readers' \subseteq Jobs
    BY DEF TypeOK, RUnlock
  <1> QED
    BY <1>1, <1>2 DEF LockInv, RUnlock

\* Every step keeps the readers equal to the calls between RLock and RUnlock,
\* and Close does not close the channel while there are any.
LEMMA NextLockInv == TypeOK /\ LockInv /\ [Next]_vars => LockInv'
  <1> SUFFICES ASSUME TypeOK, LockInv, [Next]_vars PROVE LockInv'
    OBVIOUS
  <1> USE DEF TypeOK, LockInv, Inside, Goto, Return
  <1>1. ASSUME NEW j \in Jobs, Cancel(j) \/ SubmitRefused(j) PROVE LockInv'
    BY <1>1 DEF Cancel, SubmitRefused, submitFrame
  <1>2. ASSUME NEW j \in Jobs, SubmitEnter(j) PROVE LockInv'
    BY <1>2 DEF SubmitEnter, submitFrame
  <1>3. ASSUME NEW j \in Jobs, RejectPolicy(j) \/ RejectLimit(j) \/ RejectFull(j)
        PROVE LockInv'
    <2>1. Goto(j, "returned") /\ RUnlock(j) /\ UNCHANGED closed
      BY <1>3 DEF RejectPolicy, RejectLimit, RejectFull, Reject, submitFrame
    <2> QED
      BY <2>1, LeavingLockInv
  <1>4. ASSUME NEW j \in Jobs, AdmitUnlimited(j) \/ LookupLimiter(j) \/ AcquireSlot(j)
        PROVE LockInv'
    BY <1>4 DEF AdmitUnlimited, LookupLimiter, AcquireSlot, submitFrame
  <1>5. ASSUME NEW j \in Jobs, Enqueue(j) PROVE LockInv'
    BY <1>5 DEF Enqueue, submitFrame
  <1>6. ASSUME NEW j \in Jobs, AbandonEnqueue(j) \/ CountAccepted(j) PROVE LockInv'
    <2>1. /\ Goto(j, "returned") \/ Goto(j, "scale")
          /\ RUnlock(j) /\ UNCHANGED closed
      BY <1>6 DEF AbandonEnqueue, CountAccepted, submitFrame
    <2> QED
      BY <2>1, LeavingLockInv
  <1>7. ASSUME NEW j \in Jobs, CheckBacklog(j) \/ AnnounceScaleUp(j) \/ DeclineScaleUp(j)
        PROVE LockInv'
    <2>1. CASE CheckBacklog(j)
      BY <2>1 DEF CheckBacklog, submitFrame
    <2>2. CASE AnnounceScaleUp(j)
      BY <2>2 DEF AnnounceScaleUp, submitFrame
    <2>3. CASE DeclineScaleUp(j)
      BY <2>3 DEF DeclineScaleUp, submitFrame
    <2> QED
      BY <1>7, <2>1, <2>2, <2>3
  <1>8. ASSUME NEW j \in Jobs, ScaleUp(j) PROVE LockInv'
    BY <1>8 DEF ScaleUp
  <1>9. ASSUME NEW j \in Jobs, Await(j) PROVE LockInv'
    <2>1. /\ pc[j] = "wait" /\ pc' = [pc EXCEPT ![j] = "returned"]
          /\ readers' = readers /\ closed' = closed
      BY <1>9, Zenon DEF Await, submitFrame
    <2> QED
      BY <2>1
  <1>10. ASSUME NEW w \in Workers, Worker(w) PROVE LockInv'
    BY <1>10 DEF Worker, Handle, WorkerReceive, WorkerInvoke, WorkerAnswer,
                 WorkerFinish, WorkerRetire, WorkerRetired, WorkerExit, workerFrame
  <1>11. ASSUME NEW c \in Closers, Close(c) PROVE LockInv'
    BY <1>11 DEF Close, CloseCall, CloseLock, CloseJobs, CloseAgain, CloseDone,
                 NoReaders, closeFrame
  <1>12. CASE UNCHANGED vars
    BY <1>12 DEF vars
  <1> QED
    BY <1>1, <1>2, <1>3, <1>4, <1>5, <1>6, <1>7, <1>8, <1>9, <1>10, <1>11, <1>12
    DEF Next, Submit, Finished

\* A send on the jobs channel never meets a closed channel.
THEOREM NeverSendsOnClosedChannel == Spec => []NoSendOnClosedChannel
  <1>1. TypeOK /\ LockInv => NoSendOnClosedChannel
    BY DEF TypeOK, LockInv, Inside, NoSendOnClosedChannel
  <1> QED
    BY InitTypeOK, NextTypeOK, InitLockInv, NextLockInv, <1>1, PTL DEF Spec

-----------------------------------------------------------------------------
(* Where a job is. *)

\* Sending to a channel of distinct jobs one that is not in it.
LEMMA AppendItems ==
  ASSUME NEW S, NEW q \in Seq(S), NEW e \in S
  PROVE  /\ ToSet(Append(q, e)) = ToSet(q) \cup {e}
         /\ IsInjective(q) /\ e \notin ToSet(q) => IsInjective(Append(q, e))
  <1> DEFINE r == Append(q, e)
  <1>1. /\ DOMAIN r = 1 .. Len(q) + 1 /\ DOMAIN q = 1 .. Len(q) /\ Len(q) \in Nat
        /\ \A i \in 1 .. Len(q) : r[i] = q[i]
        /\ r[Len(q) + 1] = e
    OBVIOUS
  <1>2. \A x : x \in ToSet(r) <=> x \in ToSet(q) \/ x = e
    BY <1>1 DEF ToSet
  <1>3. ASSUME IsInjective(q), e \notin ToSet(q) PROVE IsInjective(r)
    BY <1>1, <1>3 DEF IsInjective, ToSet
  <1> QED
    BY <1>2, <1>3

\* Receiving from a channel of distinct jobs takes one of them out of it.
LEMMA TailItems ==
  ASSUME NEW S, NEW q \in Seq(S), q # <<>>, IsInjective(q)
  PROVE  /\ ToSet(Tail(q)) = ToSet(q) \ {Head(q)}
         /\ Head(q) \in ToSet(q)
         /\ IsInjective(Tail(q))
  <1> DEFINE t == Tail(q)
  <1>1. /\ DOMAIN q = 1 .. Len(q) /\ Len(q) \in Nat /\ Len(q) > 0
        /\ DOMAIN t = 1 .. Len(q) - 1
        /\ \A i \in 1 .. Len(q) - 1 : t[i] = q[i + 1]
        /\ Head(q) = q[1]
    OBVIOUS
  <1>2. \A x : x \in ToSet(t) <=> x \in ToSet(q) /\ x # Head(q)
    <2>1. ASSUME NEW x, x \in ToSet(t) PROVE x \in ToSet(q) /\ x # Head(q)
      BY <1>1, <2>1 DEF ToSet, IsInjective
    <2>2. ASSUME NEW x, x \in ToSet(q), x # Head(q) PROVE x \in ToSet(t)
      <3>1. PICK i \in 1 .. Len(q) : x = q[i]
        BY <1>1, <2>2 DEF ToSet
      <3>2. i - 1 \in 1 .. Len(q) - 1 /\ t[i - 1] = x
        BY <1>1, <2>2, <3>1
      <3> QED
        BY <1>1, <3>2 DEF ToSet
    <2> QED
      BY <2>1, <2>2
  <1>3. Head(q) \in ToSet(q)
    BY <1>1 DEF ToSet
  <1>4. IsInjective(t)
    BY <1>1 DEF IsInjective
  <1> QED
    BY <1>2, <1>3, <1>4

\* The steps that move no job and say nothing new of one.
Still ==
  /\ UNCHANGED <<queue, wjob, runs, answered>>
  /\ \A w \in Workers : Handling(w)' <=> Handling(w)
  /\ \A w \in Workers : Handling(w) => wstate'[w] = wstate[w]
  /\ \A j \in Jobs : Sent(j)' <=> Sent(j)
  /\ \A j \in Jobs : outcome'[j] # "none" <=> pc'[j] = "returned"
  /\ \A j \in Jobs : outcome'[j] = "result" => outcome[j] = "result" \/ j \in answered

\* A step that moves no job and changes no result follows from facts per call.
LEMMA StillByCall ==
  ASSUME UNCHANGED <<queue, wjob, wstate, runs, answered>>,
         \A k \in Jobs : Sent(k)' <=> Sent(k),
         \A k \in Jobs : outcome'[k] # "none" <=> pc'[k] = "returned",
         \A k \in Jobs : outcome'[k] = outcome[k] \/ outcome'[k] \in Refusals
  PROVE  Still
  BY DEF Still, Handling, Refusals

\* Only a send and a worker that handles a job are steps of another kind.
LEMMA Classify ==
  TypeOK /\ PlaceInv /\ [Next]_vars =>
    \/ Still
    \/ \E j \in Jobs : Enqueue(j)
    \/ \E w \in Workers : Handle(w)
  <1> SUFFICES ASSUME TypeOK, PlaceInv, [Next]_vars,
                      \A j \in Jobs : ~Enqueue(j), \A w \in Workers : ~Handle(w)
               PROVE  Still
    OBVIOUS
  <1>1. ASSUME NEW j \in Jobs, Cancel(j) PROVE Still
    <2>1. UNCHANGED <<queue, wjob, wstate, runs, answered>>
      BY <1>1 DEF Cancel, submitFrame
    <2>2. /\ \A k \in Jobs : Sent(k)' <=> Sent(k)
          /\ \A k \in Jobs : outcome'[k] # "none" <=> pc'[k] = "returned"
          /\ \A k \in Jobs : outcome'[k] = outcome[k] \/ outcome'[k] \in Refusals
      BY <1>1 DEF Cancel, submitFrame, Sent, PlaceInv, TypeOK, Goto, Return, Refusals
    <2> QED
      BY <2>1, <2>2, StillByCall
  <1>2. ASSUME NEW j \in Jobs, SubmitRefused(j) \/ SubmitEnter(j) PROVE Still
    <2>1. UNCHANGED <<queue, wjob, wstate, runs, answered>>
      BY <1>2 DEF SubmitRefused, SubmitEnter, submitFrame
    <2>2. /\ \A k \in Jobs : Sent(k)' <=> Sent(k)
          /\ \A k \in Jobs : outcome'[k] # "none" <=> pc'[k] = "returned"
          /\ \A k \in Jobs : outcome'[k] = outcome[k] \/ outcome'[k] \in Refusals
      BY <1>2 DEF SubmitRefused, SubmitEnter, submitFrame, Sent, PlaceInv, TypeOK, Goto, Return, Refusals
    <2> QED
      BY <2>1, <2>2, StillByCall
  <1>3. ASSUME NEW j \in Jobs, RejectPolicy(j) \/ RejectLimit(j) \/ RejectFull(j)
        PROVE Still
    <2>1. /\ pc[j] \in {"admit", "slot", "send"}
          /\ \E why \in Refusals : Return(j, why)
          /\ UNCHANGED <<queue, wjob, wstate, runs, answered>>
      BY <1>3 DEF RejectPolicy, RejectLimit, RejectFull, Reject, submitFrame, Refusals
    <2>2. PICK why \in Refusals : Return(j, why)
      BY <2>1
    <2>3. \A k \in Jobs : outcome'[k] # "none" <=> pc'[k] = "returned"
      BY <2>2 DEF Goto, Return, PlaceInv, TypeOK, Refusals
    <2>4. \A k \in Jobs : Sent(k)' <=> Sent(k)
      BY <2>1, <2>2 DEF Goto, Return, PlaceInv, TypeOK, Sent, Refusals
    <2>5. \A k \in Jobs : outcome'[k] = outcome[k] \/ outcome'[k] \in Refusals
      BY <2>2 DEF Return, TypeOK
    <2> QED
      BY <2>1, <2>3, <2>4, <2>5, StillByCall
  <1>4. ASSUME NEW j \in Jobs, AdmitUnlimited(j) \/ LookupLimiter(j) \/ AcquireSlot(j)
        PROVE Still
    <2>1. UNCHANGED <<queue, wjob, wstate, runs, answered>>
      BY <1>4 DEF AdmitUnlimited, LookupLimiter, AcquireSlot, submitFrame
    <2>2. /\ \A k \in Jobs : Sent(k)' <=> Sent(k)
          /\ \A k \in Jobs : outcome'[k] # "none" <=> pc'[k] = "returned"
          /\ \A k \in Jobs : outcome'[k] = outcome[k] \/ outcome'[k] \in Refusals
      BY <1>4 DEF AdmitUnlimited, LookupLimiter, AcquireSlot, submitFrame, Sent, PlaceInv, TypeOK, Goto, Return, Refusals
    <2> QED
      BY <2>1, <2>2, StillByCall
  <1>5. ASSUME NEW j \in Jobs, AbandonEnqueue(j) PROVE Still
    <2>1. UNCHANGED <<queue, wjob, wstate, runs, answered>>
      BY <1>5 DEF AbandonEnqueue, submitFrame
    <2>2. /\ \A k \in Jobs : Sent(k)' <=> Sent(k)
          /\ \A k \in Jobs : outcome'[k] # "none" <=> pc'[k] = "returned"
          /\ \A k \in Jobs : outcome'[k] = outcome[k] \/ outcome'[k] \in Refusals
      BY <1>5 DEF AbandonEnqueue, submitFrame, Sent, PlaceInv, TypeOK, Goto, Return, Refusals
    <2> QED
      BY <2>1, <2>2, StillByCall
  <1>6. ASSUME NEW j \in Jobs, CountAccepted(j) PROVE Still
    <2>1. UNCHANGED <<queue, wjob, wstate, runs, answered>>
      BY <1>6 DEF CountAccepted, submitFrame
    <2>2. /\ \A k \in Jobs : Sent(k)' <=> Sent(k)
          /\ \A k \in Jobs : outcome'[k] # "none" <=> pc'[k] = "returned"
          /\ \A k \in Jobs : outcome'[k] = outcome[k] \/ outcome'[k] \in Refusals
      BY <1>6 DEF CountAccepted, submitFrame, Sent, PlaceInv, TypeOK, Goto, Return, Refusals
    <2> QED
      BY <2>1, <2>2, StillByCall
  <1>7. ASSUME NEW j \in Jobs, CheckBacklog(j) \/ AnnounceScaleUp(j) \/ DeclineScaleUp(j)
        PROVE Still
    <2>1. UNCHANGED <<queue, wjob, wstate, runs, answered>>
      BY <1>7 DEF CheckBacklog, AnnounceScaleUp, DeclineScaleUp, submitFrame
    <2>2. /\ \A k \in Jobs : Sent(k)' <=> Sent(k)
          /\ \A k \in Jobs : outcome'[k] # "none" <=> pc'[k] = "returned"
          /\ \A k \in Jobs : outcome'[k] = outcome[k] \/ outcome'[k] \in Refusals
      BY <1>7 DEF CheckBacklog, AnnounceScaleUp, DeclineScaleUp, submitFrame, Sent, PlaceInv, TypeOK, Goto, Return, Refusals
    <2> QED
      BY <2>1, <2>2, StillByCall
  <1>8. ASSUME NEW j \in Jobs, ScaleUp(j) PROVE Still
    <2>1. UNCHANGED <<queue, wjob, runs, answered, outcome>>
      BY <1>8 DEF ScaleUp
    <2>2. PICK w \in Workers :
            wstate[w] = "off" /\ wstate' = [wstate EXCEPT ![w] = "idle"]
      BY <1>8 DEF ScaleUp
    <2>3. \A v \in Workers : Handling(v)' <=> Handling(v)
      BY <2>2 DEF Handling, TypeOK
    <2>4. \A v \in Workers : Handling(v) => wstate'[v] = wstate[v]
      BY <2>2 DEF Handling, TypeOK
    <2>5. \A k \in Jobs : outcome'[k] # "none" <=> pc'[k] = "returned"
      BY <1>8 DEF ScaleUp, PlaceInv, Goto, TypeOK
    <2>6. \A k \in Jobs : Sent(k)' <=> Sent(k)
      BY <1>8 DEF ScaleUp, Sent, Goto, TypeOK
    <2> QED
      BY <2>1, <2>3, <2>4, <2>5, <2>6 DEF Still
  <1>9. ASSUME NEW j \in Jobs, Await(j) PROVE Still
    <2>1. /\ pc[j] = "wait"
          /\ \E r \in {"result", "ctx", "done"} :
               Return(j, r) /\ (r = "result" => j \in answered)
          /\ UNCHANGED <<queue, wjob, wstate, runs, answered>>
      BY <1>9, Zenon DEF Await, submitFrame
    <2>2. PICK r \in {"result", "ctx", "done"} :
            Return(j, r) /\ (r = "result" => j \in answered)
      BY <2>1
    <2>3. \A k \in Jobs : Sent(k)' <=> Sent(k)
      BY <2>1, <2>2 DEF Sent, Goto, Return, TypeOK
    <2>4. \A k \in Jobs : outcome'[k] # "none" <=> pc'[k] = "returned"
      BY <2>2 DEF PlaceInv, Goto, Return, TypeOK
    <2>5. \A k \in Jobs : outcome'[k] = "result" => outcome[k] = "result" \/ k \in answered
      BY <2>2 DEF Return, TypeOK
    <2>6. \A w \in Workers : Handling(w)' <=> Handling(w)
      BY <2>1 DEF Handling
    <2> QED
      BY <2>1, <2>3, <2>4, <2>5, <2>6 DEF Still
  <1>10. ASSUME NEW w \in Workers,
                WorkerRetire(w) \/ WorkerRetired(w) \/ WorkerExit(w)
         PROVE Still
    <2>1. /\ wstate[w] \in {"idle", "retired"}
          /\ \E l \in {"off", "retired"} : wstate' = [wstate EXCEPT ![w] = l]
          /\ UNCHANGED <<queue, wjob, runs, answered, pc, outcome>>
      BY <1>10 DEF WorkerRetire, WorkerRetired, WorkerExit, workerFrame
    <2>2. \A v \in Workers : Handling(v)' <=> Handling(v)
      BY <2>1 DEF Handling, TypeOK
    <2>3. \A v \in Workers : Handling(v) => wstate'[v] = wstate[v]
      BY <2>1 DEF Handling, TypeOK
    <2>4. \A k \in Jobs : outcome'[k] # "none" <=> pc'[k] = "returned"
      BY <2>1 DEF PlaceInv
    <2>5. \A j \in Jobs : Sent(j)' <=> Sent(j)
      BY <2>1 DEF Sent
    <2> QED
      BY <2>1, <2>2, <2>3, <2>4, <2>5 DEF Still
  <1>11. ASSUME \/ \E c \in Closers : Close(c)
                \/ UNCHANGED vars
         PROVE Still
    <2>1. UNCHANGED <<queue, wjob, wstate, runs, answered, pc, outcome>>
      BY <1>11 DEF Close, CloseCall, CloseLock, CloseJobs, CloseAgain, CloseDone,
                   closeFrame, vars
    <2>2. \A k \in Jobs : outcome'[k] # "none" <=> pc'[k] = "returned"
      BY <2>1 DEF PlaceInv
    <2>3. \A k \in Jobs : Sent(k)' <=> Sent(k)
      BY <2>1 DEF Sent
    <2> QED
      BY <2>1, <2>2, <2>3, StillByCall
  <1> QED
    BY <1>1, <1>2, <1>3, <1>4, <1>5, <1>6, <1>7, <1>8, <1>9, <1>10, <1>11
    DEF Next, Submit, Worker, Finished

\* A new dispatcher has no job anywhere.
LEMMA InitPlaceInv == Init => PlaceInv
  <1> SUFFICES ASSUME Init PROVE PlaceInv
    OBVIOUS
  <1>1. \A w \in Workers : ~Handling(w)
    BY DEF Init, Handling
  <1>2. Queued = {} /\ Handled = {} /\ IsInjective(queue)
    BY <1>1 DEF Init, Queued, Handled, ToSet, IsInjective
  <1> QED
    BY <1>1, <1>2 DEF Init, PlaceInv

\* Every step leaves a job that was sent in at most one place.
LEMMA NextPlaceInv == TypeOK /\ PlaceInv /\ [Next]_vars => PlaceInv'
  <1> SUFFICES ASSUME TypeOK, PlaceInv, [Next]_vars PROVE PlaceInv'
    OBVIOUS
  <1>1. CASE Still
    <2>1. Queued' = Queued /\ Handled' = Handled
      BY <1>1 DEF Still, Queued, Handled
    <2> QED
      BY <1>1, <2>1 DEF Still, PlaceInv
  <1>2. ASSUME NEW j \in Jobs, Enqueue(j) PROVE PlaceInv'
    <2>1. /\ pc[j] = "send" /\ outcome[j] = "none" /\ ~Sent(j)
          /\ pc' = [pc EXCEPT ![j] = "sent"] /\ outcome' = outcome
          /\ queue' = Append(queue, j)
          /\ UNCHANGED <<wstate, wjob>>
      BY <1>2 DEF Enqueue, submitFrame, PlaceInv, Sent, Goto, TypeOK
    <2>2. j \notin Queued \cup Handled
      BY <2>1 DEF PlaceInv
    <2>3. Queued' = Queued \cup {j} /\ IsInjective(queue')
      BY <2>1, <2>2, AppendItems DEF Queued, PlaceInv, TypeOK
    <2>4. Handled' = Handled /\ \A w \in Workers : Handling(w)' <=> Handling(w)
      BY <2>1 DEF Handled, Handling
    <2>5. Sent(j)' /\ \A k \in Jobs \ {j} : Sent(k)' <=> Sent(k)
      BY <2>1 DEF Sent, TypeOK
    <2>6. \A k \in Jobs : outcome'[k] # "none" <=> pc'[k] = "returned"
      BY <2>1 DEF PlaceInv, TypeOK
    <2> QED
      BY <2>1, <2>2, <2>3, <2>4, <2>5, <2>6 DEF PlaceInv
  <1>3. ASSUME NEW w \in Workers, WorkerReceive(w) PROVE PlaceInv'
    <2> DEFINE h == Head(queue)
    <2>1. /\ wstate[w] = "idle" /\ queue # <<>>
          /\ queue' = Tail(queue)
          /\ wjob' = [wjob EXCEPT ![w] = h]
          /\ wstate' = [wstate EXCEPT ![w] = "busy"]
          /\ UNCHANGED <<pc, outcome>>
      BY <1>3 DEF WorkerReceive, workerFrame
    <2>2. Queued' = Queued \ {h} /\ h \in Queued /\ IsInjective(queue')
      BY <2>1, TailItems DEF Queued, PlaceInv, TypeOK
    <2>3. \A v \in Workers : Handling(v)' <=> Handling(v) \/ v = w
      BY <2>1 DEF Handling, TypeOK
    <2>4. Handled' = Handled \cup {h}
      <3>1. \A v \in Workers : wjob'[v] = IF v = w THEN h ELSE wjob[v]
        BY <2>1 DEF TypeOK
      <3>2. ~Handling(w)
        BY <2>1 DEF Handling
      <3> QED
        BY <2>3, <3>1, <3>2 DEF Handled
    <2>5. \A v \in Workers : Handling(v) => wjob[v] # h
      BY <2>2 DEF PlaceInv, Handled
    <2>6. \A u, v \in Workers :
            Handling(u)' /\ Handling(v)' /\ wjob'[u] = wjob'[v] => u = v
      BY <2>1, <2>3, <2>5 DEF PlaceInv, TypeOK
    <2>7. \A j \in Jobs : Sent(j)' <=> Sent(j)
      BY <2>1 DEF Sent
    <2> QED
      BY <2>1, <2>2, <2>4, <2>6, <2>7 DEF PlaceInv
  <1>4. ASSUME NEW w \in Workers, WorkerInvoke(w) \/ WorkerAnswer(w) PROVE PlaceInv'
    <2>1. /\ wstate[w] \in {"busy", "ran"}
          /\ \E l \in {"ran", "answered"} : wstate' = [wstate EXCEPT ![w] = l]
          /\ UNCHANGED <<queue, wjob, pc, outcome>>
      BY <1>4 DEF WorkerInvoke, WorkerAnswer, workerFrame
    <2>2. \A v \in Workers : Handling(v)' <=> Handling(v)
      BY <2>1 DEF Handling, TypeOK
    <2>3. Handled' = Handled
      BY <2>1, <2>2 DEF Handled
    <2>4. \A j \in Jobs : Sent(j)' <=> Sent(j)
      BY <2>1 DEF Sent
    <2>5. \A u, v \in Workers :
            Handling(u)' /\ Handling(v)' /\ wjob'[u] = wjob'[v] => u = v
      BY <2>1, <2>2 DEF PlaceInv
    <2>6. Queued' = Queued
      BY <2>1 DEF Queued
    <2> QED
      BY <2>1, <2>3, <2>4, <2>5, <2>6 DEF PlaceInv
  <1>5. ASSUME NEW w \in Workers, WorkerFinish(w) PROVE PlaceInv'
    <2>1. /\ wstate[w] = "answered"
          /\ wstate' = [wstate EXCEPT ![w] = "idle"]
          /\ wjob' = [wjob EXCEPT ![w] = None]
          /\ UNCHANGED <<queue, pc, outcome>>
      BY <1>5 DEF WorkerFinish, workerFrame
    <2>2. \A v \in Workers : Handling(v)' <=> Handling(v) /\ v # w
      BY <2>1 DEF Handling, TypeOK
    <2>3. \A v \in Workers : v # w => wjob'[v] = wjob[v]
      BY <2>1 DEF TypeOK
    <2>4. Handled' \subseteq Handled
      BY <2>2, <2>3 DEF Handled
    <2>5. Queued' = Queued
      BY <2>1 DEF Queued
    <2>6. \A j \in Jobs : Sent(j)' <=> Sent(j)
      BY <2>1 DEF Sent
    <2>7. \A u, v \in Workers :
            Handling(u)' /\ Handling(v)' /\ wjob'[u] = wjob'[v] => u = v
      BY <2>2, <2>3 DEF PlaceInv
    <2> QED
      BY <2>1, <2>4, <2>5, <2>6, <2>7 DEF PlaceInv
  <1> QED
    BY <1>1, <1>2, <1>3, <1>4, <1>5, Classify DEF Handle

-----------------------------------------------------------------------------
(* What was done with it. *)

\* Nothing has run or been answered at the start.
LEMMA InitRunInv == Init => RunInv
  BY DEF Init, RunInv, Sent, Handling, TypeOK

\* Every step keeps runs and answers in step with the place of the job.
LEMMA NextRunInv == TypeOK /\ PlaceInv /\ RunInv /\ [Next]_vars => RunInv'
  <1> SUFFICES ASSUME TypeOK, PlaceInv, RunInv, [Next]_vars PROVE RunInv'
    OBVIOUS
  <1>1. CASE Still
    <2>1. Queued' = Queued /\ Handled' = Handled
      BY <1>1 DEF Still, Queued, Handled
    <2> QED
      BY <1>1, <2>1 DEF Still, RunInv
  <1>2. ASSUME NEW j \in Jobs, Enqueue(j) PROVE RunInv'
    <2>1. /\ ~Sent(j) /\ j \in Queued'
          /\ UNCHANGED <<wstate, wjob, runs, answered, outcome>>
      <3>1. /\ pc[j] = "send" /\ queue' = Append(queue, j)
            /\ UNCHANGED <<wstate, wjob, runs, answered, outcome>>
        BY <1>2 DEF Enqueue, submitFrame
      <3>2. ~Sent(j)
        BY <3>1 DEF PlaceInv, Sent, TypeOK
      <3>3. ToSet(queue') = ToSet(queue) \cup {j}
        BY <3>1, AppendItems DEF TypeOK
      <3> QED
        BY <3>1, <3>2, <3>3 DEF Queued
    <2>2. Handled' = Handled /\ \A w \in Workers : Handling(w)' <=> Handling(w)
      BY <2>1 DEF Handled, Handling
    <2>3. \A k \in Jobs \ {j} : (Sent(k)' <=> Sent(k)) /\ (k \in Queued' <=> k \in Queued)
      BY <1>2, AppendItems DEF Enqueue, Goto, Sent, Queued, TypeOK
    <2> QED
      BY <2>1, <2>2, <2>3 DEF RunInv
  <1>3. ASSUME NEW w \in Workers, WorkerReceive(w) PROVE RunInv'
    <2> DEFINE h == Head(queue)
    <2>1. /\ wstate[w] = "idle" /\ queue # <<>>
          /\ queue' = Tail(queue)
          /\ wjob' = [wjob EXCEPT ![w] = h]
          /\ wstate' = [wstate EXCEPT ![w] = "busy"]
          /\ UNCHANGED <<pc, outcome, runs, answered>>
      BY <1>3 DEF WorkerReceive, workerFrame
    <2>2. Queued' = Queued \ {h} /\ h \in Queued /\ h \in Jobs
      BY <2>1, TailItems DEF Queued, PlaceInv, TypeOK
    <2>3. \A v \in Workers : Handling(v)' <=> Handling(v) \/ v = w
      BY <2>1 DEF Handling, TypeOK
    <2>4. Handled' = Handled \cup {h}
      <3>1. \A v \in Workers : wjob'[v] = IF v = w THEN h ELSE wjob[v]
        BY <2>1 DEF TypeOK
      <3>2. ~Handling(w)
        BY <2>1 DEF Handling
      <3> QED
        BY <2>3, <3>1, <3>2 DEF Handled
    <2>5. \A j \in Jobs : Sent(j)' <=> Sent(j)
      BY <2>1 DEF Sent
    <2>6. \A j \in Jobs : j \in Queued \cup Handled <=> j \in Queued' \cup Handled'
      BY <2>2, <2>4
    <2>7. \A v \in Workers : Handling(v)' =>
            /\ runs'[wjob'[v]] = IF wstate'[v] = "busy" THEN 0 ELSE 1
            /\ wjob'[v] \in answered' <=> wstate'[v] = "answered"
      <3>1. runs[h] = 0 /\ h \notin answered
        BY <2>2 DEF RunInv
      <3> QED
        BY <2>1, <2>3, <3>1 DEF RunInv, TypeOK
    <2> QED
      BY <2>1, <2>2, <2>5, <2>6, <2>7 DEF RunInv
  <1>4. ASSUME NEW w \in Workers, WorkerInvoke(w) \/ WorkerAnswer(w) \/ WorkerFinish(w)
        PROVE RunInv'
    <2> DEFINE j == wjob[w]
    <2>1. /\ Handling(w) /\ j \in Jobs /\ j \in Handled /\ j \notin Queued /\ Sent(j)
      BY <1>4 DEF WorkerInvoke, WorkerAnswer, WorkerFinish, Handling, Handled,
                  PlaceInv, TypeOK
    <2>2. \A v \in Workers \ {w} : Handling(v) => wjob[v] # j
      BY <2>1 DEF PlaceInv
    <2>3. /\ Queued' = Queued
          /\ \A k \in Jobs : Sent(k)' <=> Sent(k)
          /\ outcome' = outcome
      BY <1>4 DEF WorkerInvoke, WorkerAnswer, WorkerFinish, workerFrame, Queued, Sent
    <2>4. /\ \A k \in Jobs \ {j} : runs'[k] = runs[k] /\ (k \in answered' <=> k \in answered)
          /\ \A v \in Workers \ {w} : wstate'[v] = wstate[v] /\ wjob'[v] = wjob[v]
      BY <1>4 DEF WorkerInvoke, WorkerAnswer, WorkerFinish, TypeOK
    <2>5. \A k \in Jobs \ {j} : k \in Handled' <=> k \in Handled
      <3>1. wjob'[w] = j \/ ~Handling(w)'
        BY <1>4 DEF WorkerInvoke, WorkerAnswer, WorkerFinish, Handling, TypeOK
      <3>2. \A v \in Workers \ {w} : (Handling(v)' <=> Handling(v)) /\ wjob'[v] = wjob[v]
        BY <2>4 DEF Handling
      <3> QED
        BY <3>1, <3>2 DEF Handled
    <2>6. \A v \in Workers \ {w} : Handling(v)' =>
            /\ runs'[wjob'[v]] = IF wstate'[v] = "busy" THEN 0 ELSE 1
            /\ wjob'[v] \in answered' <=> wstate'[v] = "answered"
      <3> SUFFICES ASSUME NEW v \in Workers \ {w}, Handling(v)'
                   PROVE  /\ runs'[wjob'[v]] = IF wstate'[v] = "busy" THEN 0 ELSE 1
                          /\ wjob'[v] \in answered' <=> wstate'[v] = "answered"
        OBVIOUS
      <3>1. Handling(v) /\ wjob'[v] = wjob[v] /\ wstate'[v] = wstate[v]
        BY <2>4 DEF Handling
      <3>2. wjob[v] \in Jobs \ {j}
        BY <2>2, <3>1 DEF TypeOK
      <3> QED
        BY <2>4, <3>1, <3>2 DEF RunInv
    <2>7. CASE WorkerInvoke(w)
      <3>1. /\ runs[j] = 0 /\ j \notin answered /\ runs'[j] = 1 /\ answered' = answered
            /\ wstate'[w] = "ran" /\ wjob'[w] = j
        BY <2>1, <2>7 DEF WorkerInvoke, RunInv, TypeOK
      <3>2. j \in Handled'
        BY <3>1 DEF Handled, Handling
      <3> QED
        BY <2>1, <2>3, <2>4, <2>5, <2>6, <3>1, <3>2 DEF RunInv
    <2>8. CASE WorkerAnswer(w)
      <3>1. /\ runs[j] = 1 /\ runs' = runs /\ j \in answered'
            /\ wstate'[w] = "answered" /\ wjob'[w] = j
        BY <2>1, <2>8 DEF WorkerAnswer, RunInv, TypeOK
      <3> QED
        BY <2>1, <2>3, <2>4, <2>5, <2>6, <3>1 DEF RunInv
    <2>9. CASE WorkerFinish(w)
      <3>1. /\ runs[j] = 1 /\ runs' = runs /\ j \in answered /\ answered' = answered
            /\ ~Handling(w)'
        BY <2>1, <2>9 DEF WorkerFinish, RunInv, TypeOK, Handling
      <3> QED
        BY <2>1, <2>3, <2>4, <2>5, <2>6, <3>1 DEF RunInv
    <2> QED
      BY <1>4, <2>7, <2>8, <2>9
  <1> QED
    BY <1>1, <1>2, <1>3, <1>4, Classify DEF Handle

-----------------------------------------------------------------------------
(* The inductive invariant and what follows from it. *)

\* The inductive invariant holds at the start.
LEMMA InitInv == Init => Inv
  BY InitTypeOK, InitLockInv, InitPlaceInv, InitRunInv DEF Inv

\* Every step preserves the inductive invariant.
LEMMA NextInv == Inv /\ [Next]_vars => Inv'
  BY NextTypeOK, NextLockInv, NextPlaceInv, NextRunInv DEF Inv

\* In every reachable state the read lock covers exactly the calls inside the
\* section, every sent job is in one place, and it ran and was answered once.
THEOREM Invariance == Spec => []Inv
  BY InitInv, NextInv, PTL DEF Spec

\* A job runs at most once, a refused one never, an answered one has run.
THEOREM RunsExactlyOnce == Spec => []ExactlyOnce
  <1>1. Inv => ExactlyOnce
    <2> SUFFICES ASSUME Inv, NEW j \in Jobs
                 PROVE  /\ runs[j] <= 1
                        /\ outcome[j] \in Refusals =>
                             runs[j] = 0 /\ j \notin Queued \cup Handled
                        /\ outcome[j] = "result" => runs[j] = 1
      BY DEF ExactlyOnce
    <2>1. ASSUME j \in Handled
          PROVE  /\ runs[j] \in {0, 1} /\ Sent(j) /\ j \notin Queued
                 /\ j \in answered => runs[j] = 1
      <3>1. PICK w \in Workers : Handling(w) /\ wjob[w] = j
        BY <2>1 DEF Handled
      <3>2. /\ runs[wjob[w]] = IF wstate[w] = "busy" THEN 0 ELSE 1
            /\ wjob[w] \in answered <=> wstate[w] = "answered"
        BY <3>1 DEF Inv, RunInv
      <3> QED
        BY <2>1, <3>1, <3>2 DEF Inv, PlaceInv
    <2>2. outcome[j] \in Refusals => ~Sent(j)
      BY DEF Inv, PlaceInv, Sent, Refusals
    <2>3. outcome[j] = "result" => j \in answered /\ Sent(j)
      BY DEF Inv, RunInv, Sent
    <2> QED
      BY <2>1, <2>2, <2>3 DEF Inv, RunInv, PlaceInv
  <1> QED
    BY Invariance, <1>1, PTL
=============================================================================

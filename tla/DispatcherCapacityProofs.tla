---------------------- MODULE DispatcherCapacityProofs ----------------------
(***************************************************************************)
(* What is proved of the dispatcher's bounds for every set of calls and    *)
(* workers and every configuration: how many workers there are, who holds  *)
(* a concurrency slot, and what Close leaves behind.                       *)
(***************************************************************************)
EXTENDS DispatcherProofs

-----------------------------------------------------------------------------
(* The number of workers. *)

\* The workers that will still take a job.
Taking == {w \in Workers : wstate[w] \notin {"off", "retired"}}

\* `active` counts them within the bounds, and only after Close, with nothing left
\* in the channel, does it fall below the minimum.
WorkerInv ==
  /\ WorkerAccounting
  /\ active < MinWorkers => queue = <<>>

\* A worker that begins to take jobs makes one more of them, one that ends one less.
LEMMA TakingCounts ==
  ASSUME TypeOK, active = Cardinality(Taking),
         NEW w \in Workers, NEW l, wstate' = [wstate EXCEPT ![w] = l]
  PROVE  /\ (w \in Taking <=> l \notin {"off", "retired"}) =>
              Cardinality(Taking') = active
         /\ w \notin Taking /\ l \notin {"off", "retired"} =>
              Cardinality(Taking') = active + 1
         /\ w \in Taking /\ l \in {"off", "retired"} =>
              Cardinality(Taking') = active - 1
  <1>1. IsFiniteSet(Taking)
    BY IdentityAssumption, FS_Subset DEF Taking
  <1>2. /\ w \notin Taking => Cardinality(Taking \cup {w}) = Cardinality(Taking) + 1
        /\ w \in Taking => Cardinality(Taking \ {w}) = Cardinality(Taking) - 1
    BY <1>1, FS_AddElement, FS_RemoveElement
  <1>3. \A v \in Workers : v \in Taking' <=>
          IF v = w THEN l \notin {"off", "retired"} ELSE v \in Taking
    BY DEF Taking, TypeOK
  <1>4. Taking' \subseteq Workers /\ Taking \subseteq Workers
    BY DEF Taking
  <1>5. CASE w \in Taking <=> l \notin {"off", "retired"}
    <2>1. Taking' = Taking
      BY <1>3, <1>4, <1>5
    <2> QED
      BY <1>5, <2>1
  <1>6. CASE w \notin Taking /\ l \notin {"off", "retired"}
    <2>1. Taking' = Taking \cup {w}
      BY <1>3, <1>4, <1>6
    <2> QED
      BY <1>2, <1>6, <2>1
  <1>7. CASE w \in Taking /\ l \in {"off", "retired"}
    <2>1. Taking' = Taking \ {w}
      BY <1>3, <1>4, <1>7
    <2> QED
      BY <1>2, <1>7, <2>1
  <1> QED
    BY <1>5, <1>6, <1>7

\* NewDispatcher starts MinWorkers workers.
LEMMA InitWorkerInv == Init => WorkerInv
  <1> SUFFICES ASSUME Init PROVE WorkerInv
    OBVIOUS
  <1>1. PICK started \in SUBSET Workers :
          /\ Cardinality(started) = MinWorkers
          /\ wstate = [w \in Workers |-> IF w \in started THEN "idle" ELSE "off"]
    BY DEF Init
  <1>2. started = Taking
    BY <1>1 DEF Taking
  <1>3. active = MinWorkers /\ queue = <<>>
    BY DEF Init
  <1>4. active = Cardinality(Taking)
    BY <1>1, <1>2, <1>3
  <1> QED
    BY <1>3, <1>4, ConfigAssumption DEF WorkerInv, WorkerAccounting, Taking

\* Whatever steps race, a spawn, a retirement and an exit each count once.
LEMMA NextWorkerInv == TypeOK /\ LockInv /\ WorkerInv /\ [Next]_vars => WorkerInv'
  <1> SUFFICES ASSUME TypeOK, LockInv, WorkerInv, [Next]_vars PROVE WorkerInv'
    OBVIOUS
  <1> USE DEF WorkerInv, WorkerAccounting
  <1>1. active = Cardinality(Taking) /\ active \in Int
    BY DEF Taking, TypeOK
  <1>2. ASSUME UNCHANGED <<wstate, active, closed>>, queue = <<>> => queue' = <<>>
        PROVE  WorkerInv'
    BY <1>2
  <1>3. ASSUME NEW j \in Jobs, Cancel(j) PROVE WorkerInv'
    BY <1>2, <1>3 DEF Cancel
  <1>4. ASSUME NEW j \in Jobs, Submit(j), ~Enqueue(j), ~ScaleUp(j) PROVE WorkerInv'
    <2>1. UNCHANGED <<wstate, active, closed, queue>>
      BY <1>4 DEF Submit, SubmitRefused, SubmitEnter, RejectPolicy, AdmitUnlimited,
                  LookupLimiter, AcquireSlot, RejectLimit, AbandonEnqueue, RejectFull,
                  CountAccepted, CheckBacklog, AnnounceScaleUp, DeclineScaleUp, Await,
                  Reject, submitFrame
    <2> QED
      BY <1>2, <2>1
  <1>5. ASSUME NEW j \in Jobs, Enqueue(j) PROVE WorkerInv'
    <2>1. ~closed
      BY <1>5 DEF Enqueue, LockInv, Inside
    <2>2. UNCHANGED <<wstate, active, closed>>
      BY <1>5 DEF Enqueue, submitFrame
    <2>3. ~(active < MinWorkers)
      BY <1>1, <2>1, ConfigAssumption
    <2> QED
      BY <2>2, <2>3
  <1>6. ASSUME NEW j \in Jobs, ScaleUp(j) PROVE WorkerInv'
    <2>1. PICK w \in Workers :
            wstate[w] = "off" /\ wstate' = [wstate EXCEPT ![w] = "idle"]
      BY <1>6 DEF ScaleUp
    <2>2. Cardinality(Taking') = active + 1
      <3>1. w \notin Taking
        BY <2>1 DEF Taking
      <3>2. "idle" \notin {"off", "retired"} /\ wstate' = [wstate EXCEPT ![w] = "idle"]
        BY <2>1
      <3> QED
        BY <1>1, <3>1, <3>2, TakingCounts
    <2>3. /\ active' = active + 1 /\ active < MaxWorkers
          /\ closed' = closed /\ queue' = queue
      BY <1>6 DEF ScaleUp, MaySpawn
    <2> QED
      BY <1>1, <2>2, <2>3, ConfigAssumption DEF Taking
  <1>7. ASSUME NEW w \in Workers, Handle(w) PROVE WorkerInv'
    <2>1. /\ w \in Taking
          /\ \E l \in {"busy", "ran", "answered", "idle"} :
               wstate' = [wstate EXCEPT ![w] = l]
          /\ active' = active /\ closed' = closed
          /\ queue = <<>> => queue' = <<>>
      BY <1>7 DEF Handle, WorkerReceive, WorkerInvoke, WorkerAnswer, WorkerFinish,
                  workerFrame, Taking
    <2>2. Cardinality(Taking') = active
      BY <1>1, <2>1, TakingCounts
    <2> QED
      BY <1>1, <2>1, <2>2 DEF Taking
  <1>8. ASSUME NEW w \in Workers, WorkerRetire(w) PROVE WorkerInv'
    <2>1. /\ w \in Taking
          /\ wstate' = [wstate EXCEPT ![w] = "retired"]
          /\ active' = active - 1 /\ active > MinWorkers
          /\ closed' = closed
      BY <1>8 DEF WorkerRetire, MayRetire, workerFrame, Taking
    <2>2. Cardinality(Taking') = active - 1
      BY <1>1, <2>1, TakingCounts
    <2> QED
      BY <1>1, <2>1, <2>2, ConfigAssumption DEF Taking
  <1>9. ASSUME NEW w \in Workers, WorkerRetired(w) PROVE WorkerInv'
    <2>1. /\ w \notin Taking
          /\ wstate' = [wstate EXCEPT ![w] = "off"]
          /\ active' = active /\ closed' = closed /\ queue' = queue
      BY <1>9 DEF WorkerRetired, workerFrame, Taking
    <2>2. Cardinality(Taking') = active
      BY <1>1, <2>1, TakingCounts
    <2> QED
      BY <1>1, <2>1, <2>2 DEF Taking
  <1>10. ASSUME NEW w \in Workers, WorkerExit(w) PROVE WorkerInv'
    <2>1. /\ w \in Taking
          /\ wstate' = [wstate EXCEPT ![w] = "off"]
          /\ active' = active - 1
          /\ closed /\ closed' = closed /\ queue = <<>> /\ queue' = queue
      BY <1>10 DEF WorkerExit, workerFrame, Taking
    <2>2. Cardinality(Taking') = active - 1
      BY <1>1, <2>1, TakingCounts
    <2> QED
      BY <1>1, <2>1, <2>2, ConfigAssumption DEF Taking
  <1>11. ASSUME NEW c \in Closers, Close(c) PROVE WorkerInv'
    <2>1. /\ UNCHANGED <<wstate, active, queue>>
          /\ closed => closed'
      BY <1>11 DEF Close, CloseCall, CloseLock, CloseJobs, CloseAgain, CloseDone,
                   closeFrame
    <2> QED
      BY <2>1
  <1>12. CASE UNCHANGED vars
    BY <1>2, <1>12 DEF vars
  <1> QED
    BY <1>3, <1>4, <1>5, <1>6, <1>7, <1>8, <1>9, <1>10, <1>11, <1>12
    DEF Next, Worker, Submit, Finished

\* d.active counts the workers that take jobs, within the configured bounds.
THEOREM WorkersAreCounted == Spec => []WorkerAccounting
  <1>1. WorkerInv => WorkerAccounting
    BY DEF WorkerInv
  <1> QED
    BY InitTypeOK, NextTypeOK, InitLockInv, NextLockInv, InitWorkerInv, NextWorkerInv,
       <1>1, PTL DEF Spec

-----------------------------------------------------------------------------
(* A closed dispatcher. *)

\* After close(d.jobs) no job is queued or accepted and no worker is spawned.
THEOREM ClosedOnlyShrinks == Spec => ClosingOnlyShrinks
  <1> DEFINE Shrinks == closed => /\ Len(queue') <= Len(queue)
                                  /\ accepted' = accepted
                                  /\ \A w \in Workers : wstate[w] = "off" => wstate'[w] = "off"
  <1>1. TypeOK /\ LockInv /\ [Next]_vars => [Shrinks]_vars
    <2> SUFFICES ASSUME TypeOK, LockInv, [Next]_vars, closed PROVE Shrinks
      OBVIOUS
    <2> USE DEF Shrinks
    <2>1. Len(queue) \in Nat
      BY DEF TypeOK
    <2>2. \A j \in Jobs : ~Enqueue(j) /\ ~CountAccepted(j) /\ ~ScaleUp(j)
      BY DEF LockInv, Inside, Enqueue, CountAccepted, ScaleUp, MaySpawn
    <2>3. ASSUME UNCHANGED <<queue, accepted, wstate>> PROVE Shrinks
      BY <2>1, <2>3
    <2>4. ASSUME NEW j \in Jobs, Cancel(j) \/ Submit(j) PROVE Shrinks
      <3>1. UNCHANGED <<queue, accepted, wstate>>
        BY <2>2, <2>4 DEF Cancel, Submit, SubmitRefused, SubmitEnter, RejectPolicy,
             AdmitUnlimited, LookupLimiter, AcquireSlot, RejectLimit, AbandonEnqueue,
             RejectFull, CheckBacklog, AnnounceScaleUp, DeclineScaleUp, Await, Reject,
             submitFrame
      <3> QED
        BY <2>3, <3>1
    <2>5. ASSUME NEW w \in Workers, Worker(w) PROVE Shrinks
      <3>1. /\ \E l \in WorkerStates :
                 wstate' = [wstate EXCEPT ![w] = l] /\ (wstate[w] = "off" => l = "off")
            /\ accepted' = accepted
        BY <2>5 DEF Worker, Handle, WorkerReceive, WorkerInvoke, WorkerAnswer,
             WorkerFinish, WorkerRetire, WorkerRetired, WorkerExit, workerFrame,
             WorkerStates
      <3>2. Len(queue') <= Len(queue)
        <4>1. CASE WorkerReceive(w)
          BY <4>1 DEF WorkerReceive, TypeOK
        <4>2. CASE queue' = queue
          BY <2>1, <4>2
        <4> QED
          BY <2>5, <4>1, <4>2 DEF Worker, Handle, WorkerInvoke, WorkerAnswer,
               WorkerFinish, WorkerRetire, WorkerRetired, WorkerExit
      <3> QED
        BY <3>1, <3>2 DEF TypeOK
    <2>6. ASSUME NEW c \in Closers, Close(c) PROVE Shrinks
      BY <2>3, <2>6 DEF Close, CloseCall, CloseLock, CloseJobs, CloseAgain, CloseDone,
           closeFrame
    <2>7. CASE UNCHANGED vars
      BY <2>3, <2>7 DEF vars
    <2> QED
      BY <2>4, <2>5, <2>6, <2>7 DEF Next, Finished
  <1> QED
    BY InitTypeOK, NextTypeOK, InitLockInv, NextLockInv, <1>1, PTL
    DEF Spec, ClosingOnlyShrinks

-----------------------------------------------------------------------------
(* Where the jobs move. *)

\* The jobs for which releaseLimit is still to be called.
Live(j) == pc[j] = "send" \/ j \in Queued \cup Handled

\* A step that touches neither the channel nor a worker moves no job.
LEMMA NothingMoves ==
  ASSUME UNCHANGED <<queue, wstate, wjob>>
  PROVE  Queued' = Queued /\ Handled' = Handled
  BY DEF Queued, Handled, Handling

\* A send puts the job of a call into the channel.
LEMMA EnqueueMoves ==
  ASSUME TypeOK, PlaceInv, NEW j \in Jobs, Enqueue(j)
  PROVE  Queued' = Queued \cup {j} /\ Handled' = Handled /\ j \notin Queued \cup Handled
  <1>1. /\ pc[j] = "send" /\ queue' = Append(queue, j) /\ UNCHANGED <<wstate, wjob>>
    BY DEF Enqueue, submitFrame
  <1>2. ~Sent(j)
    BY <1>1 DEF PlaceInv, Sent, TypeOK
  <1>3. Queued' = Queued \cup {j}
    BY <1>1, AppendItems DEF Queued, TypeOK
  <1>4. Handled' = Handled
    BY <1>1 DEF Handled, Handling
  <1> QED
    BY <1>2, <1>3, <1>4 DEF PlaceInv

\* A receive hands the first job of the channel to the worker.
LEMMA ReceiveMoves ==
  ASSUME TypeOK, PlaceInv, NEW w \in Workers, WorkerReceive(w)
  PROVE  /\ Head(queue) \in Queued /\ Head(queue) \in Jobs
         /\ Queued' = Queued \ {Head(queue)}
         /\ Handled' = Handled \cup {Head(queue)}
  <1> DEFINE h == Head(queue)
  <1>1. /\ wstate[w] = "idle" /\ queue # <<>>
        /\ queue' = Tail(queue)
        /\ wjob' = [wjob EXCEPT ![w] = h]
        /\ wstate' = [wstate EXCEPT ![w] = "busy"]
    BY DEF WorkerReceive
  <1>2. Queued' = Queued \ {h} /\ h \in Queued /\ h \in Jobs
    BY <1>1, TailItems DEF Queued, PlaceInv, TypeOK
  <1>3. /\ ~Handling(w)
        /\ \A v \in Workers : Handling(v)' <=> Handling(v) \/ v = w
        /\ \A v \in Workers : wjob'[v] = IF v = w THEN h ELSE wjob[v]
    BY <1>1 DEF Handling, TypeOK
  <1>4. Handled' = Handled \cup {h}
    BY <1>3 DEF Handled
  <1> QED
    BY <1>2, <1>4

\* A worker that runs or answers its job keeps it.
LEMMA RunMoves ==
  ASSUME TypeOK, NEW w \in Workers, WorkerInvoke(w) \/ WorkerAnswer(w)
  PROVE  Queued' = Queued /\ Handled' = Handled
  <1>1. /\ wstate[w] \in {"busy", "ran"}
        /\ \E l \in {"ran", "answered"} : wstate' = [wstate EXCEPT ![w] = l]
        /\ UNCHANGED <<queue, wjob>>
    BY DEF WorkerInvoke, WorkerAnswer
  <1>2. \A v \in Workers : Handling(v)' <=> Handling(v)
    BY <1>1 DEF Handling, TypeOK
  <1> QED
    BY <1>1, <1>2 DEF Queued, Handled

\* A worker that is done with its job lets go of it, and nobody else has it.
LEMMA FinishMoves ==
  ASSUME TypeOK, PlaceInv, NEW w \in Workers, WorkerFinish(w)
  PROVE  /\ wjob[w] \in Handled /\ wjob[w] \in Jobs /\ wjob[w] \notin Queued
         /\ Queued' = Queued
         /\ Handled' = Handled \ {wjob[w]}
  <1> DEFINE j == wjob[w]
  <1>1. /\ wstate[w] = "answered"
        /\ wstate' = [wstate EXCEPT ![w] = "idle"]
        /\ wjob' = [wjob EXCEPT ![w] = None]
        /\ UNCHANGED queue
    BY DEF WorkerFinish
  <1>2. Handling(w) /\ j \in Jobs /\ j \in Handled /\ j \notin Queued
    BY <1>1 DEF Handling, Handled, PlaceInv, TypeOK
  <1>3. /\ \A v \in Workers : Handling(v)' <=> Handling(v) /\ v # w
        /\ \A v \in Workers \ {w} : wjob'[v] = wjob[v]
        /\ \A v \in Workers \ {w} : Handling(v) => wjob[v] # j
    BY <1>1, <1>2 DEF Handling, PlaceInv, TypeOK
  <1>4. Handled' = Handled \ {j}
    BY <1>3 DEF Handled
  <1> QED
    BY <1>1, <1>2, <1>4 DEF Queued

\* A worker that retires or ends has no job.
LEMMA LeavingMoves ==
  ASSUME TypeOK, NEW w \in Workers, WorkerRetire(w) \/ WorkerRetired(w) \/ WorkerExit(w)
  PROVE  Queued' = Queued /\ Handled' = Handled
  <1>1. /\ wstate[w] \in {"idle", "retired"}
        /\ \E l \in {"off", "retired"} : wstate' = [wstate EXCEPT ![w] = l]
        /\ UNCHANGED <<queue, wjob>>
    BY DEF WorkerRetire, WorkerRetired, WorkerExit
  <1>2. \A v \in Workers : Handling(v)' <=> Handling(v)
    BY <1>1 DEF Handling, TypeOK
  <1> QED
    BY <1>1, <1>2 DEF Queued, Handled

\* A worker that is spawned has no job.
LEMMA SpawnMoves ==
  ASSUME TypeOK, NEW j \in Jobs, ScaleUp(j)
  PROVE  Queued' = Queued /\ Handled' = Handled
  <1>1. PICK w \in Workers :
          wstate[w] = "off" /\ wstate' = [wstate EXCEPT ![w] = "idle"]
    BY DEF ScaleUp
  <1>2. \A v \in Workers : Handling(v)' <=> Handling(v)
    BY <1>1 DEF Handling, TypeOK
  <1> QED
    BY <1>2 DEF Queued, Handled, ScaleUp

-----------------------------------------------------------------------------
(* Slots. *)

\* The slots of a limiter are those of calls that looked it up, as many as its
\* limit at most; a call that did not look one up yet has none.
SlotInv ==
  /\ SlotsMatchOutstanding
  /\ \A o \in Jobs : \A j \in slots[o] : limiter[j] = o
  /\ \A o \in Jobs : Cardinality(slots[o]) <= LimitOf[o]
  /\ \A j \in Jobs : pc[j] \in {"called", "admit"} => limiter[j] = None
  /\ \A j \in Jobs : pc[j] = "slot" => limiter[j] # None

\* Nobody holds a slot of a new dispatcher.
LEMMA InitSlotInv == Init => SlotInv
  <1> SUFFICES ASSUME Init PROVE SlotInv
    OBVIOUS
  <1>1. \A j \in Jobs : slots[j] = {} /\ limiter[j] = None /\ pc[j] = "called"
    BY DEF Init
  <1>2. ASSUME NEW o \in Jobs PROVE Cardinality(slots[o]) <= LimitOf[o]
    <2>1. Cardinality(slots[o]) = 0 /\ LimitOf[o] \in Nat
      BY <1>1, FS_EmptySet, CallAssumption
    <2> QED
      BY <2>1
  <1>3. SlotsMatchOutstanding
    BY <1>1 DEF SlotsMatchOutstanding, HoldsSlot
  <1> QED
    BY <1>1, <1>2, <1>3 DEF SlotInv

\* A step that gives or takes no slot, and after which the same jobs are live.
LEMMA SlotsKept ==
  ASSUME TypeOK, SlotInv, UNCHANGED <<slots, limiter>>,
         \A j \in Jobs : Live(j)' <=> Live(j),
         \A j \in Jobs : pc'[j] \in {"called", "admit"} => pc[j] \in {"called", "admit"},
         \A j \in Jobs : pc'[j] = "slot" => pc[j] = "slot"
  PROVE  SlotInv'
  BY DEF SlotInv, SlotsMatchOutstanding, HoldsSlot, Live

\* A step after which one job is not live any more, and that gives back its slot.
LEMMA SlotsReleased ==
  ASSUME TypeOK, SlotInv, NEW k \in Jobs, ReleaseLimit(k), UNCHANGED limiter,
         \A j \in Jobs : Live(j)' <=> Live(j) /\ j # k,
         \A j \in Jobs : pc'[j] \in {"called", "admit"} => pc[j] \in {"called", "admit"},
         \A j \in Jobs : pc'[j] = "slot" => pc[j] = "slot"
  PROVE  SlotInv'
  <1>1. \A o \in Jobs : slots'[o] = slots[o] \ {k}
    BY DEF ReleaseLimit
  <1>2. ASSUME NEW o \in Jobs PROVE Cardinality(slots'[o]) <= LimitOf[o]
    <2>1. IsFiniteSet(slots[o]) /\ slots[o] \ {k} \in SUBSET slots[o]
      BY IdentityAssumption, FS_Subset DEF TypeOK
    <2>2. /\ Cardinality(slots[o] \ {k}) <= Cardinality(slots[o])
          /\ Cardinality(slots[o]) \in Nat /\ Cardinality(slots[o] \ {k}) \in Nat
      BY <2>1, FS_Subset, FS_CardinalityType
    <2>3. Cardinality(slots[o]) <= LimitOf[o] /\ LimitOf[o] \in Nat
      BY CallAssumption DEF SlotInv
    <2>4. slots'[o] = slots[o] \ {k}
      BY <1>1
    <2> DEFINE before == Cardinality(slots[o])
               after == Cardinality(slots[o] \ {k})
    <2>5. after <= LimitOf[o]
      <3> HIDE DEF before, after
      <3>1. after <= before /\ before \in Nat /\ after \in Nat /\ before <= LimitOf[o]
        BY <2>2, <2>3 DEF before, after
      <3> QED
        BY <2>3, <3>1
    <2> QED
      BY <2>4, <2>5
  <1>3. \A j \in Jobs : HoldsSlot(j)' <=> HoldsSlot(j) /\ j # k
    BY <1>1 DEF HoldsSlot
  <1>4. SlotsMatchOutstanding'
    BY <1>3 DEF SlotsMatchOutstanding, SlotInv, Live
  <1> QED
    BY <1>1, <1>2, <1>4 DEF SlotInv

\* Every step keeps a slot with exactly the jobs that are live and have a limiter.
LEMMA NextSlotInv == TypeOK /\ PlaceInv /\ SlotInv /\ [Next]_vars => SlotInv'
  <1> SUFFICES ASSUME TypeOK, PlaceInv, SlotInv, [Next]_vars PROVE SlotInv'
    OBVIOUS
  <1>1. ASSUME UNCHANGED <<pc, slots, limiter>>,
               Queued' \cup Handled' = Queued \cup Handled
        PROVE  SlotInv'
    BY <1>1, SlotsKept DEF Live
  <1>2. ASSUME NEW j \in Jobs, NEW label,
               UNCHANGED <<queue, wstate, wjob, slots, limiter>>, Goto(j, label),
               pc[j] # "send", label # "send", label \notin {"called", "slot"},
               label = "admit" => pc[j] = "called"
        PROVE  SlotInv'
    <2>1. \A k \in Jobs : pc'[k] = IF k = j THEN label ELSE pc[k]
      BY <1>2 DEF Goto, TypeOK
    <2>2. \A k \in Jobs : Live(k)' <=> Live(k)
      BY <1>2, <2>1, NothingMoves DEF Live
    <2> QED
      BY <1>2, <2>1, <2>2, SlotsKept
  <1>3. ASSUME NEW j \in Jobs, Cancel(j) PROVE SlotInv'
    BY <1>1, <1>3, NothingMoves DEF Cancel
  <1>4. ASSUME NEW j \in Jobs, SubmitRefused(j) PROVE SlotInv'
    BY <1>2, <1>4 DEF SubmitRefused, Return, submitFrame
  <1>5. ASSUME NEW j \in Jobs, SubmitEnter(j) PROVE SlotInv'
    BY <1>2, <1>5 DEF SubmitEnter, submitFrame
  <1>6. ASSUME NEW j \in Jobs, RejectPolicy(j) \/ RejectLimit(j) PROVE SlotInv'
    <2>1. /\ pc[j] \in {"admit", "slot"} /\ Goto(j, "returned")
          /\ UNCHANGED <<queue, wstate, wjob, slots, limiter>>
      BY <1>6 DEF RejectPolicy, RejectLimit, Reject, Return, submitFrame
    <2> QED
      BY <1>2, <2>1
  <1>7. ASSUME NEW j \in Jobs, AdmitUnlimited(j) PROVE SlotInv'
    <2>1. /\ pc[j] = "admit" /\ limiter[j] = None
          /\ pc' = [pc EXCEPT ![j] = "send"]
          /\ UNCHANGED <<queue, wstate, wjob, slots, limiter>>
      BY <1>7 DEF AdmitUnlimited, Goto, submitFrame, SlotInv
    <2>2. Queued' = Queued /\ Handled' = Handled
      BY <2>1, NothingMoves
    <2>3. SlotsMatchOutstanding'
      BY <2>1, <2>2 DEF SlotInv, SlotsMatchOutstanding, HoldsSlot, TypeOK
    <2> QED
      BY <2>1, <2>3 DEF SlotInv, TypeOK
  <1>8. ASSUME NEW j \in Jobs, LookupLimiter(j) PROVE SlotInv'
    <2>1. /\ pc[j] = "admit"
          /\ pc' = [pc EXCEPT ![j] = "slot"]
          /\ UNCHANGED <<queue, wstate, wjob, slots>>
      BY <1>8 DEF LookupLimiter, Goto, submitFrame
    <2>2. PICK o \in Jobs : limiter' = [limiter EXCEPT ![j] = o]
      BY <1>8, CallAssumption DEF LookupLimiter, Reusable, TypeOK
    <2>3. o # None
      BY IdentityAssumption
    <2>4. ~HoldsSlot(j) /\ ~Live(j)
      <3>1. limiter[j] = None
        BY <2>1 DEF SlotInv
      <3>2. j \notin Queued \cup Handled
        BY <2>1 DEF PlaceInv, Sent, TypeOK
      <3> QED
        BY <2>1, <3>1, <3>2 DEF SlotInv, SlotsMatchOutstanding, Live
    <2>5. Queued' = Queued /\ Handled' = Handled
      BY <2>1, NothingMoves
    <2>6. SlotsMatchOutstanding'
      BY <2>1, <2>2, <2>4, <2>5
      DEF SlotInv, SlotsMatchOutstanding, HoldsSlot, Live, TypeOK
    <2>7. \A q \in Jobs : \A k \in slots'[q] : limiter'[k] = q
      BY <2>1, <2>2, <2>4 DEF SlotInv, HoldsSlot, TypeOK
    <2> QED
      BY <2>1, <2>2, <2>3, <2>6, <2>7 DEF SlotInv, TypeOK
  <1>9. ASSUME NEW j \in Jobs, AcquireSlot(j) PROVE SlotInv'
    <2> DEFINE o == limiter[j]
    <2>1. /\ pc[j] = "slot" /\ Cardinality(slots[o]) < LimitOf[o]
          /\ pc' = [pc EXCEPT ![j] = "send"]
          /\ slots' = [slots EXCEPT ![o] = @ \cup {j}]
          /\ UNCHANGED <<queue, wstate, wjob, limiter>>
      BY <1>9 DEF AcquireSlot, HasFreeSlot, Goto, submitFrame
    <2>2. o \in Jobs /\ o # None
      BY <2>1, IdentityAssumption DEF SlotInv, TypeOK
    <2>3. Queued' = Queued /\ Handled' = Handled
      BY <2>1, NothingMoves
    <2>4. \A q \in Jobs : slots'[q] = IF q = o THEN slots[o] \cup {j} ELSE slots[q]
      BY <2>1 DEF TypeOK
    <2>5. \A k \in Jobs : HoldsSlot(k)' <=> HoldsSlot(k) \/ k = j
      BY <2>2, <2>4 DEF HoldsSlot
    <2>6. SlotsMatchOutstanding'
      BY <2>1, <2>2, <2>3, <2>5 DEF SlotInv, SlotsMatchOutstanding, TypeOK
    <2>7. Cardinality(slots[o] \cup {j}) <= LimitOf[o]
      <3>1. IsFiniteSet(slots[o])
        BY <2>2, IdentityAssumption, FS_Subset DEF TypeOK
      <3>2. /\ Cardinality(slots[o]) \in Nat
            /\ Cardinality(slots[o] \cup {j}) \in {Cardinality(slots[o]),
                                                  Cardinality(slots[o]) + 1}
        BY <3>1, FS_AddElement, FS_CardinalityType
      <3>3. LimitOf[o] \in Nat
        BY <2>2, CallAssumption
      <3> QED
        BY <2>1, <3>2, <3>3
    <2>8. \A q \in Jobs : Cardinality(slots'[q]) <= LimitOf[q]
      BY <2>4, <2>7 DEF SlotInv
    <2>9. \A q \in Jobs : \A k \in slots'[q] : limiter'[k] = q
      BY <2>1, <2>4 DEF SlotInv
    <2>10. \A k \in Jobs : pc'[k] = IF k = j THEN "send" ELSE pc[k]
      BY <2>1 DEF TypeOK
    <2> QED
      BY <2>1, <2>6, <2>8, <2>9, <2>10 DEF SlotInv
  <1>10. ASSUME NEW j \in Jobs, Enqueue(j) PROVE SlotInv'
    <2>1. /\ pc[j] = "send" /\ pc' = [pc EXCEPT ![j] = "sent"]
          /\ UNCHANGED <<slots, limiter>>
      BY <1>10 DEF Enqueue, Goto
    <2>2. \A k \in Jobs : Live(k)' <=> Live(k)
      BY <1>10, <2>1, EnqueueMoves DEF Live, TypeOK
    <2> QED
      BY <2>1, <2>2, SlotsKept DEF TypeOK
  <1>11. ASSUME NEW j \in Jobs, AbandonEnqueue(j) \/ RejectFull(j) PROVE SlotInv'
    <2>1. /\ pc[j] = "send" /\ pc' = [pc EXCEPT ![j] = "returned"]
          /\ ReleaseLimit(j)
          /\ UNCHANGED <<queue, wstate, wjob, limiter>>
      BY <1>11 DEF AbandonEnqueue, RejectFull, Reject, Return, Goto, submitFrame
    <2>2. j \notin Queued \cup Handled
      BY <2>1 DEF PlaceInv, Sent, TypeOK
    <2>3. \A k \in Jobs : Live(k)' <=> Live(k) /\ k # j
      BY <2>1, <2>2, NothingMoves DEF Live, TypeOK
    <2> QED
      BY <2>1, <2>3, SlotsReleased DEF TypeOK
  <1>12. ASSUME NEW j \in Jobs,
                CountAccepted(j) \/ CheckBacklog(j) \/ DeclineScaleUp(j) \/ Await(j)
         PROVE SlotInv'
    <2>1. /\ pc[j] \in {"sent", "scale", "scaling", "wait"}
          /\ \E label \in {"scale", "scaling", "wait", "returned"} : Goto(j, label)
          /\ UNCHANGED <<queue, wstate, wjob, slots, limiter>>
      BY <1>12, Zenon
      DEF CountAccepted, CheckBacklog, DeclineScaleUp, Await, Return, submitFrame
    <2>2. PICK label \in {"scale", "scaling", "wait", "returned"} : Goto(j, label)
      BY <2>1
    <2> QED
      BY <1>2, <2>1, <2>2
  <1>13. ASSUME NEW j \in Jobs, AnnounceScaleUp(j) PROVE SlotInv'
    BY <1>1, <1>13, NothingMoves DEF AnnounceScaleUp, submitFrame
  <1>14. ASSUME NEW j \in Jobs, ScaleUp(j) PROVE SlotInv'
    <2>1. /\ pc[j] = "scaling" /\ pc' = [pc EXCEPT ![j] = "wait"]
          /\ UNCHANGED <<slots, limiter>>
      BY <1>14 DEF ScaleUp, Goto
    <2>2. \A k \in Jobs : Live(k)' <=> Live(k)
      BY <1>14, <2>1, SpawnMoves DEF Live, TypeOK
    <2> QED
      BY <2>1, <2>2, SlotsKept DEF TypeOK
  <1>15. ASSUME NEW w \in Workers, WorkerReceive(w) PROVE SlotInv'
    BY <1>1, <1>15, ReceiveMoves DEF WorkerReceive, workerFrame
  <1>16. ASSUME NEW w \in Workers, WorkerInvoke(w) \/ WorkerAnswer(w) PROVE SlotInv'
    <2>1. UNCHANGED <<pc, slots, limiter>>
      BY <1>16 DEF WorkerInvoke, WorkerAnswer, workerFrame
    <2> QED
      BY <1>1, <1>16, <2>1, RunMoves
  <1>17. ASSUME NEW w \in Workers, WorkerFinish(w) PROVE SlotInv'
    <2>1. ReleaseLimit(wjob[w]) /\ UNCHANGED <<pc, limiter>>
      BY <1>17 DEF WorkerFinish, workerFrame
    <2>2. /\ wjob[w] \in Jobs /\ Sent(wjob[w])
          /\ Queued' = Queued /\ wjob[w] \notin Queued /\ Handled' = Handled \ {wjob[w]}
      BY <1>17, FinishMoves DEF PlaceInv
    <2>3. pc[wjob[w]] # "send"
      BY <2>2 DEF PlaceInv, Sent, TypeOK
    <2>4. \A k \in Jobs : Live(k)' <=> Live(k) /\ k # wjob[w]
      BY <2>1, <2>2, <2>3 DEF Live
    <2> QED
      BY <2>1, <2>2, <2>4, SlotsReleased
  <1>18. ASSUME NEW w \in Workers,
                WorkerRetire(w) \/ WorkerRetired(w) \/ WorkerExit(w)
         PROVE SlotInv'
    <2>1. UNCHANGED <<pc, slots, limiter>>
      BY <1>18 DEF WorkerRetire, WorkerRetired, WorkerExit, workerFrame
    <2> QED
      BY <1>1, <1>18, <2>1, LeavingMoves
  <1>19. ASSUME NEW c \in Closers, Close(c) PROVE SlotInv'
    <2>1. UNCHANGED <<pc, slots, limiter, queue, wstate, wjob>>
      BY <1>19 DEF Close, CloseCall, CloseLock, CloseJobs, CloseAgain, CloseDone,
                   closeFrame
    <2> QED
      BY <1>1, <2>1, NothingMoves
  <1>20. CASE UNCHANGED vars
    BY <1>1, <1>20, NothingMoves DEF vars
  <1> QED
    BY <1>3, <1>4, <1>5, <1>6, <1>7, <1>8, <1>9, <1>10, <1>11, <1>12, <1>13, <1>14,
       <1>15, <1>16, <1>17, <1>18, <1>19, <1>20
    DEF Next, Submit, Worker, Handle, Finished

\* A call holds a slot exactly while it is about to be sent, queued or handled.
THEOREM SlotsAreNeverLeaked == Spec => []SlotsMatchOutstanding
  <1>1. SlotInv => SlotsMatchOutstanding
    BY DEF SlotInv
  <1> QED
    BY InitInv, NextInv, InitSlotInv, NextSlotInv, <1>1, PTL DEF Spec, Inv

-----------------------------------------------------------------------------
(* Limits. *)

\* All calls of the function of call j carry one limit.
Uniform(j) == \A k \in Jobs : FnOf[k] = FnOf[j] => LimitOf[k] = LimitOf[j]

\* The calls that are past the lookup of a limiter.
Passed(j) == pc[j] \in {"slot", "send"} \/ Sent(j)

\* The limiter in the map is of its function, a limited call that is past the lookup
\* has one, and as long as the limit does not change it is the one in the map.
LimitInv ==
  /\ \A f \in Functions : limits[f] # None => FnOf[limits[f]] = f
  /\ \A j \in Jobs : LimitOf[j] > 0 /\ Passed(j) => limiter[j] # None
  /\ \A j \in Jobs : Uniform(j) /\ limiter[j] # None => limiter[j] = limits[FnOf[j]]

\* A new dispatcher has no limiters and no call is past the lookup.
LEMMA InitLimitInv == Init => LimitInv
  <1> SUFFICES ASSUME Init PROVE LimitInv
    OBVIOUS
  <1>1. \A j \in Jobs : limiter[j] = None /\ pc[j] = "called" /\ outcome[j] = "none"
    BY DEF Init
  <1>2. \A f \in Functions : limits[f] = None
    BY DEF Init
  <1> QED
    BY <1>1, <1>2 DEF LimitInv, Passed, Sent

\* A lookup replaces the limiter of a function only while its limit changes.
LEMMA LookupLimitInv ==
  ASSUME TypeOK, PlaceInv, LimitInv, NEW j \in Jobs, LookupLimiter(j)
  PROVE  LimitInv'
  <1> DEFINE f == FnOf[j]
             o == limits[f]
             n == IF Reusable(o, j) THEN o ELSE j
  <1>1. /\ pc[j] = "admit" /\ outcome' = outcome
        /\ pc' = [pc EXCEPT ![j] = "slot"]
        /\ limits' = [limits EXCEPT ![f] = n]
        /\ limiter' = [limiter EXCEPT ![j] = n]
    BY DEF LookupLimiter, Goto
  <1>2. /\ f \in Functions /\ \A k \in Jobs : FnOf[k] \in Functions
        /\ o \in Jobs \cup {None} /\ None \notin Jobs
    BY CallAssumption, IdentityAssumption DEF TypeOK
  <1>3. n \in Jobs /\ n # None /\ FnOf[n] = f
    BY <1>2 DEF Reusable, LimitInv
  <1>4. /\ \A g \in Functions : limits'[g] = IF g = f THEN n ELSE limits[g]
        /\ \A k \in Jobs : limiter'[k] = IF k = j THEN n ELSE limiter[k]
        /\ \A k \in Jobs : pc'[k] = IF k = j THEN "slot" ELSE pc[k]
    BY <1>1, <1>2 DEF TypeOK
  <1>5. \A g \in Functions : limits'[g] # None => FnOf[limits'[g]] = g
    BY <1>3, <1>4 DEF LimitInv
  <1>6. \A k \in Jobs : LimitOf[k] > 0 /\ Passed(k)' => limiter'[k] # None
    BY <1>1, <1>3, <1>4 DEF LimitInv, Passed, Sent
  <1>7. ASSUME NEW k \in Jobs, Uniform(k), limiter'[k] # None
        PROVE  limiter'[k] = limits'[FnOf[k]]
    <2>1. CASE k = j \/ FnOf[k] # f
      BY <1>2, <1>4, <1>7, <2>1 DEF LimitInv
    <2>2. CASE k # j /\ FnOf[k] = f
      <3>1. limiter'[k] = limiter[k] /\ limiter[k] = o /\ o # None
        BY <1>4, <1>7, <2>2 DEF LimitInv
      <3>2. LimitOf[o] = LimitOf[j]
        <4>1. o \in Jobs /\ FnOf[o] = f
          BY <1>2, <3>1 DEF LimitInv
        <4> QED
          BY <1>7, <2>2, <4>1 DEF Uniform
      <3>3. n = o
        BY <3>1, <3>2 DEF Reusable
      <3> QED
        BY <1>2, <1>4, <2>2, <3>1, <3>3
    <2> QED
      BY <2>1, <2>2
  <1> QED
    BY <1>5, <1>6, <1>7 DEF LimitInv, Uniform

\* Every step keeps the limiters of functions whose limit does not change.
LEMMA NextLimitInv == TypeOK /\ PlaceInv /\ LimitInv /\ [Next]_vars => LimitInv'
  <1> SUFFICES ASSUME TypeOK, PlaceInv, LimitInv, [Next]_vars PROVE LimitInv'
    OBVIOUS
  <1>1. ASSUME UNCHANGED <<limits, limiter>>,
               \A k \in Jobs : Passed(k)' => Passed(k) \/ LimitOf[k] = 0
        PROVE  LimitInv'
    BY <1>1, CallAssumption DEF LimitInv, Uniform
  <1>2. ASSUME \A j \in Jobs : ~AdmitUnlimited(j) /\ ~LookupLimiter(j)
        PROVE  \A k \in Jobs : pc'[k] \in {"slot", "send"} => pc'[k] = pc[k] \/ Passed(k)
    <2>1. ASSUME NEW j \in Jobs, Cancel(j) \/ Submit(j)
          PROVE  \A k \in Jobs : pc'[k] \in {"slot", "send"} => pc'[k] = pc[k] \/ Passed(k)
      <3>1. CASE Cancel(j) \/ AnnounceScaleUp(j)
        BY <3>1 DEF Cancel, AnnounceScaleUp
      <3>2. CASE AcquireSlot(j)
        BY <3>2 DEF AcquireSlot, Goto, Passed, TypeOK
      <3>3. ASSUME NEW label, label \notin {"slot", "send"}, Goto(j, label)
            PROVE \A k \in Jobs : pc'[k] \in {"slot", "send"} => pc'[k] = pc[k]
        BY <3>3 DEF Goto, TypeOK
      <3>4. CASE SubmitRefused(j) \/ RejectPolicy(j) \/ RejectLimit(j) \/ AbandonEnqueue(j)
                 \/ RejectFull(j) \/ Await(j)
        <4>1. Goto(j, "returned")
          BY <3>4, Zenon DEF SubmitRefused, RejectPolicy, RejectLimit, AbandonEnqueue,
               RejectFull, Await, Reject, Return
        <4> QED
          BY <3>3, <4>1
      <3>5. CASE SubmitEnter(j) \/ Enqueue(j) \/ CountAccepted(j) \/ CheckBacklog(j)
                 \/ ScaleUp(j) \/ DeclineScaleUp(j)
        <4>1. \E label \in {"admit", "sent", "scale", "scaling", "wait"} : Goto(j, label)
          BY <3>5 DEF SubmitEnter, Enqueue, CountAccepted, CheckBacklog, ScaleUp,
               DeclineScaleUp
        <4> QED
          BY <3>3, <4>1
      <3> QED
        BY <1>2, <2>1, <3>1, <3>2, <3>4, <3>5 DEF Submit
    <2>2. ASSUME UNCHANGED pc
          PROVE  \A k \in Jobs : pc'[k] \in {"slot", "send"} => pc'[k] = pc[k] \/ Passed(k)
      BY <2>2
    <2>3. ASSUME \/ \E w \in Workers : Worker(w)
                 \/ \E c \in Closers : Close(c)
                 \/ UNCHANGED vars
          PROVE  UNCHANGED pc
      BY <2>3 DEF Worker, Handle, WorkerReceive, WorkerInvoke, WorkerAnswer,
           WorkerFinish, WorkerRetire, WorkerRetired, WorkerExit, workerFrame, Close,
           CloseCall, CloseLock, CloseJobs, CloseAgain, CloseDone, closeFrame, vars
    <2> QED
      BY <2>1, <2>2, <2>3 DEF Next, Finished
  <1>3. ASSUME \A j \in Jobs : ~LookupLimiter(j)
        PROVE  UNCHANGED <<limits, limiter>>
    <2>1. ASSUME NEW j \in Jobs, Cancel(j) \/ Submit(j) PROVE UNCHANGED <<limits, limiter>>
      BY <1>3, <2>1 DEF Cancel, Submit, SubmitRefused, SubmitEnter, RejectPolicy,
           AdmitUnlimited, AcquireSlot, RejectLimit, Enqueue, AbandonEnqueue,
           RejectFull, CountAccepted, CheckBacklog, AnnounceScaleUp, ScaleUp,
           DeclineScaleUp, Await, Reject
    <2>2. ASSUME \/ \E w \in Workers : Worker(w)
                 \/ \E c \in Closers : Close(c)
                 \/ UNCHANGED vars
          PROVE  UNCHANGED <<limits, limiter>>
      BY <2>2 DEF Worker, Handle, WorkerReceive, WorkerInvoke, WorkerAnswer,
           WorkerFinish, WorkerRetire, WorkerRetired, WorkerExit, workerFrame, Close,
           CloseCall, CloseLock, CloseJobs, CloseAgain, CloseDone, closeFrame, vars
    <2> QED
      BY <2>1, <2>2 DEF Next, Finished
  <1>4. CASE \E j \in Jobs : LookupLimiter(j)
    BY <1>4, LookupLimitInv
  <1>5. ASSUME NEW j \in Jobs, AdmitUnlimited(j) PROVE LimitInv'
    <2>1. /\ LimitOf[j] = 0 /\ pc' = [pc EXCEPT ![j] = "send"]
          /\ UNCHANGED <<outcome, limits, limiter>>
      BY <1>5 DEF AdmitUnlimited, Goto
    <2>2. \A k \in Jobs : Passed(k)' => Passed(k) \/ LimitOf[k] = 0
      BY <2>1 DEF Passed, Sent, TypeOK
    <2> QED
      BY <1>1, <2>1, <2>2
  <1>6. CASE \A j \in Jobs : ~AdmitUnlimited(j) /\ ~LookupLimiter(j)
    <2>1. \A k \in Jobs : Sent(k)' => Passed(k)
      <3>1. CASE Still
        BY <3>1 DEF Still, Passed
      <3>2. ASSUME NEW j \in Jobs, Enqueue(j) PROVE \A k \in Jobs : Sent(k)' => Passed(k)
        BY <3>2 DEF Enqueue, Goto, Sent, Passed, TypeOK
      <3>3. ASSUME NEW w \in Workers, Handle(w) PROVE \A k \in Jobs : Sent(k)' => Passed(k)
        BY <3>3 DEF Handle, WorkerReceive, WorkerInvoke, WorkerAnswer, WorkerFinish,
             workerFrame, Sent, Passed
      <3> QED
        BY <3>1, <3>2, <3>3, Classify
    <2>2. \A k \in Jobs : Passed(k)' => Passed(k)
      BY <1>2, <1>6, <2>1 DEF Passed
    <2> QED
      BY <1>1, <1>3, <1>6, <2>2
  <1> QED
    BY <1>4, <1>5, <1>6

\* What a function has queued or running never exceeds its limit.
THEOREM FunctionLimitsHold == Spec => []FunctionLimit
  <1>1. Inv /\ SlotInv /\ LimitInv => FunctionLimit
    <2> SUFFICES ASSUME Inv, SlotInv, LimitInv PROVE FunctionLimit
      OBVIOUS
    <2>1. None \notin Jobs /\ \A o \in Jobs : LimitOf[o] \in Nat
      BY CallAssumption, IdentityAssumption
    <2>2. Queued \cup Handled \subseteq Jobs
      BY DEF Inv, TypeOK, Queued, Handled, ToSet
    <2>3. \A k \in Queued \cup Handled :
            limiter[k] # None => limiter[k] \in Jobs /\ k \in slots[limiter[k]]
      BY <2>2 DEF Inv, TypeOK, SlotInv, SlotsMatchOutstanding, HoldsSlot
    <2>4. ASSUME NEW o \in Jobs, NEW S \in SUBSET slots[o]
          PROVE  Cardinality(S) <= LimitOf[o]
      <3>1. IsFiniteSet(slots[o])
        BY IdentityAssumption, FS_Subset DEF Inv, TypeOK
      <3>2. /\ Cardinality(S) <= Cardinality(slots[o])
            /\ Cardinality(S) \in Nat /\ Cardinality(slots[o]) \in Nat
        BY <3>1, FS_Subset, FS_CardinalityType
      <3>3. Cardinality(slots[o]) <= LimitOf[o]
        BY DEF SlotInv
      <3> QED
        BY <2>1, <3>2, <3>3
    <2>5. ASSUME NEW o \in Jobs
          PROVE  Cardinality({j \in Queued \cup Handled : limiter[j] = o}) <= LimitOf[o]
      <3>1. {j \in Queued \cup Handled : limiter[j] = o} \in SUBSET slots[o]
        BY <2>1, <2>3
      <3> QED
        BY <2>4, <3>1
    <2>6. ASSUME NEW j \in Jobs, LimitOf[j] > 0, Uniform(j)
          PROVE  Cardinality(Outstanding(FnOf[j])) <= LimitOf[j]
      <3> DEFINE o == limits[FnOf[j]]
      <3>1. ASSUME NEW k \in Outstanding(FnOf[j])
            PROVE  o \in Jobs /\ LimitOf[o] = LimitOf[j] /\ k \in slots[o]
        <4>1. k \in Jobs /\ k \in Queued \cup Handled /\ FnOf[k] = FnOf[j]
          BY <2>2 DEF Outstanding
        <4>2. LimitOf[k] = LimitOf[j] /\ Uniform(k) /\ Passed(k)
          BY <2>6, <4>1 DEF Uniform, Passed, Inv, PlaceInv
        <4>3. limiter[k] # None /\ limiter[k] = o
          BY <2>6, <4>1, <4>2 DEF LimitInv
        <4>4. FnOf[j] \in Functions
          BY CallAssumption
        <4>5. o \in Jobs /\ FnOf[o] = FnOf[j] /\ k \in slots[o]
          BY <2>3, <4>1, <4>3, <4>4 DEF LimitInv
        <4> QED
          BY <2>6, <4>5 DEF Uniform
      <3>2. CASE Outstanding(FnOf[j]) = {}
        <4>1. Cardinality(Outstanding(FnOf[j])) = 0
          BY <3>2, FS_EmptySet
        <4> QED
          BY <2>1, <4>1
      <3>3. CASE Outstanding(FnOf[j]) # {}
        <4>1. o \in Jobs /\ LimitOf[o] = LimitOf[j] /\ Outstanding(FnOf[j]) \in SUBSET slots[o]
          BY <3>1, <3>3
        <4>2. Cardinality(Outstanding(FnOf[j])) <= LimitOf[o]
          BY <2>4, <4>1
        <4> QED
          BY <4>1, <4>2
      <3> QED
        BY <3>2, <3>3
    <2> QED
      BY <2>5, <2>6 DEF FunctionLimit, Uniform
  <1> QED
    BY InitInv, NextInv, InitSlotInv, NextSlotInv, InitLimitInv, NextLimitInv, <1>1, PTL
    DEF Spec, Inv
=============================================================================

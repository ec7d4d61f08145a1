----------------------- MODULE InstancePoolCountProofs -----------------------
(***************************************************************************)
(* Proofs about InstancePool, for any number of calls, evictions, modules  *)
(* and names and any pool size: a pool counts its instances exactly until  *)
(* its path is evicted for the first time; the pools implement Leases; and *)
(* they can only stop where a call waits for room in a full channel.       *)
(***************************************************************************)
EXTENDS InstancePoolProofs, FiniteSetTheorems

\* No eviction of the path has begun.
Unevicted(p) == \A r \in Removers : p \in TargetOf[r] => rpc[r] = "idle"

\* A call and its instances, and a pool and what is in its channel, belong to one
\* path, whatever evictions did: so the calls of a path cannot disturb another.
Homes ==
  /\ \A c \in Calls : mine[c] # None => pc[mine[c]] # "start" /\ PathOf[mine[c]] = PathOf[c]
  /\ \A c \in Calls : Holding(c) =>
       pc[held[c].pool] # "start" /\ PathOf[held[c].pool] = PathOf[c]
  /\ \A o \in Calls : \A x \in Idle(o) : pc[x.pool] # "start" /\ PathOf[x.pool] = PathOf[o]

\* While a path is not evicted, there is one pool that all its calls work with and
\* that all its instances come from.
Settled ==
  \A c \in Calls : pc[c] # "start" /\ Unevicted(PathOf[c]) =>
    /\ Current(c) # None /\ mine[c] = Current(c)
    /\ Holding(c) => held[c].pool = Current(c)
    /\ \A x \in Idle(Current(c)) : x.pool = Current(c)

\* A pool object that is not made yet is empty.
Fresh == \A c \in Calls : pc[c] = "start" => total[c] = 0 /\ available[c] = <<>>

CountInv == Shape /\ Homes /\ Settled /\ Fresh /\ CountsExactly

CallNext(c) == Ensure(c) \/ Acquire(c) \/ Use(c) \/ Release(c)

-----------------------------------------------------------------------------
(* What the step of a call can do to the rest. *)

\* It moves only itself, and makes a pool only for its own path, as its first step.
LEMMA MovesItself ==
  ASSUME Shape, NEW c \in Calls, CallNext(c)
  PROVE  /\ \A d \in Calls \ {c} : pc'[d] = pc[d] /\ mine'[d] = mine[d] /\ held'[d] = held[d]
         /\ pc'[c] \in CallStates \ {"start"} /\ UNCHANGED <<closed, rpc, drains>>
         /\ \/ pc[c] # "start" /\ pools' = pools
            \/ pc[c] = "start" /\ Current(c) # None /\ pools' = pools
            \/ pc[c] = "start" /\ Current(c) = None /\ pools' = [pools EXCEPT ![PathOf[c]] = c]
         /\ \/ mine'[c] = pools'[PathOf[c]]
            \/ pc[c] # "start" /\ mine'[c] = mine[c]
  <1> USE UseAssumption DEF Shape, TypeOK, Goto, Hold, Current, removers, CallStates
  <1>1. CASE EnsurePool(c)
    <2> PICK p \in Paths : p = PathOf[c]
      OBVIOUS
    <2> PICK o \in Calls : o = IF pools[p] = None THEN c ELSE pools[p]
      OBVIOUS
    <2>1. pools' = [pools EXCEPT ![p] = o] /\ mine' = [mine EXCEPT ![c] = o]
      BY <1>1 DEF EnsurePool
    <2>2. pools[p] # None => pools' = pools
      BY <2>1
    <2>3. mine'[c] = pools'[p]
      BY <2>1
    <2>4. \/ Current(c) # None /\ pools' = pools
          \/ Current(c) = None /\ pools' = [pools EXCEPT ![p] = c]
      BY <2>1, <2>2
    <2>5. /\ pc[c] = "start" /\ pc' = [pc EXCEPT ![c] = "lock"]
          /\ UNCHANGED <<held, closed, rpc, drains>>
      BY <1>1 DEF EnsurePool
    <2>6. \A d \in Calls \ {c} : pc'[d] = pc[d] /\ mine'[d] = mine[d] /\ held'[d] = held[d]
      BY <2>1, <2>5
    <2> QED
      BY <2>3, <2>4, <2>5, <2>6
  <1>2. CASE \/ EnsureLock(c) \/ EnsureReplaced(c) \/ EnsureFilled(c) \/ EnsureReserve(c)
             \/ Instantiate(c) \/ InstantiateFails(c)
    BY <1>2 DEF EnsureLock, EnsureReplaced, EnsureFilled, EnsureReserve, Instantiate,
       InstantiateFails
  <1>3. CASE \/ EnsureUndo(c) \/ EnsureOrphaned(c) \/ EnsurePut(c) \/ EnsureBlocked(c) \/ EnsureSend(c)
    BY <1>3 DEF EnsureUndo, EnsureOrphaned, EnsurePut, EnsureBlocked, EnsureSend
  <1>4. CASE Acquire(c) \/ Use(c)
    <2>1. CASE AcquirePool(c)
      <3>1. mine'[c] = pools[PathOf[c]] /\ pools' = pools
        BY <2>1 DEF AcquirePool
      <3>2. \A d \in Calls \ {c} : pc'[d] = pc[d] /\ mine'[d] = mine[d] /\ held'[d] = held[d]
        BY <2>1 DEF AcquirePool
      <3> QED
        BY <2>1, <3>1, <3>2 DEF AcquirePool
    <2>2. CASE AcquireNoPool(c) \/ Receive(c) \/ ReceiveClosed(c) \/ GiveUp(c)
      BY <2>2 DEF AcquireNoPool, Receive, ReceiveClosed, GiveUp
    <2>3. CASE Use(c)
      BY <2>3 DEF Use, HandlerReturns, HandlerFails
    <2> QED
      BY <1>4, <2>1, <2>2, <2>3 DEF Acquire
  <1>5. CASE Release(c)
    BY <1>5 DEF Release, ReleaseReused, ReleaseDiscarded, CloseInstance
  <1> QED
    BY <1>1, <1>2, <1>3, <1>4, <1>5 DEF CallNext, Ensure

\* A call gets an instance by reserving one for its pool or from its channel.
LEMMA HoldsWhatItTook ==
  ASSUME Shape, NEW c \in Calls, CallNext(c), Holding(c)'
  PROVE  \/ Holding(c) /\ held'[c] = held[c]
         \/ pc[c] = "fill" /\ held'[c].pool = mine[c]
         \/ pc[c] = "receive" /\ held'[c] \in Idle(mine[c])
  <1>1. mine[c] \in Calls \cup {None} /\ pc[c] \in CallStates /\ pc \in [Calls -> CallStates]
        /\ held \in [Calls -> Instances \cup {None}]
    BY DEF Shape, TypeOK
  <1>2. CASE EnsureReserve(c)
    BY <1>1, <1>2 DEF EnsureReserve, Hold
  <1>3. CASE Receive(c)
    <2> PICK o \in Calls : o = mine[c]
      BY <1>3 DEF Receive, Shape, TypeOK
    <2>1. Head(available[o]) \in Idle(o)
      BY <1>3, TakeOne DEF Receive, Shape
    <2> QED
      BY <1>1, <1>3, <2>1 DEF Receive, Hold
  <1>4. CASE \/ EnsurePool(c) \/ EnsureLock(c) \/ EnsureReplaced(c) \/ EnsureFilled(c)
             \/ Instantiate(c) \/ InstantiateFails(c) \/ EnsureUndo(c)
    BY <1>1, <1>4 DEF EnsurePool, EnsureLock, EnsureReplaced, EnsureFilled, Instantiate,
       InstantiateFails, EnsureUndo, Goto, Hold, Holding, Making, Using
  <1>5. CASE EnsureOrphaned(c) \/ EnsurePut(c) \/ EnsureBlocked(c) \/ EnsureSend(c)
    BY <1>1, <1>5 DEF EnsureOrphaned, EnsurePut, EnsureBlocked, EnsureSend, Goto, Hold,
       Holding, Making, Using
  <1>6. CASE AcquireNoPool(c) \/ AcquirePool(c) \/ ReceiveClosed(c) \/ GiveUp(c) \/ Use(c)
    BY <1>1, <1>6 DEF AcquireNoPool, AcquirePool, ReceiveClosed, GiveUp, Use,
       HandlerReturns,
       HandlerFails, Goto, Hold, Holding, Making, Using
  <1>7. CASE Release(c)
    BY <1>1, <1>7 DEF Release, ReleaseReused, ReleaseDiscarded, CloseInstance, Goto, Hold,
       Holding, Making, Using
  <1> QED
    BY <1>2, <1>3, <1>4, <1>5, <1>6, <1>7 DEF CallNext, Ensure, Acquire

\* What a call does to the channels: nothing, or one send, or one receive.
LEMMA TouchesOneChannel ==
  ASSUME Shape, NEW c \in Calls, CallNext(c)
  PROVE  \/ available' = available
         \/ /\ pc[c] \in {"put", "send", "reuse"} /\ Current(c) # None
            /\ HasRoom(Current(c)) /\ Push(Current(c), held[c])
            /\ total' = total
         \/ Receive(c)
  <1>1. CASE EnsurePut(c) \/ EnsureSend(c) \/ ReleaseReused(c)
    BY <1>1, UseAssumption DEF EnsurePut, EnsureSend, ReleaseReused, Shape, TypeOK,
       Locked, IsCurrent, Current
  <1> QED
    BY <1>1 DEF CallNext, Ensure, Acquire, Use, Release, EnsurePool, EnsureLock,
       EnsureReplaced,
       EnsureFilled, EnsureReserve, Instantiate, InstantiateFails, EnsureUndo, EnsureOrphaned,
       EnsureBlocked, AcquireNoPool, AcquirePool, ReceiveClosed, GiveUp, HandlerReturns,
       HandlerFails, ReleaseDiscarded, CloseInstance

-----------------------------------------------------------------------------
(* Homes, Settled and Fresh. *)

\* A channel gains at most the instance that a call of its path puts into it.
LEMMA IdleGrowth ==
  ASSUME Shape, NEW c \in Calls, CallNext(c), NEW o \in Calls
  PROVE  \/ Idle(o)' \subseteq Idle(o)
         \/ o = Current(c) /\ Holding(c) /\ Idle(o)' \subseteq Idle(o) \cup {held[c]}
  <1>1. CASE available' = available
    BY <1>1 DEF Idle
  <1>2. CASE Receive(c)
    <2> PICK q \in Calls : q = mine[c]
      BY <1>2 DEF Receive, Shape, TypeOK
    <2>1. available[q] # <<>> /\ TakeFirst(q) /\ TypeOK
      BY <1>2 DEF Receive, Shape
    <2>2. Idle(q) = Idle(q)' \cup {Head(available[q])} /\ (\A s \in Calls \ {q} : Idle(s)' = Idle(s))
      BY <2>1, TakeOne
    <2> QED
      BY <2>2
  <1>3. CASE /\ pc[c] \in {"put", "send", "reuse"} /\ Current(c) # None
             /\ HasRoom(Current(c)) /\ Push(Current(c), held[c])
    <2>1. Holding(c) /\ held[c] \in Instances /\ Current(c) \in Calls
      BY <1>3, UseAssumption DEF Shape, TypeOK, Holding, Making, Using, Current
    <2> PICK q \in Calls : q = Current(c)
      BY <2>1
    <2>2. Idle(q)' = Idle(q) \cup {held[c]} /\ (\A s \in Calls \ {q} : Idle(s)' = Idle(s))
      <3> PICK x \in Instances : x = held[c]
        BY <2>1
      <3> QED
        BY <1>3, PushOne DEF Shape
    <2> QED
      BY <2>1, <2>2
  <1> QED
    BY <1>1, <1>2, <1>3, TouchesOneChannel

LEMMA InstanceTypes ==
  ASSUME Shape
  PROVE  /\ \A c \in Calls : Holding(c) => held[c] \in Instances
         /\ \A o \in Calls : Idle(o) \subseteq Instances
         /\ \A p \in Paths : pools[p] # None => pools[p] \in Calls
  BY ElementOfSeq, LenProperties DEF Shape, TypeOK, Idle, ToSet

LEMMA CallKeepsHomes ==
  ASSUME Shape, Homes, NEW c \in Calls, CallNext(c)
  PROVE  Homes'
  <1>1. /\ \A d \in Calls : pc[d] # "start" => pc'[d] # "start"
        /\ \A d \in Calls \ {c} : mine'[d] = mine[d] /\ held'[d] = held[d]
        /\ pc'[c] # "start"
    BY MovesItself
  <1>2. ASSUME NEW d \in Calls, mine'[d] # None PROVE pc'[mine'[d]] # "start" /\ PathOf[mine'[d]] = PathOf[d]
    <2>1. CASE mine'[d] = mine[d]
      BY <1>1, <1>2, <2>1 DEF Homes, Shape, TypeOK
    <2>2. CASE d = c /\ mine'[c] = pools'[PathOf[c]]
      <3>1. pools'[PathOf[c]] = c \/ pools'[PathOf[c]] = pools[PathOf[c]]
        <4> PICK p \in Paths : p = PathOf[c]
          BY UseAssumption
        <4>1. pools' = pools \/ pools' = [pools EXCEPT ![p] = c]
          BY MovesItself
        <4> QED
          BY <4>1 DEF Shape, TypeOK
      <3> QED
        BY <1>1, <1>2, <2>2, <3>1, UseAssumption, InstanceTypes DEF Shape, Created
    <2> QED
      BY <1>1, <2>1, <2>2, MovesItself
  <1>3. ASSUME NEW d \in Calls, Holding(d)'
        PROVE  pc'[held'[d].pool] # "start" /\ PathOf[held'[d].pool] = PathOf[d]
    <2>1. CASE Holding(d) /\ held'[d] = held[d]
      BY <1>1, <2>1, InstanceTypes DEF Homes, Instances
    <2>2. CASE d = c /\ pc[c] = "fill" /\ held'[c].pool = mine[c]
      BY <1>1, <2>2 DEF Homes, Shape, TypeOK
    <2>3. CASE d = c /\ pc[c] = "receive" /\ held'[c] \in Idle(mine[c])
      <3>1. mine[c] \in Calls /\ mine[c] # None
        BY <2>3 DEF Shape, TypeOK
      <3> QED
        BY <1>1, <2>3, <3>1, InstanceTypes DEF Homes, Instances
    <2> QED
      <3>1. CASE d = c
        <4>1. Holding(c)'
          BY <1>3, <3>1
        <4> QED
          BY <2>1, <2>2, <2>3, <3>1, <4>1, HoldsWhatItTook
      <3>2. CASE d # c
        <4>1. Holding(d) /\ held'[d] = held[d]
          BY <1>3, <3>2, MovesItself DEF Holding, Making, Using
        <4> QED
          BY <2>1, <4>1
      <3> QED
        BY <3>1, <3>2
  <1>4. ASSUME NEW o \in Calls, NEW x \in Idle(o)'
        PROVE  pc'[x.pool] # "start" /\ PathOf[x.pool] = PathOf[o]
    <2>1. CASE x \in Idle(o)
      BY <1>1, <2>1, InstanceTypes DEF Homes, Instances
    <2>2. CASE o = Current(c) /\ Holding(c) /\ x = held[c]
      <3>1. PathOf[o] = PathOf[c]
        BY <2>2, UseAssumption DEF Shape, Created, TypeOK, Current
      <3> QED
        BY <1>1, <2>2, <3>1, InstanceTypes DEF Homes, Instances
    <2> QED
      BY <1>4, <2>1, <2>2, IdleGrowth
  <1> QED
    BY <1>2, <1>3, <1>4 DEF Homes

LEMMA CallKeepsSettled ==
  ASSUME Shape, Homes, Settled, Fresh, NEW c \in Calls, CallNext(c)
  PROVE  Settled'
  <1> SUFFICES ASSUME NEW d \in Calls, pc'[d] # "start", Unevicted(PathOf[d])
               PROVE  /\ Current(d)' # None /\ mine'[d] = Current(d)'
                      /\ Holding(d)' => held'[d].pool = Current(d)'
                      /\ \A x \in Idle(Current(d))' : x.pool = Current(d)'
    BY MovesItself DEF Settled, Unevicted
  <1> PICK p \in Paths : p = PathOf[d]
    BY UseAssumption
  <1>1. CASE d = c /\ pc[c] = "start" /\ pools[p] = None
    <2>1. pools' = [pools EXCEPT ![p] = c] /\ mine'[c] = pools'[p]
      BY <1>1, MovesItself DEF Current
    <2>2. Current(d)' = c /\ c # None /\ mine'[d] = c
      BY <1>1, <2>1, UseAssumption DEF Current, Shape, TypeOK
    <2>3. ~Holding(c)'
      BY <1>1, HoldsWhatItTook DEF Holding, Making, Using
    <2>4. Idle(c)' = {}
      <3>1. Idle(c) = {}
        BY <1>1 DEF Fresh, Idle, ToSet
      <3> QED
        BY <1>1, <3>1, IdleGrowth DEF Holding, Making, Using
    <2>5. Idle(Current(d))' = Idle(c)'
      BY <2>2 DEF Idle
    <2> QED
      BY <1>1, <2>2, <2>3, <2>4, <2>5
  <1>2. CASE pools[p] # None
    <2> PICK o \in Calls : o = pools[p]
      BY <1>2, InstanceTypes
    <2>1. pools'[p] = o /\ PathOf[o] = p /\ pc[o] # "start"
      BY <1>2, MovesItself, UseAssumption DEF Shape, TypeOK, Created, Current
    <2>2. \A e \in Calls : PathOf[e] = p /\ pc[e] # "start" =>
            mine[e] = o /\ (Holding(e) => held[e].pool = o)
      BY <1>2 DEF Settled, Current
    <2>3. \A x \in Idle(o) : x.pool = o
      BY <2>1 DEF Settled, Current, Idle
    <2>4. Current(d)' = o /\ o # None
      BY <2>1, UseAssumption DEF Current
    <2>5. mine'[d] = o
      BY <2>1, <2>2, MovesItself
    <2>6. Holding(d)' => held'[d].pool = o
      <3>1. CASE d = c
        <4>1. pc[c] = "start" => ~Holding(c)
          BY DEF Holding, Making, Using
        <4>2. CASE pc[c] = "start"
          BY <3>1, <4>1, <4>2, HoldsWhatItTook
        <4>3. CASE pc[c] # "start"
          BY <2>2, <2>3, <3>1, <4>3, HoldsWhatItTook
        <4> QED
          BY <4>2, <4>3
      <3>2. CASE d # c
        BY <2>2, <3>2, MovesItself DEF Holding, Making, Using
      <3> QED
        BY <3>1, <3>2
    <2>7. \A x \in Idle(o)' : x.pool = o
      <3>1. CASE o = Current(c) /\ Holding(c) /\ Idle(o)' \subseteq Idle(o) \cup {held[c]}
        <4>1. PathOf[c] = p /\ pc[c] # "start"
          BY <2>1, <3>1, UseAssumption DEF Shape, Created, TypeOK, Current, Holding,
             Making, Using
        <4> QED
          BY <2>2, <2>3, <3>1, <4>1
      <3> QED
        BY <2>3, <3>1, IdleGrowth
    <2>8. Idle(Current(d))' = Idle(o)'
      BY <2>4 DEF Idle
    <2> QED
      BY <2>4, <2>5, <2>6, <2>7, <2>8
  <1>3. CASE pools[p] = None /\ ~(d = c /\ pc[c] = "start")
    BY <1>3, MovesItself DEF Settled, Current
  <1> QED
    BY <1>1, <1>2, <1>3
\* A call changes the counter and the channel of its own pools only.
LEMMA TouchesOwnPools ==
  ASSUME Shape, NEW c \in Calls, CallNext(c), NEW o \in Calls,
         pc[c] = "start" \/ (mine[c] # o /\ Current(c) # o)
  PROVE  total'[o] = total[o] /\ available'[o] = available[o]
  <1> USE DEF Shape, TypeOK
  <1>1. CASE EnsurePool(c)
    BY <1>1 DEF EnsurePool
  <1>2. CASE EnsureReserve(c) \/ EnsureUndo(c) \/ EnsureOrphaned(c)
    BY <1>2 DEF EnsureReserve, EnsureUndo, EnsureOrphaned, ReturnReservation
  <1>3. CASE EnsurePut(c) \/ EnsureSend(c) \/ ReleaseReused(c)
    BY <1>3 DEF EnsurePut, EnsureSend, ReleaseReused, Push
  <1>4. CASE Receive(c)
    BY <1>4 DEF Receive, TakeFirst
  <1>5. CASE ReleaseDiscarded(c)
    BY <1>5 DEF ReleaseDiscarded, Discount
  <1> QED
    BY <1>1, <1>2, <1>3, <1>4, <1>5 DEF CallNext, Ensure, Acquire, Use, Release,
       EnsureLock,
       EnsureReplaced, EnsureFilled, Instantiate, InstantiateFails, EnsureBlocked, AcquireNoPool,
       AcquirePool, ReceiveClosed, GiveUp, HandlerReturns, HandlerFails, CloseInstance

LEMMA CallKeepsFresh ==
  ASSUME Shape, Homes, Fresh, NEW c \in Calls, CallNext(c)
  PROVE  Fresh'
  <1> SUFFICES ASSUME NEW o \in Calls, pc'[o] = "start" PROVE total'[o] = 0 /\ available'[o] = <<>>
    BY DEF Fresh
  <1>1. o # c /\ pc[o] = "start"
    BY MovesItself
  <1>2. mine[c] # o /\ Current(c) # o
    BY <1>1, UseAssumption DEF Homes, Shape, TypeOK, Created, Current
  <1> QED
    BY <1>1, <1>2, TouchesOwnPools DEF Fresh

-----------------------------------------------------------------------------
(* The counter of a pool. *)

\* Whether a call is counted for its pool is seen from where it stands.
CountedAt == {"make", "undo", "put", "send", "use", "reuse", "discard"}

LEMMA CountedFinite ==
  ASSUME NEW o \in Calls
  PROVE  IsFiniteSet(Counted(o)) /\ Cardinality(Counted(o)) \in Nat
  <1>1. Counted(o) \in SUBSET Calls
    BY DEF Counted
  <1>2. IsFiniteSet(Counted(o))
    BY <1>1, FS_Subset, UseAssumption
  <1> QED
    BY <1>2, FS_CardinalityType

\* The step of a call changes what is counted for a pool by that call at most.
LEMMA CountedByOne ==
  ASSUME Shape, NEW c \in Calls, CallNext(c), NEW o \in Calls
  PROVE  /\ (c \in Counted(o) <=> c \in Counted(o)') =>
              Cardinality(Counted(o)') = Cardinality(Counted(o))
         /\ c \in Counted(o) /\ c \notin Counted(o)' =>
              Cardinality(Counted(o)') = Cardinality(Counted(o)) - 1
         /\ c \notin Counted(o) /\ c \in Counted(o)' =>
              Cardinality(Counted(o)') = Cardinality(Counted(o)) + 1
  <1> DEFINE C == Counted(o)
             D == Counted(o)'
  <1>1. C \subseteq Calls /\ D \subseteq Calls
    BY DEF Counted
  <1>2. \A d \in Calls \ {c} : d \in C <=> d \in D
    BY MovesItself DEF Counted, Holding, Making, Using
  <1>3. IsFiniteSet(C)
    BY CountedFinite
  <1>4. (c \in C <=> c \in D) => D = C
    BY <1>1, <1>2
  <1>5. c \in C /\ c \notin D => D = C \ {c}
    BY <1>1, <1>2
  <1>6. c \notin C /\ c \in D => D = C \cup {c}
    BY <1>1, <1>2
  <1> HIDE DEF C, D
  <1>7. /\ Cardinality(C \cup {c}) = IF c \in C THEN Cardinality(C) ELSE Cardinality(C) + 1
        /\ Cardinality(C \ {c}) = IF c \in C THEN Cardinality(C) - 1 ELSE Cardinality(C)
    BY <1>3, FS_AddElement, FS_RemoveElement
  <1>8. /\ (c \in C <=> c \in D) => Cardinality(D) = Cardinality(C)
        /\ c \in C /\ c \notin D => Cardinality(D) = Cardinality(C) - 1
        /\ c \notin C /\ c \in D => Cardinality(D) = Cardinality(C) + 1
    BY <1>4, <1>5, <1>6, <1>7
  <1> QED
    BY <1>8 DEF C, D

\* A pool of a path that is not evicted counts right after a step of one of its
\* calls, and the call does not block.
LEMMA CountsOwnCall ==
  ASSUME Shape, Homes, Settled, Fresh, CountsExactly, NEW c \in Calls, CallNext(c),
         pc[c] # "start", Unevicted(PathOf[c]), NEW o \in Calls, o = Current(c)
  PROVE  /\ total'[o] = Len(available'[o]) + Cardinality(Counted(o)')
         /\ total'[o] <= Size /\ pc'[c] # "send"
  <1>1. /\ mine[c] = o /\ o # None /\ PathOf[c] \in Paths /\ pools[PathOf[c]] = o
        /\ Holding(c) => held[c].pool = o
    BY UseAssumption DEF Settled, Current
  <1>2. mine'[c] = o /\ (Holding(c)' => held'[c].pool = o) /\ pc'[c] # "start"
    <2>1. pools' = pools /\ pc'[c] # "start" /\ UNCHANGED rpc
      BY <1>1, MovesItself
    <2>2. Settled'
      BY CallKeepsSettled
    <2> QED
      BY <1>1, <2>1, <2>2 DEF Settled, Current, Unevicted
  <1>3. c \in Counted(o) <=> pc[c] \in CountedAt
    BY <1>1 DEF Counted, CountedAt, Holding, Making, Using
  <1>4. c \in Counted(o)' <=> pc'[c] \in CountedAt
    BY <1>2 DEF Counted, CountedAt, Holding, Making, Using
  <1>5. /\ total[o] = Len(available[o]) + Cardinality(Counted(o)) /\ total[o] <= Size
        /\ pc[c] # "send"
    BY <1>1 DEF CountsExactly, Unevicted
  <1>6. /\ Len(available[o]) \in Nat /\ Cardinality(Counted(o)) \in Nat /\ Size \in Nat
        /\ total \in [Calls -> Int] /\ total[o] \in Int
        /\ pc \in [Calls -> CallStates] /\ available[o] \in Seq(Instances)
    BY CountedFinite, LenProperties, SizeAssumption DEF Shape, TypeOK
  <1>7. /\ (pc[c] \in CountedAt <=> pc'[c] \in CountedAt) =>
             Cardinality(Counted(o)') = Cardinality(Counted(o))
        /\ pc[c] \in CountedAt /\ pc'[c] \notin CountedAt =>
             Cardinality(Counted(o)') = Cardinality(Counted(o)) - 1
        /\ pc[c] \notin CountedAt /\ pc'[c] \in CountedAt =>
             Cardinality(Counted(o)') = Cardinality(Counted(o)) + 1
    BY <1>3, <1>4, CountedByOne
  <1>8. pc[c] \in CountedAt => Cardinality(Counted(o)) >= 1
    BY <1>3, <1>6, CountedFinite, FS_EmptySet
  <1>9. ~EnsureBlocked(c) /\ ~EnsureOrphaned(c) /\ ~EnsureReplaced(c) /\ ~EnsurePool(c) /\ ~EnsureSend(c)
    <2>1. pc[c] = "put" => HasRoom(mine[c])
      BY <1>1, <1>5, <1>6, <1>8 DEF CountedAt, HasRoom
    <2> QED
      BY <1>1, <1>5, <2>1 DEF EnsureBlocked, EnsureOrphaned, EnsureReplaced, EnsurePool,
         EnsureSend,
         IsCurrent, Current
  <1>10. CASE /\ total' = total /\ available' = available /\ pc'[c] # "send"
              /\ pc[c] \in CountedAt <=> pc'[c] \in CountedAt
    <2>1. Cardinality(Counted(o)') = Cardinality(Counted(o))
      BY <1>7, <1>10
    <2> QED
      BY <1>5, <1>10, <2>1
  <1>11. CASE \/ EnsureLock(c) \/ EnsureFilled(c) \/ Instantiate(c) \/ InstantiateFails(c)
              \/ AcquireNoPool(c) \/ AcquirePool(c) \/ ReceiveClosed(c) \/ GiveUp(c)
              \/ Use(c) \/ CloseInstance(c)
    <2>1. /\ total' = total /\ available' = available /\ pc'[c] # "send"
          /\ pc[c] \in CountedAt <=> pc'[c] \in CountedAt
      BY <1>6, <1>11 DEF EnsureLock, EnsureFilled, Instantiate, InstantiateFails,
         AcquireNoPool,
         AcquirePool, ReceiveClosed, GiveUp, Use, HandlerReturns, HandlerFails, CloseInstance,
         Goto, CountedAt
    <2> QED
      BY <1>10, <2>1
  <1>12. CASE EnsureReserve(c)
    <2>1. total[o] < Size /\ total'[o] = total[o] + 1 /\ available' = available
      BY <1>1, <1>6, <1>12 DEF EnsureReserve
    <2>2. pc[c] \notin CountedAt /\ pc'[c] \in CountedAt /\ pc'[c] # "send"
      BY <1>6, <1>12 DEF EnsureReserve, Goto, CountedAt
    <2>3. Cardinality(Counted(o)') = Cardinality(Counted(o)) + 1
      BY <1>7, <2>2
    <2> QED
      BY <1>5, <1>6, <2>1, <2>2, <2>3
  <1>13. CASE EnsureUndo(c) \/ ReleaseDiscarded(c)
    <2>1. pc[c] \in CountedAt /\ pc'[c] \notin CountedAt /\ pc'[c] # "send"
      BY <1>6, <1>13 DEF EnsureUndo, ReleaseDiscarded, Goto, CountedAt
    <2>2. total[o] > 0
      BY <1>5, <1>6, <1>8, <2>1
    <2>3. total'[o] = total[o] - 1 /\ available' = available
      BY <1>1, <1>6, <1>13, <2>2 DEF EnsureUndo, ReturnReservation, ReleaseDiscarded,
         Discount
    <2>4. Cardinality(Counted(o)') = Cardinality(Counted(o)) - 1
      BY <1>7, <2>1
    <2> QED
      BY <1>5, <1>6, <2>1, <2>3, <2>4
  <1>14. CASE EnsurePut(c) \/ ReleaseReused(c)
    <2>1. Push(o, held[c]) /\ total' = total
      BY <1>1, <1>14 DEF EnsurePut, ReleaseReused
    <2>2. pc[c] \in CountedAt /\ pc'[c] \notin CountedAt /\ pc'[c] # "send"
      BY <1>6, <1>14 DEF EnsurePut, ReleaseReused, Goto, CountedAt
    <2>3. held[c] \in Instances
      BY <1>14 DEF EnsurePut, ReleaseReused, Shape, TypeOK, Holding, Making, Using
    <2>4. Len(available'[o]) = Len(available[o]) + 1
      <3>1. available'[o] = Append(available[o], held[c])
        BY <2>1 DEF Push, Shape, TypeOK
      <3> QED
        BY <1>6, <2>3, <3>1, AppendProperties
    <2>5. Cardinality(Counted(o)') = Cardinality(Counted(o)) - 1
      BY <1>7, <2>2
    <2> QED
      BY <1>5, <1>6, <2>1, <2>2, <2>4, <2>5
  <1>15. CASE Receive(c)
    <2>1. available[o] # <<>> /\ TakeFirst(o) /\ total' = total
      BY <1>1, <1>15 DEF Receive
    <2>2. pc[c] \notin CountedAt /\ pc'[c] \in CountedAt /\ pc'[c] # "send"
      BY <1>6, <1>15 DEF Receive, Goto, CountedAt
    <2>3. Len(available'[o]) = Len(available[o]) - 1
      <3>1. available'[o] = Tail(available[o])
        BY <2>1 DEF TakeFirst, Shape, TypeOK
      <3> QED
        BY <1>6, <2>1, <3>1, HeadTailProperties
    <2>4. Cardinality(Counted(o)') = Cardinality(Counted(o)) + 1
      BY <1>7, <2>2
    <2> QED
      BY <1>5, <1>6, <2>1, <2>2, <2>3, <2>4
  <1> QED
    BY <1>9, <1>11, <1>12, <1>13, <1>14, <1>15 DEF CallNext, Ensure, Acquire, Release

LEMMA CallKeepsCounts ==
  ASSUME Shape, Homes, Settled, Fresh, CountsExactly, NEW c \in Calls, CallNext(c)
  PROVE  CountsExactly'
  <1> SUFFICES ASSUME NEW p \in Paths, NEW o \in Calls, o = pools'[p], Unevicted(p)
               PROVE  /\ total'[o] = Len(available'[o]) + Cardinality(Counted(o)')
                      /\ total'[o] <= Size
                      /\ \A d \in Calls : PathOf[d] = p => pc'[d] # "send"
    <2>1. pools' \in [Paths -> Calls \cup {None}]
      <3>1. [Next]_vars
        BY DEF Next, CallNext
      <3> QED
        BY <3>1, NextShape DEF Shape, TypeOK
    <2>2. \A p \in Paths : (\A r \in Removers : p \in TargetOf[r] => rpc'[r] = "idle") => Unevicted(p)
      BY MovesItself DEF Unevicted
    <2>3. \A p \in Paths, o \in Calls : o = pools'[p] => Counted(pools[p])' = Counted(o)'
      BY DEF Counted
    <2>4. ASSUME NEW p \in Paths, pools'[p] # None,
                 \A r \in Removers : p \in TargetOf[r] => rpc'[r] = "idle"
          PROVE  /\ total'[pools'[p]] = Len(available'[pools'[p]]) + Cardinality(Counted(pools[p])')
                 /\ total'[pools'[p]] <= Size
                 /\ \A d \in Calls : PathOf[d] = p => pc'[d] # "send"
      <3> PICK o \in Calls : o = pools'[p]
        BY <2>1, <2>4
      <3> QED
        BY <2>2, <2>3, <2>4
    <2> QED
      BY <2>4 DEF CountsExactly
  <1>1. /\ PathOf[o] = p /\ UNCHANGED rpc
        /\ pools[p] = o \/ (pools[p] = None /\ o = c /\ pc[c] = "start" /\ PathOf[c] = p)
    BY MovesItself, UseAssumption DEF Shape, TypeOK, Created, Current
  <1>2. CASE pools[p] = o /\ PathOf[c] = p /\ pc[c] # "start"
    <2>1. o = Current(c) /\ Unevicted(PathOf[c]) /\ o # None
      BY <1>2, UseAssumption DEF Current
    <2>2. \A d \in Calls \ {c} : PathOf[d] = p => pc'[d] # "send"
      BY <1>2, <2>1, MovesItself DEF CountsExactly, Unevicted
    <2> QED
      BY <1>2, <2>1, <2>2, CountsOwnCall
  <1>3. CASE pools[p] = o /\ ~(PathOf[c] = p /\ pc[c] # "start")
    <2>1. /\ total[o] = Len(available[o]) + Cardinality(Counted(o)) /\ total[o] <= Size
          /\ \A d \in Calls : PathOf[d] = p => pc[d] # "send"
      BY <1>3, UseAssumption DEF CountsExactly, Unevicted
    <2>2. pc[c] = "start" \/ (mine[c] # o /\ Current(c) # o)
      BY <1>1, <1>3, UseAssumption DEF Homes, Shape, TypeOK, Created, Current
    <2>3. total'[o] = total[o] /\ available'[o] = available[o]
      BY <2>2, TouchesOwnPools
    <2>4. c \notin Counted(o)
      BY <1>1, <1>3, UseAssumption DEF Counted, Homes, Holding, Making, Using
    <2>5. c \notin Counted(o)' /\ (PathOf[c] = p => pc'[c] # "send")
      <3>1. CASE PathOf[c] # p
        <4>1. Homes'
          BY CallKeepsHomes
        <4> QED
          BY <1>1, <3>1, <4>1, UseAssumption DEF Counted, Homes
      <3>2. CASE pc[c] = "start"
        <4>1. EnsurePool(c)
          BY <3>2, UseAssumption DEF CallNext, Ensure, Acquire, Use, Release, EnsureLock,
             EnsureReplaced, EnsureFilled, EnsureReserve, Instantiate, InstantiateFails,
             EnsureUndo, EnsureOrphaned, EnsurePut, EnsureBlocked, EnsureSend, AcquireNoPool,
             AcquirePool, Receive, ReceiveClosed, GiveUp, HandlerReturns, HandlerFails,
             ReleaseReused, ReleaseDiscarded, CloseInstance
        <4>2. pc'[c] = "lock"
          BY <4>1 DEF EnsurePool, Goto, Shape, TypeOK
        <4> QED
          BY <4>2 DEF Counted, Holding, Making, Using
      <3> QED
        BY <1>3, <3>1, <3>2
    <2>6. Cardinality(Counted(o)') = Cardinality(Counted(o))
      BY <2>4, <2>5, CountedByOne
    <2>7. \A d \in Calls : PathOf[d] = p => pc'[d] # "send"
      BY <2>1, <2>5, MovesItself
    <2> QED
      BY <2>1, <2>3, <2>6, <2>7
  <1>4. CASE pools[p] = None /\ o = c /\ pc[c] = "start" /\ PathOf[c] = p
    <2>1. total'[o] = 0 /\ Len(available'[o]) = 0
      BY <1>4, TouchesOwnPools, EmptySeq DEF Fresh
    <2>2. ~Holding(c)' /\ pc'[c] \notin {"undo", "send"}
      <3>1. EnsurePool(c)
        BY <1>4, UseAssumption DEF CallNext, Ensure, Acquire, Use, Release, EnsureLock,
           EnsureReplaced, EnsureFilled, EnsureReserve, Instantiate, InstantiateFails,
           EnsureUndo, EnsureOrphaned, EnsurePut, EnsureBlocked, EnsureSend, AcquireNoPool,
           AcquirePool, Receive, ReceiveClosed, GiveUp, HandlerReturns, HandlerFails,
           ReleaseReused, ReleaseDiscarded, CloseInstance
      <3>2. pc'[c] = "lock"
        BY <3>1 DEF EnsurePool, Goto, Shape, TypeOK
      <3> QED
        BY <3>2 DEF Holding, Making, Using
    <2>3. \A d \in Calls \ {c} : mine[d] # o /\ (Holding(d) => held[d].pool # o)
      BY <1>4, UseAssumption DEF Homes
    <2>4. Counted(o)' = {}
      BY <2>2, <2>3, MovesItself DEF Counted, Holding, Making, Using
    <2>5. \A d \in Calls : PathOf[d] = p => pc'[d] # "send"
      <3>1. \A d \in Calls : PathOf[d] = p => pc[d] # "send"
        BY <1>4 DEF Shape, Locked, IsCurrent, Current, TypeOK
      <3> QED
        BY <2>2, <3>1, MovesItself
    <2>6. Cardinality(Counted(o)') = 0
      BY <2>4, FS_EmptySet
    <2> QED
      BY <2>1, <2>5, <2>6, SizeAssumption
  <1> QED
    BY <1>1, <1>2, <1>3, <1>4
\* An eviction takes from the map the pools of paths that are then evicted, and
\* drains pools that are no longer in it.
LEMMA EvictKeepsCounts ==
  ASSUME CountInv, NEW r \in Removers, Evict(r)
  PROVE  Homes' /\ Settled' /\ Fresh' /\ CountsExactly'
  <1>1. UNCHANGED <<pc, mine, held, total>>
    BY DEF Evict, RemovePool, Drain, RemoveDone
  <1>2. \A p \in Paths : Unevicted(p)' => Unevicted(p) /\ pools'[p] = pools[p]
    <2>1. CASE RemovePool(r)
      BY <2>1 DEF RemovePool, Unevicted, CountInv, Shape, TypeOK
    <2>2. CASE Drain(r)
      BY <2>2 DEF Drain, removers, Unevicted
    <2>3. CASE RemoveDone(r)
      BY <2>3 DEF RemoveDone, Unevicted, CountInv, Shape, TypeOK
    <2> QED
      BY <2>1, <2>2, <2>3 DEF Evict
  <1>3. \A o \in Calls : Idle(o)' \subseteq Idle(o) /\ (o \notin closed => available'[o] = available[o])
    <2>1. CASE Drain(r)
      <3>1. PICK o \in drains[r] : available[o] # <<>> /\ TakeFirst(o)
        BY <2>1 DEF Drain
      <3>2. o \in Calls /\ o \in closed
        BY DEF CountInv, Shape, TypeOK
      <3> QED
        BY <3>1, <3>2, TakeOne DEF CountInv, Shape
    <2>2. CASE RemovePool(r) \/ RemoveDone(r)
      BY <2>2 DEF RemovePool, RemoveDone, Idle
    <2> QED
      BY <2>1, <2>2 DEF Evict
  <1>4. Homes'
    BY <1>1, <1>3 DEF CountInv, Homes, Holding, Making, Using
  <1>5. Settled'
    <2> SUFFICES ASSUME NEW c \in Calls, pc[c] # "start", Unevicted(PathOf[c])'
                 PROVE  /\ Current(c)' # None /\ mine[c] = Current(c)'
                        /\ Holding(c) => held[c].pool = Current(c)'
                        /\ \A x \in Idle(Current(c))' : x.pool = Current(c)'
      BY <1>1 DEF Settled, Holding, Making, Using
    <2>1. /\ Current(c)' = Current(c) /\ Unevicted(PathOf[c])
          /\ Current(c) # None /\ mine[c] = Current(c)
          /\ Holding(c) => held[c].pool = Current(c)
          /\ \A x \in Idle(Current(c)) : x.pool = Current(c)
      BY <1>2, UseAssumption DEF Current, CountInv, Settled
    <2> PICK o \in Calls : o = Current(c)
      BY <2>1 DEF CountInv, Shape, TypeOK
    <2>2. Idle(Current(c))' = Idle(o)'
      BY <2>1 DEF Idle
    <2> QED
      BY <1>3, <2>1, <2>2
  <1>6. Fresh'
    BY <1>1, <1>3 DEF CountInv, Shape, Created, Fresh
  <1>7. CountsExactly'
    <2>1. ASSUME NEW p \in Paths, pools'[p] # None,
                 \A s \in Removers : p \in TargetOf[s] => rpc'[s] = "idle"
          PROVE  /\ total'[pools'[p]] = Len(available'[pools'[p]]) + Cardinality(Counted(pools[p])')
                 /\ total'[pools'[p]] <= Size
                 /\ \A d \in Calls : PathOf[d] = p => pc'[d] # "send"
      <3>1. pools'[p] = pools[p] /\ Unevicted(p)
        BY <1>2, <2>1 DEF Unevicted
      <3>2. pools[p] \in Calls \ closed
        BY <2>1, <3>1 DEF CountInv, Shape, TypeOK
      <3>3. Counted(pools[p])' = Counted(pools[p])
        BY <1>1, <3>1 DEF Counted, Holding, Making, Using
      <3> QED
        BY <1>1, <1>3, <2>1, <3>1, <3>2, <3>3 DEF CountInv, CountsExactly, Unevicted
    <2> QED
      BY <2>1 DEF CountsExactly
  <1> QED
    BY <1>4, <1>5, <1>6, <1>7

LEMMA InitCounts == Init => CountInv
  <1> SUFFICES ASSUME Init PROVE CountInv
    OBVIOUS
  <1>1. Homes /\ Settled /\ Fresh
    BY DEF Init, Homes, Settled, Fresh, Holding, Making, Using, Idle, ToSet
  <1>2. CountsExactly
    BY DEF Init, CountsExactly
  <1> QED
    BY <1>1, <1>2, InitShape DEF CountInv

LEMMA NextCounts == CountInv /\ [Next]_vars => CountInv'
  <1> SUFFICES ASSUME CountInv, [Next]_vars PROVE CountInv'
    OBVIOUS
  <1>1. Shape'
    BY NextShape DEF CountInv
  <1>2. CASE UNCHANGED vars
    <2>1. Homes' /\ Settled' /\ Fresh'
      BY <1>2 DEF CountInv, vars, removers, Homes, Settled, Fresh, Unevicted, Current,
         Idle,
         Holding, Making, Using
    <2>2. CountsExactly'
      BY <1>2 DEF CountInv, vars, removers, CountsExactly, Counted, Holding, Making, Using
    <2> QED
      BY <1>1, <2>1, <2>2 DEF CountInv
  <1>3. ASSUME NEW c \in Calls, CallNext(c) PROVE CountInv'
    BY <1>1, <1>3, CallKeepsHomes, CallKeepsSettled, CallKeepsFresh, CallKeepsCounts
       DEF CountInv
  <1>4. ASSUME NEW r \in Removers, Evict(r) PROVE CountInv'
    BY <1>1, <1>4, EvictKeepsCounts DEF CountInv
  <1>5. CASE Finished
    BY <1>2, <1>5 DEF Finished
  <1> QED
    BY <1>2, <1>3, <1>4, <1>5 DEF Next, CallNext

\* Until the first eviction of its path, the counter of a pool is what is idle,
\* borrowed or being made, never more than the pool's size, and ensure never
\* blocks on a full channel with the mutex held (CountsExactly;
\* proto_store.go:195-230).
THEOREM PoolsCountExactly == Spec => []CountsExactly
  <1>1. CountInv => CountsExactly
    BY DEF CountInv
  <1> QED
    BY <1>1, InitCounts, NextCounts, PTL DEF Spec

-----------------------------------------------------------------------------
(* The pools implement Leases. *)

\* The instances that are anywhere.
Present ==
  live \cup {held[c] : c \in {d \in Calls : Holding(d)}} \cup UNION {Idle(o) : o \in Calls}

\* Pool and number tell the instances apart.
OneRecord == \A x, y \in Present : Ident(x) = Ident(y) => x = y

\* What is drained is of an evicted path.
DrainsEvicted ==
  \A r \in Removers : \A o \in drains[r] : rpc[r] # "idle" /\ PathOf[o] \in TargetOf[r]

\* While a path is not evicted, only its one pool has idle instances.
OneShelf ==
  \A o \in Calls : Unevicted(PathOf[o]) /\ available[o] # <<>> => pools[PathOf[o]] = o

LendInv == IInv /\ CountInv /\ OneRecord /\ DrainsEvicted /\ OneShelf

-----------------------------------------------------------------------------
(* What is Present, and the rest of LendInv, is inductive. *)

\* What is anywhere is an instance whose number its pool has given out.
LEMMA PresentNumbered ==
  ASSUME Shape, Numbered
  PROVE  \A x \in Present : x \in Instances /\ x.pool \in Calls /\ x.id <= nextID[x.pool]
  <1>1. Present \subseteq Instances
    <2>1. \A o \in Calls : Idle(o) \subseteq Instances
      <3> SUFFICES ASSUME NEW o \in Calls PROVE Idle(o) \subseteq Instances
        OBVIOUS
      <3>1. available[o] \in Seq(Instances)
        BY DEF Shape, TypeOK
      <3>2. DOMAIN available[o] = 1..Len(available[o])
            /\ \A i \in 1..Len(available[o]) : available[o][i] \in Instances
        BY <3>1, LenProperties, ElementOfSeq
      <3> QED
        BY <3>2 DEF Idle, ToSet
    <2>2. live \subseteq Instances /\ \A c \in Calls : Holding(c) => held[c] \in Instances
      BY DEF Shape, TypeOK
    <2> QED
      BY <2>1, <2>2 DEF Present
  <1>2. \A x \in Present : x.id <= nextID[x.pool]
    BY DEF Present, Numbered
  <1> QED
    BY <1>1, <1>2 DEF Instances

\* The only instances to come are those whose number is the next of their pool.
LEMMA Arrivals ==
  ASSUME Shape, NEW c \in Calls, CallNext(c)
  PROVE  \/ Present' \subseteq Present
         \/ \E x : /\ Present' \subseteq Present \cup {x}
                   /\ x.pool \in Calls /\ x.id = nextID[x.pool] + 1
  <1>1. \A o \in Calls : Idle(o)' \subseteq Present
    BY IdleGrowth DEF Present
  <1>2. live' \subseteq Present
    <2>1. live' \subseteq live \/ (Instantiate(c) /\ live' = live \cup {held[c]})
      BY DEF CallNext, Ensure, Acquire, Use, Release, EnsurePool, EnsureLock,
         EnsureReplaced, EnsureFilled, EnsureReserve, Instantiate, InstantiateFails,
         EnsureUndo, EnsureOrphaned, EnsurePut, EnsureBlocked, EnsureSend, AcquireNoPool,
         AcquirePool, Receive, ReceiveClosed, GiveUp, HandlerReturns, HandlerFails,
         ReleaseReused, ReleaseDiscarded, CloseInstance, CloseModule
    <2>2. Instantiate(c) => Holding(c)
      BY DEF Instantiate, Holding
    <2> QED
      BY <2>1, <2>2 DEF Present
  <1>3. \A d \in Calls \ {c} : Holding(d)' => held'[d] \in Present
    BY MovesItself DEF Present, Holding, Making, Using
  <1>4. CASE EnsureReserve(c)
    <2> DEFINE x == [pool |-> mine[c], name |-> NameOf[c], id |-> nextID[mine[c]] + 1]
    <2>1. x.pool \in Calls /\ x.id = nextID[x.pool] + 1
      BY <1>4 DEF EnsureReserve, Shape, TypeOK
    <2>2. held'[c] = x
      BY <1>4 DEF EnsureReserve, Hold, Shape, TypeOK
    <2> HIDE DEF x
    <2>3. Present' \subseteq Present \cup {x}
      BY <1>1, <1>2, <1>3, <2>2 DEF Present
    <2> QED
      BY <2>1, <2>3
  <1>5. CASE ~EnsureReserve(c)
    <2>1. Holding(c)' => held'[c] \in Present
      <3>1. CASE ~Receive(c)
        <4>1. Holding(c)' => Holding(c) /\ held'[c] = held[c]
          <5>1. pc[c] = "fill" => ~Holding(c)'
            BY <1>5 DEF CallNext, Ensure, Acquire, Use, Release, EnsurePool, EnsureLock,
               EnsureReplaced, EnsureFilled, Instantiate, InstantiateFails,
               EnsureUndo, EnsureOrphaned, EnsurePut, EnsureBlocked, EnsureSend, AcquireNoPool,
               AcquirePool, Receive, ReceiveClosed, GiveUp, HandlerReturns, HandlerFails,
               ReleaseReused, ReleaseDiscarded, CloseInstance, Goto, Shape, TypeOK, Holding,
               Making, Using
          <5>2. pc[c] = "receive" => ~Holding(c)'
            BY <3>1 DEF CallNext, Ensure, Acquire, Use, Release, EnsurePool, EnsureLock,
               EnsureReplaced, EnsureFilled, EnsureReserve, Instantiate, InstantiateFails,
               EnsureUndo, EnsureOrphaned, EnsurePut, EnsureBlocked, EnsureSend, AcquireNoPool,
               AcquirePool, ReceiveClosed, GiveUp, HandlerReturns, HandlerFails,
               ReleaseReused, ReleaseDiscarded, CloseInstance, Goto, Shape, TypeOK, Holding,
               Making, Using
          <5> QED
            BY <5>1, <5>2, HoldsWhatItTook
        <4> QED
          BY <4>1 DEF Present
      <3>2. CASE Receive(c)
        <4>1. mine[c] \in Calls
          BY <3>2 DEF Receive, Shape, TypeOK
        <4>2. Holding(c)' => held'[c] \in Idle(mine[c])
          BY <3>2, HoldsWhatItTook DEF Receive, Holding, Making, Using
        <4> QED
          BY <4>1, <4>2 DEF Present
      <3> QED
        BY <3>1, <3>2
    <2> QED
      BY <1>1, <1>2, <1>3, <2>1 DEF Present
  <1> QED
    BY <1>4, <1>5

LEMMA CallKeepsRecords ==
  ASSUME Shape, Numbered, OneRecord, NEW c \in Calls, CallNext(c)
  PROVE  OneRecord'
  <1>1. CASE Present' \subseteq Present
    BY <1>1 DEF OneRecord, Ident
  <1>2. ASSUME NEW x, Present' \subseteq Present \cup {x}, x.pool \in Calls,
               x.id = nextID[x.pool] + 1
        PROVE  OneRecord'
    <2>1. nextID[x.pool] \in Nat
      BY <1>2 DEF Shape, TypeOK
    <2>2. \A y \in Present : Ident(y) # Ident(x)
      <3> SUFFICES ASSUME NEW y \in Present, y.pool = x.pool, y.id = x.id PROVE FALSE
        BY DEF Ident
      <3>1. y \in Instances /\ y.id <= nextID[x.pool]
        BY PresentNumbered
      <3> QED
        BY <1>2, <2>1, <3>1 DEF Instances
    <2> QED
      BY <1>2, <2>2 DEF OneRecord, Ident
  <1> QED
    BY <1>1, <1>2, Arrivals

LEMMA CallKeepsOneShelf ==
  ASSUME Shape, Homes, OneShelf, NEW c \in Calls, CallNext(c)
  PROVE  OneShelf'
  <1> SUFFICES ASSUME NEW o \in Calls, Unevicted(PathOf[o]), available'[o] # <<>>
               PROVE  pools'[PathOf[o]] = o
    BY MovesItself DEF OneShelf, Unevicted
  <1>1. /\ pools \in [Paths -> Calls \cup {None}] /\ PathOf[c] \in Paths /\ PathOf[o] \in Paths
        /\ available \in [Calls -> Seq(Instances)]
    BY UseAssumption DEF Shape, TypeOK
  <1>2. available[o] # <<>> \/ (o = Current(c) /\ pc[c] # "start")
    <2>1. CASE available' = available
      BY <2>1
    <2>2. CASE Receive(c)
      <3>1. mine[c] \in Calls
        BY <2>2 DEF Receive, Shape, TypeOK
      <3> QED
        BY <1>1, <2>2, <3>1 DEF Receive, TakeFirst
    <2>3. CASE pc[c] \in {"put", "send", "reuse"} /\ Current(c) # None /\ Push(Current(c), held[c])
      BY <1>1, <2>3 DEF Push
    <2> QED
      BY <2>1, <2>2, <2>3, TouchesOneChannel
  <1>3. CASE available[o] # <<>>
    <2>1. pools[PathOf[o]] = o
      BY <1>3 DEF OneShelf
    <2> QED
      BY <1>1, <2>1, UseAssumption, MovesItself DEF Current
  <1>4. CASE o = Current(c) /\ pc[c] # "start"
    <2>1. PathOf[o] = PathOf[c]
      BY <1>1, <1>4, UseAssumption DEF Shape, Created, Current
    <2> QED
      BY <1>4, <2>1, MovesItself DEF Current
  <1> QED
    BY <1>2, <1>3, <1>4

LEMMA EvictKeepsLending ==
  ASSUME LendInv, NEW r \in Removers, Evict(r)
  PROVE  OneRecord' /\ DrainsEvicted' /\ OneShelf'
  <1>1. UNCHANGED <<pc, held>> /\ live' \subseteq live
    BY DEF Evict, RemovePool, Drain, RemoveDone
  <1>2. \A o \in Calls : Idle(o)' \subseteq Idle(o) /\ (available[o] = <<>> => available'[o] = <<>>)
    <2>1. CASE Drain(r)
      <3>1. PICK o \in drains[r] : available[o] # <<>> /\ TakeFirst(o)
        BY <2>1 DEF Drain
      <3>2. o \in Calls
        BY DEF LendInv, IInv, Shape, TypeOK
      <3> QED
        BY <3>1, <3>2, TakeOne DEF LendInv, IInv, Shape
    <2>2. CASE RemovePool(r) \/ RemoveDone(r)
      BY <2>2 DEF RemovePool, RemoveDone, Idle
    <2> QED
      BY <2>1, <2>2 DEF Evict
  <1>3. OneRecord'
    <2>1. Present' \subseteq Present
      BY <1>1, <1>2 DEF Present, Holding, Making, Using
    <2> QED
      BY <2>1 DEF LendInv, OneRecord, Ident
  <1>4. DrainsEvicted'
    <2>1. CASE RemovePool(r)
      <3>1. \A p \in Paths : pools[p] # None => PathOf[pools[p]] = p
        BY DEF LendInv, IInv, Shape, Created
      <3>2. \A o \in {pools[p] : p \in TargetOf[r]} \ {None} : PathOf[o] \in TargetOf[r]
        BY <3>1, UseAssumption
      <3>3. /\ rpc' = [rpc EXCEPT ![r] = "drain"]
            /\ drains' = [drains EXCEPT ![r] = {pools[p] : p \in TargetOf[r]} \ {None}]
        BY <2>1 DEF RemovePool
      <3> QED
        BY <3>2, <3>3 DEF LendInv, IInv, Shape, TypeOK, DrainsEvicted
    <2>2. CASE Drain(r)
      BY <2>2 DEF Drain, removers, LendInv, DrainsEvicted
    <2>3. CASE RemoveDone(r)
      BY <2>3 DEF RemoveDone, LendInv, IInv, Shape, TypeOK, DrainsEvicted
    <2> QED
      BY <2>1, <2>2, <2>3 DEF Evict
  <1>5. OneShelf'
    <2>1. \A p \in Paths : Unevicted(p)' => Unevicted(p) /\ pools'[p] = pools[p]
      <3>1. CASE RemovePool(r)
        BY <3>1 DEF RemovePool, Unevicted, LendInv, IInv, Shape, TypeOK
      <3>2. CASE Drain(r)
        BY <3>2 DEF Drain, removers, Unevicted
      <3>3. CASE RemoveDone(r)
        BY <3>3 DEF RemoveDone, Unevicted, LendInv, IInv, Shape, TypeOK
      <3> QED
        BY <3>1, <3>2, <3>3 DEF Evict
    <2> QED
      BY <1>2, <2>1, UseAssumption DEF LendInv, OneShelf
  <1> QED
    BY <1>3, <1>4, <1>5

LEMMA InitLending == Init => LendInv
  <1> SUFFICES ASSUME Init PROVE LendInv
    OBVIOUS
  <1>1. Present = {} /\ OneShelf /\ DrainsEvicted
    BY DEF Init, Present, Holding, Making, Using, Idle, ToSet, OneShelf, DrainsEvicted
  <1> QED
    BY <1>1, InitInv, InitCounts DEF LendInv, OneRecord

LEMMA NextLending == LendInv /\ [Next]_vars => LendInv'
  <1> SUFFICES ASSUME LendInv, [Next]_vars PROVE LendInv'
    OBVIOUS
  <1>1. IInv' /\ CountInv'
    BY NextInv, NextCounts DEF LendInv
  <1>2. CASE UNCHANGED vars
    BY <1>1, <1>2 DEF vars, removers, LendInv, OneRecord, DrainsEvicted, OneShelf, Present,
       Ident, Idle, Holding, Making, Using, Unevicted
  <1>3. ASSUME NEW c \in Calls, CallNext(c) PROVE LendInv'
    <2>1. DrainsEvicted'
      BY <1>3, MovesItself DEF LendInv, IInv, DrainsEvicted
    <2> QED
      BY <1>1, <1>3, <2>1, CallKeepsRecords, CallKeepsOneShelf DEF LendInv, IInv, CountInv
  <1>4. ASSUME NEW r \in Removers, Evict(r) PROVE LendInv'
    BY <1>1, <1>4, EvictKeepsLending DEF LendInv
  <1>5. CASE Finished
    BY <1>2, <1>5 DEF Finished
  <1> QED
    BY <1>2, <1>3, <1>4, <1>5 DEF Next, CallNext

-----------------------------------------------------------------------------
(* What the steps do to what is lent, offered, open and spent. *)

LEMMA LeaseOfOne ==
  ASSUME Shape, NEW c \in Calls, CallNext(c)
  PROVE  Lease' = [Lease EXCEPT ![c] = Lease'[c]] /\ Evicted' = Evicted
  <1>1. \A d \in Calls \ {c} : Lease'[d] = Lease[d]
    BY MovesItself DEF Lease, Ident, Holding, Making, Using
  <1>2. DOMAIN Lease = Calls /\ DOMAIN Lease' = Calls /\ Lease = [d \in Calls |-> Lease[d]]
        /\ Lease' = [d \in Calls |-> Lease'[d]]
    BY DEF Lease
  <1>3. Evicted' = Evicted
    BY MovesItself DEF Evicted
  <1> QED
    BY <1>1, <1>2, <1>3

\* What is offered, by its identity.
LEMMA OnShelf ==
  /\ \A p \in Paths : \A i :
       i \in Shelf[p] <=> \E o \in Calls : PathOf[o] = p /\ \E x \in Idle(o) : Ident(x) = i
  /\ \A p \in Paths : \A i :
       i \in Shelf'[p] <=> \E o \in Calls : PathOf[o] = p /\ \E x \in Idle(o)' : Ident(x) = i
  BY DEF Shelf, Offered, Ident

LEMMA SameShelf ==
  ASSUME NEW p \in Paths, \A o \in Calls : PathOf[o] = p => Idle(o)' = Idle(o)
  PROVE  Shelf'[p] = Shelf[p]
  <1>1. Offered(p)' = Offered(p)
    BY DEF Offered
  <1> QED
    BY <1>1 DEF Shelf, Ident

LEMMA ShelfIs ==
  ASSUME NEW S, NEW p \in Paths, Shelf'[p] = S, \A q \in Paths \ {p} : Shelf'[q] = Shelf[q]
  PROVE  Shelf' = [Shelf EXCEPT ![p] = S]
  BY DEF Shelf

\* A send puts an instance on the shelf of its path.
LEMMA PushShelves ==
  ASSUME TypeOK, NEW o \in Calls, NEW x \in Instances, HasRoom(o), Push(o, x)
  PROVE  Shelf' = [Shelf EXCEPT ![PathOf[o]] = Shelf[PathOf[o]] \cup {Ident(x)}]
  <1>1. Idle(o)' = Idle(o) \cup {x} /\ \A q \in Calls \ {o} : Idle(q)' = Idle(q)
    BY PushOne
  <1>2. PathOf[o] \in Paths
    BY UseAssumption
  <1>3. Shelf'[PathOf[o]] = Shelf[PathOf[o]] \cup {Ident(x)}
    BY <1>1, <1>2, OnShelf
  <1>4. \A q \in Paths \ {PathOf[o]} : Shelf'[q] = Shelf[q]
    BY <1>1, SameShelf
  <1> QED
    BY <1>2, <1>3, <1>4, ShelfIs

\* A receive takes an instance from the shelf, which no other channel has.
LEMMA TakeUnshelves ==
  ASSUME LendInv, NEW o \in Calls, available[o] # <<>>, TakeFirst(o)
  PROVE  LET x == Head(available[o]) IN
         /\ x \in Idle(o) /\ Ident(x) \in Shelf[PathOf[o]]
         /\ Shelf' = [Shelf EXCEPT ![PathOf[o]] = Shelf[PathOf[o]] \ {Ident(x)}]
  <1> DEFINE x == Head(available[o])
  <1>1. TypeOK /\ IsInjective(available[o])
    BY DEF LendInv, IInv, Shape, ExclusiveUse
  <1>2. /\ Idle(o) = Idle(o)' \cup {x} /\ x \notin Idle(o)'
        /\ \A q \in Calls \ {o} : Idle(q)' = Idle(q)
    BY <1>1, TakeOne
  <1> HIDE DEF x
  <1>3. x \in Idle(o) /\ PathOf[o] \in Paths
    BY <1>2, UseAssumption
  <1>4. \A q \in Calls : q # o => x \notin Idle(q)
    BY <1>3 DEF LendInv, IInv, ExclusiveUse
  <1>5. \A q \in Calls : \A y \in Idle(q)' : Ident(y) # Ident(x)
    <2>1. \A q \in Calls : Idle(q)' \subseteq Idle(q) /\ x \notin Idle(q)'
      BY <1>2, <1>4
    <2>2. \A q \in Calls : \A y \in Idle(q) : Ident(y) = Ident(x) => y = x
      BY <1>3 DEF LendInv, OneRecord, Present
    <2> QED
      BY <2>1, <2>2
  <1>6. Ident(x) \in Shelf[PathOf[o]]
    BY <1>3, OnShelf
  <1>7. Shelf'[PathOf[o]] = Shelf[PathOf[o]] \ {Ident(x)}
    <2>1. \A i : i \in Shelf[PathOf[o]] /\ i # Ident(x) => i \in Shelf'[PathOf[o]]
      BY <1>2, <1>3, OnShelf
    <2>2. \A i : i \in Shelf'[PathOf[o]] => i \in Shelf[PathOf[o]] /\ i # Ident(x)
      BY <1>2, <1>3, <1>5, OnShelf
    <2> QED
      BY <2>1, <2>2
  <1>8. \A q \in Paths \ {PathOf[o]} : Shelf'[q] = Shelf[q]
    BY <1>2, SameShelf
  <1> QED
    BY <1>3, <1>6, <1>7, <1>8, ShelfIs DEF x

\* An instance in use or going is in nobody else's hands and in no channel.
LEMMA NobodyElse ==
  ASSUME LendInv, NEW c \in Calls, Holding(c)
  PROVE  /\ held[c] \in Present
         /\ \A d \in Calls \ {c} : Ident(held[c]) \notin Lease[d]
         /\ \A p \in Paths : Ident(held[c]) \notin Shelf[p]
         /\ \A d \in Calls \ {c} : Holding(d) => Ident(held[d]) # Ident(held[c])
  <1>1. held[c] \in Present
    BY DEF Present
  <1>2. \A d \in Calls \ {c} : Holding(d) => Ident(held[d]) # Ident(held[c])
    BY <1>1 DEF LendInv, IInv, ExclusiveUse, OneRecord, Present
  <1>3. \A o \in Calls : \A x \in Idle(o) : Ident(x) # Ident(held[c])
    BY <1>1 DEF LendInv, IInv, ExclusiveUse, OneRecord, Present
  <1>5. \A d \in Calls \ {c} : Ident(held[c]) \notin Lease[d]
    BY <1>2 DEF Lease, Holding
  <1> QED
    BY <1>1, <1>2, <1>3, <1>5, OnShelf

\* A path that is not evicted has room for the instance that a call is making: what
\* is idle or lent is counted, the one being made too, and the count is at most Size.
LEMMA RoomToMake ==
  ASSUME LendInv, NEW c \in Calls, pc[c] = "make"
  PROVE  \/ PathOf[c] \in Evicted
         \/ Cardinality(Shelf[PathOf[c]])
              + Cardinality({d \in Calls : PathOf[d] = PathOf[c] /\ Lease[d] # {}}) < Size
  <1> DEFINE p == PathOf[c]
  <1> DEFINE lent == {d \in Calls : PathOf[d] = p /\ Lease[d] # {}}
  <1> SUFFICES ASSUME p \notin Evicted
               PROVE  Cardinality(Shelf[p]) + Cardinality(lent) < Size
    OBVIOUS
  <1>1. p \in Paths /\ Unevicted(p)
    BY UseAssumption DEF Evicted, Unevicted
  <1> HIDE DEF p
  <1>2. PICK o \in Calls : o = pools[p] /\ pools[p] # None
    BY <1>1, UseAssumption DEF LendInv, CountInv, Settled, IInv, Shape, TypeOK, Current, p
  <1>3. \A d \in Calls : PathOf[d] = p /\ Holding(d) => held[d].pool = o
    <2> SUFFICES ASSUME NEW d \in Calls, PathOf[d] = p, Holding(d) PROVE held[d].pool = o
      OBVIOUS
    <2>1. pc[d] # "start"
      BY DEF Holding, Making, Using
    <2> QED
      BY <1>1, <1>2, <2>1 DEF LendInv, CountInv, Settled, Current
  <1>4. /\ total[o] = Len(available[o]) + Cardinality(Counted(o)) /\ total[o] <= Size
    BY <1>1, <1>2 DEF LendInv, CountInv, CountsExactly, Unevicted, IInv, Shape, TypeOK
  <1>5. available[o] \in Seq(Instances) /\ Len(available[o]) \in Nat /\ Size \in Nat
    BY LenProperties, SizeAssumption DEF LendInv, IInv, Shape, TypeOK
  <1>6. IsFiniteSet(Shelf[p]) /\ Cardinality(Shelf[p]) <= Len(available[o])
    <2> DEFINE n == Len(available[o])
    <2> DEFINE f == [i \in 1..n |-> Ident(available[o][i])]
    <2>1. PathOf[o] = p
      BY <1>1, <1>2 DEF LendInv, IInv, Shape, Created
    <2>2. \A q \in Calls : PathOf[q] = p /\ q # o => available[q] = <<>>
      BY <1>1, <1>2 DEF LendInv, OneShelf
    <2>3. \A q \in Calls : PathOf[q] = p /\ q # o => Idle(q) = {}
      BY <2>2 DEF Idle, ToSet
    <2>4. Idle(o) = {available[o][i] : i \in 1..n}
      BY <1>5, LenProperties DEF Idle, ToSet
    <2>5. \A i : i \in Shelf[p] <=> \E x \in Idle(o) : Ident(x) = i
      BY <1>1, <2>1, <2>3, OnShelf
    <2>6. \A i : i \in Shelf[p] <=> \E k \in 1..n : f[k] = i
      BY <2>4, <2>5
    <2> HIDE DEF n
    <2>7. f \in [1..n -> Shelf[p]]
      BY <2>6
    <2>8. f \in Surjection(1..n, Shelf[p])
      BY <2>6, <2>7 DEF Surjection
    <2> HIDE DEF f
    <2>9. n \in Nat /\ ExistsSurjection(1..n, Shelf[p])
      BY <1>5, <2>8 DEF n, ExistsSurjection
    <2>10. IsFiniteSet(Shelf[p])
      BY <2>9, FS_NatSurjection
    <2>11. Cardinality(Shelf[p]) <= n
      BY <2>9, FS_SurjCardinalityBound
    <2> QED
      BY <2>10, <2>11 DEF n
  <1>7. IsFiniteSet(lent) /\ Cardinality(lent) <= Cardinality(Counted(o)) - 1
    <2>1. lent \subseteq Counted(o) \ {c}
      <3> SUFFICES ASSUME NEW d \in Calls, PathOf[d] = p, Lease[d] # {}
                   PROVE  d \in Counted(o) /\ d # c
        OBVIOUS
      <3>1. Making(d) \/ Using(d)
        BY DEF Lease
      <3>2. Holding(d) /\ pc[d] # "close" /\ pc[d] # "make"
        BY <3>1 DEF Holding, Making, Using
      <3> QED
        BY <1>3, <3>2 DEF Counted
    <2>2. c \in Counted(o)
      <3>1. Holding(c) /\ PathOf[c] = p
        BY DEF Holding, p
      <3> QED
        BY <1>3, <3>1 DEF Counted
    <2>3. IsFiniteSet(Counted(o)) /\ Cardinality(Counted(o)) \in Nat
      BY CountedFinite
    <2>4. /\ IsFiniteSet(Counted(o) \ {c})
          /\ Cardinality(Counted(o) \ {c}) = Cardinality(Counted(o)) - 1
      BY <2>2, <2>3, FS_RemoveElement
    <2> QED
      BY <2>1, <2>4, FS_Subset
  <1>8. Cardinality(Shelf[p]) \in Nat /\ Cardinality(lent) \in Nat /\ Cardinality(Counted(o)) \in Nat
    BY <1>6, <1>7, CountedFinite, FS_CardinalityType
  <1> QED
    BY <1>4, <1>5, <1>6, <1>7, <1>8

\* Which identities are spent changes only when an instance is made, or is not.
LEMMA SpentStays ==
  ASSUME Shape, NEW c \in Calls, CallNext(c), ~Instantiate(c), ~InstantiateFails(c)
  PROVE  Spent' = Spent
  <1>1. \A d \in Calls \ {c} : (pc'[d] = "make" <=> pc[d] = "make") /\ held'[d] = held[d]
    BY MovesItself
  <1>2. pc[c] # "make"
    BY DEF CallNext, Ensure, Acquire, Use, Release, EnsurePool, EnsureLock, EnsureReplaced,
       EnsureFilled, EnsureReserve, Instantiate, InstantiateFails, EnsureUndo,
       EnsureOrphaned, EnsurePut, EnsureBlocked, EnsureSend, AcquireNoPool, AcquirePool,
       Receive, ReceiveClosed, GiveUp, HandlerReturns, HandlerFails, ReleaseReused,
       ReleaseDiscarded, CloseInstance
  <1>3. CASE EnsureReserve(c)
    <2> PICK o \in Calls : o = mine[c]
      BY <1>3 DEF EnsureReserve, Shape, TypeOK
    <2>1. nextID \in [Calls -> Nat] /\ nextID' = [nextID EXCEPT ![o] = @ + 1]
      BY <1>3 DEF EnsureReserve, Shape, TypeOK
    <2>2. pc'[c] = "make" /\ Ident(held'[c]) = <<o, nextID[o] + 1>>
      BY <1>3 DEF EnsureReserve, Goto, Hold, Ident, Shape, TypeOK
    <2>3. \A i : i \in Reserved' <=> i \in Reserved \/ i = <<o, nextID[o] + 1>>
      BY <1>1, <1>2, <2>2 DEF Reserved, Ident
    <2>4. \A i : i \in Numbers' <=> i \in Numbers \/ i = <<o, nextID[o] + 1>>
      <3>1. \A q \in Calls \ {o} : nextID'[q] = nextID[q]
        BY <2>1
      <3>2. 1..nextID'[o] = (1..nextID[o]) \cup {nextID[o] + 1}
        BY <2>1
      <3>3. \A q \in Calls : {q} \X (1..nextID'[q])
              = IF q = o THEN ({q} \X (1..nextID[q])) \cup {<<o, nextID[o] + 1>>}
                ELSE {q} \X (1..nextID[q])
        BY <3>1, <3>2
      <3> QED
        BY <3>3 DEF Numbers
    <2>5. <<o, nextID[o] + 1>> \notin Numbers
      BY <2>1 DEF Numbers
    <2>6. Spent' = Numbers' \ Reserved' /\ Spent = Numbers \ Reserved
      BY DEF Spent
    <2> QED
      BY <2>3, <2>4, <2>5, <2>6
  <1>4. CASE ~EnsureReserve(c)
    <2>1. pc'[c] # "make" /\ nextID' = nextID
      BY <1>4 DEF CallNext, Ensure, Acquire, Use, Release, EnsurePool, EnsureLock,
         EnsureReplaced, EnsureFilled, Instantiate, InstantiateFails, EnsureUndo,
         EnsureOrphaned, EnsurePut, EnsureBlocked, EnsureSend, AcquireNoPool, AcquirePool,
         Receive, ReceiveClosed, GiveUp, HandlerReturns, HandlerFails, ReleaseReused,
         ReleaseDiscarded, CloseInstance, Goto, Shape, TypeOK
    <2>2. Reserved' = Reserved
      BY <1>1, <1>2, <2>1 DEF Reserved, Ident
    <2> QED
      BY <2>1, <2>2 DEF Spent, Numbers
  <1> QED
    BY <1>3, <1>4

\* A call that makes its instance spends its identity, which was reserved.
LEMMA MakingSpends ==
  ASSUME LendInv, NEW c \in Calls, Instantiate(c) \/ InstantiateFails(c)
  PROVE  Ident(held[c]) \notin Spent /\ Spent' = Spent \cup {Ident(held[c])}
  <1>1. CallNext(c) /\ Shape
    BY DEF CallNext, Ensure, LendInv, IInv
  <1>2. pc[c] = "make" /\ pc'[c] # "make" /\ nextID' = nextID /\ Holding(c)
    BY <1>1 DEF Instantiate, InstantiateFails, Goto, Holding, Shape, TypeOK
  <1>3. \A d \in Calls \ {c} : pc'[d] = pc[d] /\ held'[d] = held[d]
    BY <1>1, MovesItself
  <1>4. \A d \in Calls \ {c} : pc[d] = "make" => Ident(held[d]) # Ident(held[c])
    BY <1>2, NobodyElse DEF Holding
  <1>5. \A i : i \in Reserved' <=> i \in Reserved /\ i # Ident(held[c])
    BY <1>2, <1>3, <1>4 DEF Reserved, Ident
  <1>6. Ident(held[c]) \in Reserved
    BY <1>2 DEF Reserved
  <1>7. Ident(held[c]) \in Numbers /\ Numbers' = Numbers
    <2>1. held[c] \in Instances
      BY <1>1, <1>2 DEF Shape, TypeOK
    <2>2. /\ held[c].pool \in Calls /\ held[c].id \in Nat \ {0}
          /\ held[c].id <= nextID[held[c].pool] /\ nextID[held[c].pool] \in Nat
      BY <1>1, <1>2, <2>1 DEF LendInv, IInv, Numbered, Instances, Shape, TypeOK
    <2>3. held[c].id \in 1..nextID[held[c].pool]
      BY <2>2
    <2> QED
      BY <1>2, <2>2, <2>3 DEF Ident, Numbers
  <1>8. Spent' = Numbers' \ Reserved' /\ Spent = Numbers \ Reserved
    BY DEF Spent
  <1> QED
    BY <1>5, <1>6, <1>7, <1>8

-----------------------------------------------------------------------------
(* Every step of the pools is a step of Leases, or none. *)

\* A step that moves no instance and spends no identity.
LEMMA NothingMoves ==
  ASSUME Shape, NEW c \in Calls, CallNext(c), ~Instantiate(c), ~InstantiateFails(c),
         Lease'[c] = Lease[c], UNCHANGED <<available, live>>
  PROVE  UNCHANGED Lender!lvars
  <1>1. Lease' = [Lease EXCEPT ![c] = Lease'[c]] /\ Evicted' = Evicted /\ Spent' = Spent
    BY LeaseOfOne, SpentStays
  <1>2. Lease' = Lease
    BY <1>1 DEF Lease
  <1>3. Shelf' = Shelf /\ Opened' = Opened
    BY DEF Shelf, Offered, Idle, Opened, Ident
  <1> QED
    BY <1>1, <1>2, <1>3 DEF Lender!lvars

LEMMA MakeLends ==
  ASSUME LendInv, NEW c \in Calls, Instantiate(c) \/ InstantiateFails(c)
  PROVE  \E y \in Spent' \ Spent : Lender!Spoil(y) \/ Lender!Make(c, y)
  <1> DEFINE x == Ident(held[c])
  <1>1. CallNext(c) /\ Shape
    BY DEF CallNext, Ensure, LendInv, IInv
  <1>2. pc[c] = "make" /\ UNCHANGED available
    BY DEF Instantiate, InstantiateFails
  <1>3. Lease[c] = {} /\ Shelf' = Shelf
    BY <1>2 DEF Lease, Making, Using, Shelf, Offered, Idle, Ident
  <1>4. x \in Spent' \ Spent /\ Spent' = Spent \cup {x}
    BY MakingSpends
  <1>5. Lease' = [Lease EXCEPT ![c] = Lease'[c]] /\ Evicted' = Evicted
    BY <1>1, LeaseOfOne
  <1>6. CASE Instantiate(c)
    <2>1. pc'[c] = "put" /\ held' = held /\ live' = live \cup {held[c]}
      BY <1>1, <1>6 DEF Instantiate, Goto, Shape, TypeOK
    <2>2. Lease'[c] = {x}
      BY <2>1 DEF Lease, Making, Ident
    <2>3. Opened' = Opened \cup {x}
      BY <2>1 DEF Opened, Ident
    <2> HIDE DEF x
    <2>4. \/ PathOf[c] \in Evicted
          \/ Lender!Cardinality(Shelf[PathOf[c]])
               + Lender!Cardinality(Lender!Borrowers(PathOf[c])) < Size
      <3>1. Lender!Borrowers(PathOf[c]) = {d \in Calls : PathOf[d] = PathOf[c] /\ Lease[d] # {}}
        BY DEF Lender!Borrowers
      <3>2. \A S : Lender!Cardinality(S) = Cardinality(S)
        BY DEF Lender!Cardinality, Cardinality
      <3> QED
        BY <1>2, <3>1, <3>2, RoomToMake
    <2>5. Lender!Make(c, x)
      BY <1>3, <1>4, <1>5, <2>2, <2>3, <2>4 DEF Lender!Make
    <2> QED
      BY <1>4, <2>5
  <1>7. CASE InstantiateFails(c)
    <2>1. pc'[c] = "undo" /\ live' = live
      BY <1>1, <1>7 DEF InstantiateFails, Goto, Shape, TypeOK
    <2>2. Lease'[c] = {} /\ Opened' = Opened
      BY <2>1 DEF Lease, Making, Using, Opened, Ident
    <2>3. Lease' = Lease
      BY <1>3, <1>5, <2>2 DEF Lease
    <2> HIDE DEF x
    <2>4. Lender!Spoil(x)
      BY <1>3, <1>4, <1>5, <2>2, <2>3 DEF Lender!Spoil
    <2> QED
      BY <1>4, <2>4
  <1> QED
    BY <1>6, <1>7

LEMMA ReceiveLends ==
  ASSUME LendInv, NEW c \in Calls, Receive(c)
  PROVE  Lender!Borrow(c)
  <1>1. CallNext(c) /\ Shape
    BY DEF CallNext, Acquire, LendInv, IInv
  <1> PICK o \in Calls : o = mine[c]
    BY <1>1 DEF Receive, Shape, TypeOK
  <1> DEFINE x == Head(available[o])
  <1>2. /\ available[o] # <<>> /\ TakeFirst(o) /\ live' = live
        /\ pc[c] = "receive" /\ pc'[c] = "use" /\ held'[c] = x
    BY <1>1 DEF Receive, Goto, Hold, Shape, TypeOK
  <1>3. PathOf[o] = PathOf[c]
    BY <1>1, UseAssumption DEF LendInv, CountInv, Homes
  <1>4. /\ Ident(x) \in Shelf[PathOf[c]]
        /\ Shelf' = [Shelf EXCEPT ![PathOf[c]] = Shelf[PathOf[c]] \ {Ident(x)}]
    BY <1>2, <1>3, TakeUnshelves
  <1>5. Lease[c] = {} /\ Lease'[c] = {Ident(x)} /\ Opened' = Opened
    BY <1>2 DEF Lease, Making, Using, Opened, Ident
  <1>6. Lease' = [Lease EXCEPT ![c] = Lease'[c]] /\ Evicted' = Evicted /\ Spent' = Spent
    <2>1. ~Instantiate(c) /\ ~InstantiateFails(c)
      BY <1>2 DEF Instantiate, InstantiateFails
    <2> QED
      BY <1>1, <2>1, LeaseOfOne, SpentStays
  <1> HIDE DEF x
  <1> QED
    BY <1>4, <1>5, <1>6 DEF Lender!Borrow

LEMMA PutLends ==
  ASSUME LendInv, NEW c \in Calls, EnsurePut(c) \/ EnsureSend(c) \/ ReleaseReused(c)
  PROVE  Lender!GiveBack(c)
  <1>1. CallNext(c) /\ Shape
    BY DEF CallNext, Ensure, Release, LendInv, IInv
  <1>2. /\ pc[c] \in {"put", "send", "reuse"} /\ pc'[c] \in {"fill", "returned"}
        /\ live' = live
    BY <1>1 DEF EnsurePut, EnsureSend, ReleaseReused, Goto, Shape, TypeOK
  <1>3. PICK o \in Calls : o = Current(c) /\ HasRoom(o) /\ Push(o, held[c])
    BY <1>1, UseAssumption DEF EnsurePut, EnsureSend, ReleaseReused, Shape, TypeOK, Locked,
       IsCurrent, Current
  <1>4. PathOf[o] = PathOf[c]
    BY <1>1, <1>3, UseAssumption DEF Shape, Created, Current
  <1>5. held[c] \in Instances
    BY <1>1, <1>2 DEF Shape, TypeOK, Holding, Making, Using
  <1>6. Shelf' = [Shelf EXCEPT ![PathOf[c]] = Shelf[PathOf[c]] \cup {Ident(held[c])}]
    BY <1>1, <1>3, <1>4, <1>5, PushShelves DEF Shape
  <1>7. Lease[c] = {Ident(held[c])} /\ Lease'[c] = {} /\ Opened' = Opened
    BY <1>2 DEF Lease, Making, Using, Opened, Ident
  <1>8. Lease' = [Lease EXCEPT ![c] = Lease'[c]] /\ Evicted' = Evicted /\ Spent' = Spent
    <2>1. ~Instantiate(c) /\ ~InstantiateFails(c)
      BY <1>2 DEF Instantiate, InstantiateFails
    <2> QED
      BY <1>1, <2>1, LeaseOfOne, SpentStays
  <1> QED
    BY <1>6, <1>7, <1>8 DEF Lender!GiveBack

\* What is closed is nobody's and nowhere else.
LEMMA OpenWithout ==
  ASSUME LendInv, NEW x \in Present, live' = live \ {x}
  PROVE  Opened' = Opened \ {Ident(x)}
  <1>1. \A y \in live : Ident(y) = Ident(x) => y = x
    BY DEF LendInv, OneRecord, Present
  <1> QED
    BY <1>1 DEF Opened, Ident

LEMMA DropLends ==
  ASSUME LendInv, NEW c \in Calls,
         HandlerFails(c) \/ (ReleaseDiscarded(c) /\ pc[c] = "reuse") \/ EnsureOrphaned(c)
  PROVE  Lender!Discard(c)
  <1>1. CallNext(c) /\ Shape
    BY DEF CallNext, Ensure, Use, Release, LendInv, IInv
  <1>2. /\ pc[c] \in {"put", "use", "reuse"} /\ pc'[c] \in {"discard", "close"}
        /\ UNCHANGED available /\ live' \in {live, live \ {held[c]}}
    BY <1>1 DEF EnsureOrphaned, HandlerFails, ReleaseDiscarded, Goto, Shape, TypeOK
  <1>3. Lease[c] = {Ident(held[c])} /\ Lease'[c] = {} /\ Shelf' = Shelf /\ Holding(c)
    BY <1>2 DEF Lease, Holding, Making, Using, Shelf, Offered, Idle, Ident
  <1>4. held[c] \in Present
    BY <1>3 DEF Present
  <1>5. Opened' \in {Opened, Opened \ {Ident(held[c])}}
    <2>1. CASE live' = live
      BY <2>1 DEF Opened, Ident
    <2>2. CASE live' = live \ {held[c]}
      BY <1>4, <2>2, OpenWithout
    <2> QED
      BY <1>2, <2>1, <2>2
  <1>6. Lease' = [Lease EXCEPT ![c] = Lease'[c]] /\ Evicted' = Evicted /\ Spent' = Spent
    <2>1. ~Instantiate(c) /\ ~InstantiateFails(c)
      BY <1>2 DEF Instantiate, InstantiateFails
    <2> QED
      BY <1>1, <2>1, LeaseOfOne, SpentStays
  <1> QED
    BY <1>3, <1>5, <1>6 DEF Lender!Discard

LEMMA CloseLends ==
  ASSUME LendInv, NEW c \in Calls, CloseInstance(c)
  PROVE  (\E x \in Opened : Lender!Close(x)) \/ UNCHANGED Lender!lvars
  <1>1. CallNext(c) /\ Shape
    BY DEF CallNext, Release, LendInv, IInv
  <1>2. /\ pc[c] = "close" /\ pc'[c] = "returned" /\ live' = live \ {held[c]}
        /\ UNCHANGED available /\ Holding(c)
    BY <1>1 DEF CloseInstance, CloseModule, Goto, Shape, TypeOK, Holding
  <1>3. Lease[c] = {} /\ Lease'[c] = {} /\ Shelf' = Shelf
    BY <1>2 DEF Lease, Making, Using, Shelf, Offered, Idle, Ident
  <1>4. Lease' = [Lease EXCEPT ![c] = Lease'[c]] /\ Evicted' = Evicted /\ Spent' = Spent
    <2>1. ~Instantiate(c) /\ ~InstantiateFails(c)
      BY <1>2 DEF Instantiate, InstantiateFails
    <2> QED
      BY <1>1, <2>1, LeaseOfOne, SpentStays
  <1>5. Lease' = Lease
    BY <1>3, <1>4 DEF Lease
  <1>6. CASE held[c] \in live
    <2>1. /\ held[c] \in Present /\ (\A p \in Paths : Ident(held[c]) \notin Shelf[p])
          /\ \A d \in Calls : Ident(held[c]) \notin Lease[d]
      BY <1>2, <1>3, NobodyElse
    <2>2. Opened' = Opened \ {Ident(held[c])} /\ Ident(held[c]) \in Opened
      BY <1>2, <1>6, <2>1, OpenWithout DEF Opened
    <2> QED
      BY <1>3, <1>4, <1>5, <2>1, <2>2 DEF Lender!Close
  <1>7. CASE held[c] \notin live
    <2>1. Opened' = Opened
      BY <1>2, <1>7 DEF Opened, Ident
    <2> QED
      BY <1>3, <1>4, <1>5, <2>1 DEF Lender!lvars
  <1> QED
    BY <1>6, <1>7

LEMMA CallLends ==
  ASSUME LendInv, NEW c \in Calls, CallNext(c)
  PROVE  [Lender!LNext]_(Lender!lvars)
  <1>1. Shape
    BY DEF LendInv, IInv
  <1>2. CASE Instantiate(c) \/ InstantiateFails(c)
    BY <1>2, MakeLends DEF Lender!LNext
  <1>3. CASE Receive(c)
    BY <1>3, ReceiveLends DEF Lender!LNext
  <1>4. CASE EnsurePut(c) \/ EnsureSend(c) \/ ReleaseReused(c)
    BY <1>4, PutLends DEF Lender!LNext
  <1>5. CASE HandlerFails(c) \/ EnsureOrphaned(c)
    BY <1>5, DropLends DEF Lender!LNext
  <1>6. CASE CloseInstance(c)
    BY <1>6, CloseLends DEF Lender!LNext
  <1>7. CASE ReleaseDiscarded(c)
    <2>1. CASE pc[c] = "reuse"
      BY <1>7, <2>1, DropLends DEF Lender!LNext
    <2>2. CASE pc[c] # "reuse"
      <3>1. /\ pc[c] = "discard" /\ pc'[c] = "close" /\ UNCHANGED <<available, live>>
            /\ ~Instantiate(c) /\ ~InstantiateFails(c)
        BY <1>1, <1>7, <2>2 DEF ReleaseDiscarded, Goto, Shape, TypeOK, Instantiate,
           InstantiateFails
      <3>2. Lease'[c] = Lease[c]
        BY <3>1 DEF Lease, Making, Using
      <3> QED
        BY <1>1, <3>1, <3>2, NothingMoves
    <2> QED
      BY <2>1, <2>2
  <1>8. CASE \/ EnsurePool(c) \/ EnsureLock(c) \/ EnsureReplaced(c) \/ EnsureFilled(c)
             \/ EnsureReserve(c) \/ EnsureUndo(c) \/ AcquireNoPool(c) \/ AcquirePool(c)
             \/ ReceiveClosed(c) \/ GiveUp(c)
    <2>1. /\ UNCHANGED <<available, live>>
          /\ pc[c] \notin {"make", "put", "send", "use", "reuse"}
          /\ pc'[c] \notin {"put", "send", "use", "reuse"}
      BY <1>1, <1>8 DEF EnsurePool, EnsureLock, EnsureReplaced, EnsureFilled, EnsureReserve,
         EnsureUndo, AcquireNoPool, AcquirePool, ReceiveClosed, GiveUp, Goto, Shape, TypeOK
    <2>2. Lease'[c] = Lease[c] /\ ~Instantiate(c) /\ ~InstantiateFails(c)
      BY <2>1 DEF Lease, Making, Using, Instantiate, InstantiateFails
    <2> QED
      BY <1>1, <2>1, <2>2, NothingMoves
  <1>9. CASE EnsureBlocked(c) \/ HandlerReturns(c)
    <2>1. /\ UNCHANGED <<available, live, held>>
          /\ pc[c] \in {"put", "use"} /\ pc'[c] \in {"send", "reuse"}
      BY <1>1, <1>9 DEF EnsureBlocked, HandlerReturns, Goto, Shape, TypeOK
    <2>2. Lease'[c] = Lease[c] /\ ~Instantiate(c) /\ ~InstantiateFails(c)
      BY <2>1 DEF Lease, Making, Using, Ident, Instantiate, InstantiateFails
    <2> QED
      BY <1>1, <2>1, <2>2, NothingMoves
  <1> QED
    BY <1>2, <1>3, <1>4, <1>5, <1>6, <1>7, <1>8, <1>9
       DEF CallNext, Ensure, Acquire, Use, Release

LEMMA EvictLends ==
  ASSUME LendInv, NEW r \in Removers, Evict(r)
  PROVE  [Lender!LNext]_(Lender!lvars)
  <1>1. UNCHANGED <<pc, held, nextID>>
    BY DEF Evict, RemovePool, Drain, RemoveDone
  <1>2. Lease' = Lease /\ Spent' = Spent
    BY <1>1 DEF Lease, Spent, Numbers, Reserved, Ident, Making, Using
  <1>3. rpc \in [Removers -> RemoverStates]
    BY DEF LendInv, IInv, Shape, TypeOK
  <1>4. CASE RemovePool(r)
    <2>1. rpc[r] = "idle" /\ rpc' = [rpc EXCEPT ![r] = "drain"] /\ UNCHANGED <<available, live>>
      BY <1>4 DEF RemovePool
    <2>2. Evicted' = Evicted \cup TargetOf[r] /\ TargetOf[r] \in SUBSET Paths
      BY <1>3, <2>1, UseAssumption DEF Evicted
    <2>3. Shelf' = Shelf /\ Opened' = Opened
      BY <2>1 DEF Shelf, Offered, Idle, Opened, Ident
    <2>4. Lender!Evict(TargetOf[r])
      BY <1>2, <2>2, <2>3 DEF Lender!Evict
    <2> QED
      BY <2>2, <2>4 DEF Lender!LNext
  <1>5. CASE Drain(r)
    <2>1. PICK o \in drains[r] : available[o] # <<>> /\ live' = live \ {Head(available[o])} /\ TakeFirst(o)
      BY <1>5 DEF Drain
    <2> DEFINE x == Head(available[o])
    <2>2. o \in Calls /\ PathOf[o] \in Paths /\ Evicted' = Evicted
      BY <1>5, UseAssumption DEF Drain, removers, LendInv, IInv, Shape, TypeOK, Evicted
    <2>3. PathOf[o] \in Evicted
      BY DEF LendInv, DrainsEvicted, Evicted
    <2>4. /\ x \in Idle(o) /\ Ident(x) \in Shelf[PathOf[o]]
          /\ Shelf' = [Shelf EXCEPT ![PathOf[o]] = Shelf[PathOf[o]] \ {Ident(x)}]
      BY <2>1, <2>2, TakeUnshelves
    <2>5. live' = live \ {x}
      BY <2>1
    <2> HIDE DEF x
    <2>6. Opened' = Opened \ {Ident(x)}
      BY <2>2, <2>4, <2>5, OpenWithout DEF Present
    <2>7. Lender!Clear(PathOf[o], Ident(x))
      BY <1>2, <2>2, <2>3, <2>4, <2>6 DEF Lender!Clear
    <2> QED
      BY <2>2, <2>4, <2>7 DEF Lender!LNext
  <1>6. CASE RemoveDone(r)
    <2>1. /\ rpc[r] = "drain" /\ rpc' = [rpc EXCEPT ![r] = "done"]
          /\ UNCHANGED <<available, live>>
      BY <1>6 DEF RemoveDone
    <2>2. Evicted' = Evicted
      BY <1>3, <2>1 DEF Evicted
    <2>3. Shelf' = Shelf /\ Opened' = Opened
      BY <2>1 DEF Shelf, Offered, Idle, Opened, Ident
    <2> QED
      BY <1>2, <2>2, <2>3 DEF Lender!lvars
  <1> QED
    BY <1>4, <1>5, <1>6 DEF Evict

LEMMA NextLends == LendInv /\ [Next]_vars => [Lender!LNext]_(Lender!lvars)
  <1> SUFFICES ASSUME LendInv, [Next]_vars PROVE [Lender!LNext]_(Lender!lvars)
    OBVIOUS
  <1>1. CASE UNCHANGED vars
    BY <1>1 DEF vars, removers, Lender!lvars, Lease, Shelf, Opened, Spent, Evicted, Offered,
       Numbers, Reserved, Ident, Idle, Making, Using
  <1>2. CASE Finished
    BY <1>1, <1>2 DEF Finished
  <1> QED
    BY <1>1, <1>2, CallLends, EvictLends DEF Next, CallNext

LEMMA InitLends == Init => Lender!LInit
  <1> SUFFICES ASSUME Init PROVE Lender!LInit
    OBVIOUS
  <1>1. Lease = [c \in Calls |-> {}]
    BY DEF Init, Lease, Making, Using
  <1>2. Shelf = [p \in Paths |-> {}]
    BY DEF Init, Shelf, Offered, Idle, ToSet
  <1>3. Opened = {} /\ Evicted = {}
    BY DEF Init, Opened, Evicted
  <1>4. Spent = {}
    BY DEF Init, Spent, Numbers
  <1> QED
    BY <1>1, <1>2, <1>3, <1>4 DEF Lender!LInit

\* The pools implement Leases: whatever pool objects, channels and counters do
\* while calls and evictions interleave, a caller sees instances that are made for
\* it, lent to one call of its path at a time, closed when nobody has or can get
\* them, and never the same one again; and a path that is not evicted has at most
\* Size (ImplementsLeases; proto_store.go:185-321).
THEOREM PoolsLend == Spec => ImplementsLeases
  BY InitLending, NextLending, InitLends, NextLends, PTL DEF Spec, ImplementsLeases, Lender!LSafe

-----------------------------------------------------------------------------
(* Whose instance a call runs, and where the pools can stop. *)

\* A call only ever works with an instance of its own module, whatever pool it came
\* from (proto_store.go:233-289): evictions and replacement pools mix the pool
\* objects of a path, never the paths.
THEOREM OwnModuleOnly ==
  Spec => [](\A c \in Calls : Holding(c) => PathOf[held[c].pool] = PathOf[c])
  <1>1. CountInv => \A c \in Calls : Holding(c) => PathOf[held[c].pool] = PathOf[c]
    BY DEF CountInv, Homes
  <1> QED
    BY <1>1, InitCounts, NextCounts, PTL DEF Spec

\* What docs/interview-defense.md:1260-1261 says (NoReentry) is true of a path until
\* it is evicted: what its pool offers, that pool made. Only an eviction while an
\* instance is borrowed lets one enter a pool that did not make it.
THEOREM NoReentryUntilEvicted ==
  Spec => [](\A o \in Calls : Unevicted(PathOf[o]) => \A x \in Idle(o) : x.pool = o)
  <1>1. ASSUME LendInv, NEW o \in Calls, Unevicted(PathOf[o]), NEW x \in Idle(o)
        PROVE  x.pool = o
    <2>1. available[o] # <<>>
      BY <1>1 DEF Idle, ToSet
    <2>2. pools[PathOf[o]] = o
      BY <1>1, <2>1 DEF LendInv, OneShelf
    <2>3. pc[o] # "start"
      BY <2>1, <1>1 DEF LendInv, CountInv, Fresh
    <2> QED
      BY <1>1, <2>2, <2>3 DEF LendInv, CountInv, Settled, Current
  <1>2. LendInv => \A o \in Calls : Unevicted(PathOf[o]) => \A x \in Idle(o) : x.pool = o
    BY <1>1
  <1> QED
    BY <1>2, InitLending, NextLending, PTL DEF Spec

\* The calls that fill the pool they work with: they hold its createMu.
Filling(c) == pc[c] \in {"fill", "make", "undo", "put", "send"}

\* Every lock is with a call that will let it go.
LocksHeld ==
  /\ \A c \in Calls : Filling(c) => creator[mine[c]] = c
  /\ \A o \in Calls : creator[o] # None =>
       (Filling(creator[o]) \/ pc[creator[o]] = "close") /\ mine[creator[o]] = o
  /\ mu # None => pc[mu] = "send"

\* A call that leaves ensure gives up what it has locked, and nothing else.
LEMMA UnlockKeepsLocks ==
  ASSUME Shape, LocksHeld, NEW c \in Calls, UnlockCreate(c), ~Filling(c)',
         \A d \in Calls \ {c} : pc'[d] = pc[d], UNCHANGED <<mine, mu>>, mu = c => pc'[c] = "send"
  PROVE  LocksHeld'
  <1>1. /\ creator \in [Calls -> Calls \cup {None}] /\ mu \in Calls \cup {None}
        /\ \A o \in Calls : creator'[o] = IF creator[o] = c THEN None ELSE creator[o]
    BY DEF Shape, TypeOK, UnlockCreate
  <1>2. ASSUME NEW d \in Calls, Filling(d)' PROVE creator'[mine'[d]] = d
    <2>1. d # c /\ Filling(d) /\ mine[d] \in Calls
      BY <1>2, UseAssumption DEF Filling, Shape, TypeOK
    <2> QED
      BY <1>1, <2>1 DEF LocksHeld
  <1>3. ASSUME NEW o \in Calls, creator'[o] # None
        PROVE  (Filling(creator[o])' \/ pc'[creator'[o]] = "close") /\ mine'[creator'[o]] = o
    <2>1. PICK d \in Calls : d = creator[o] /\ creator'[o] = d /\ d # c
      BY <1>1, <1>3
    <2>2. (Filling(d) \/ pc[d] = "close") /\ mine[d] = o
      BY <2>1, UseAssumption DEF LocksHeld
    <2>3. pc'[d] = pc[d]
      BY <2>1
    <2>4. (Filling(d)' \/ pc'[d] = "close") /\ mine'[d] = o
      BY <2>2, <2>3 DEF Filling
    <2> QED
      BY <2>1, <2>4 DEF Filling
  <1>4. mu' # None => pc'[mu'] = "send"
    BY <1>1 DEF LocksHeld
  <1> QED
    BY <1>2, <1>3, <1>4 DEF LocksHeld

LEMMA CallKeepsLocks ==
  ASSUME Shape, LocksHeld, NEW c \in Calls, CallNext(c)
  PROVE  LocksHeld'
  <1> USE UseAssumption
  <1>1. /\ pc \in [Calls -> CallStates] /\ mine \in [Calls -> Calls \cup {None}]
        /\ creator \in [Calls -> Calls \cup {None}] /\ mu \in Calls \cup {None}
        /\ pc[c] # "start" => mine[c] \in Calls
        /\ \A d \in Calls : pc[d] = "send" => mu = d
    BY DEF Shape, TypeOK, Locked
  <1>2. CASE EnsurePool(c)
    <2>1. /\ pc' = [pc EXCEPT ![c] = "lock"] /\ pc[c] = "start" /\ UNCHANGED <<creator, mu>>
          /\ \A d \in Calls \ {c} : mine'[d] = mine[d]
      BY <1>1, <1>2 DEF EnsurePool, Goto
    <2> QED
      BY <1>1, <2>1 DEF LocksHeld, Filling
  <1>3. CASE EnsureLock(c)
    BY <1>1, <1>3 DEF EnsureLock, Goto, LocksHeld, Filling
  <1>4. CASE EnsureReplaced(c) \/ EnsureFilled(c) \/ EnsureUndo(c)
    <2>1. /\ pc[c] \in {"fill", "undo"} /\ pc'[c] \in {"returned", "acquire"}
          /\ \A d \in Calls \ {c} : pc'[d] = pc[d]
          /\ UNCHANGED <<mine, mu>> /\ mu = None /\ UnlockCreate(c)
      BY <1>1, <1>4 DEF EnsureReplaced, EnsureFilled, EnsureUndo, Goto
    <2>2. ~Filling(c)'
      BY <2>1 DEF Filling
    <2> QED
      BY <1>1, <2>1, <2>2, UnlockKeepsLocks
  <1>5. CASE \/ EnsureReserve(c) \/ Instantiate(c) \/ InstantiateFails(c) \/ EnsurePut(c)
             \/ EnsureOrphaned(c)
    <2>1. /\ pc[c] \in {"fill", "make", "put"} /\ pc'[c] \in {"make", "put", "undo", "fill", "close"}
          /\ \A d \in Calls \ {c} : pc'[d] = pc[d]
          /\ UNCHANGED <<mine, mu, creator>>
      BY <1>1, <1>5 DEF EnsureReserve, Instantiate, InstantiateFails, EnsurePut,
         EnsureOrphaned, Goto
    <2> QED
      BY <1>1, <2>1 DEF LocksHeld, Filling
  <1>6. CASE EnsureBlocked(c)
    BY <1>1, <1>6 DEF EnsureBlocked, Goto, LocksHeld, Filling
  <1>7. CASE EnsureSend(c)
    BY <1>1, <1>7 DEF EnsureSend, Goto, LocksHeld, Filling
  <1>8. CASE Acquire(c) \/ Use(c) \/ ReleaseReused(c) \/ ReleaseDiscarded(c)
    <2>1. /\ pc[c] \in {"acquire", "receive", "use", "reuse", "discard"}
          /\ pc'[c] \notin {"fill", "make", "undo", "put", "send"}
          /\ \A d \in Calls \ {c} : pc'[d] = pc[d] /\ mine'[d] = mine[d]
          /\ UNCHANGED <<mu, creator>>
      BY <1>1, <1>8 DEF Acquire, Use, AcquireNoPool, AcquirePool, Receive, ReceiveClosed,
         GiveUp, HandlerReturns, HandlerFails, ReleaseReused, ReleaseDiscarded, Goto
    <2>2. \A o \in Calls : creator[o] # c
      BY <1>1, <2>1 DEF LocksHeld, Filling
    <2> QED
      BY <1>1, <2>1, <2>2 DEF LocksHeld, Filling
  <1>9. CASE CloseInstance(c)
    <2>1. /\ pc[c] = "close" /\ pc'[c] = "returned" /\ UNCHANGED <<mine, mu>>
          /\ \A d \in Calls \ {c} : pc'[d] = pc[d]
          /\ UnlockCreate(c)
      BY <1>1, <1>9 DEF CloseInstance, Goto
    <2>2. ~Filling(c)' /\ mu # c
      BY <2>1 DEF Filling, LocksHeld
    <2> QED
      BY <1>1, <2>1, <2>2, UnlockKeepsLocks
  <1> QED
    BY <1>2, <1>3, <1>4, <1>5, <1>6, <1>7, <1>8, <1>9 DEF CallNext, Ensure, Release

LEMMA LocksInvariant ==
  /\ Init => Shape /\ LocksHeld
  /\ Shape /\ LocksHeld /\ [Next]_vars => (Shape /\ LocksHeld)'
  <1>1. Init => LocksHeld
    BY DEF Init, LocksHeld, Filling
  <1>2. ASSUME Shape, LocksHeld, [Next]_vars PROVE LocksHeld'
    <2>1. CASE UNCHANGED <<pc, mine, creator, mu>>
      BY <1>2, <2>1 DEF LocksHeld, Filling
    <2>2. CASE UNCHANGED vars \/ Finished
      BY <2>1, <2>2 DEF vars, Finished
    <2>3. ASSUME NEW r \in Removers, Evict(r) PROVE LocksHeld'
      BY <2>1, <2>3 DEF Evict, RemovePool, Drain, RemoveDone
    <2>4. ASSUME NEW c \in Calls, CallNext(c) PROVE LocksHeld'
      BY <1>2, <2>4, CallKeepsLocks
    <2> QED
      BY <1>2, <2>2, <2>3, <2>4 DEF Next, CallNext
  <1> QED
    BY <1>1, <1>2, InitShape, NextShape

\* A pool is filled by one call at a time (createMu; proto_store.go:193-230).
THEOREM OneFillsAPool ==
  Spec => [](\A c, d \in Calls : Filling(c) /\ Filling(d) /\ mine[c] = mine[d] => c = d)
  <1>1. LocksHeld => \A c, d \in Calls : Filling(c) /\ Filling(d) /\ mine[c] = mine[d] => c = d
    BY DEF LocksHeld
  <1> QED
    BY <1>1, LocksInvariant, PTL DEF Spec

\* Call c waits for nobody. (The guards of its steps: ENABLED is out of the prover's
\* reach.)
CanMove(c) ==
  \/ pc[c] \in {"make", "receive", "use", "close"}
  \/ pc[c] = "lock" /\ creator[mine[c]] = None
  \/ pc[c] = "send" /\ HasRoom(mine[c])
  \/ pc[c] \in {"start", "fill", "undo", "put", "acquire", "reuse", "discard"} /\ mu = None

\* The pools can come to a stop in one way only: a call keeps the store's mutex
\* while it waits for room in a full channel (proto_store.go:221-228). The locks
\* cannot deadlock: createMu is taken before the mutex and never after it.
THEOREM StopsOnlyOnSend ==
  Spec => []((\E c \in Calls : pc[c] # "returned") =>
               \/ \E c \in Calls : CanMove(c)
               \/ \E c \in Calls : pc[c] = "send" /\ mu = c /\ ~HasRoom(mine[c]))
  <1>1. ASSUME Shape, LocksHeld, NEW c \in Calls, pc[c] # "returned"
        PROVE  \/ \E d \in Calls : CanMove(d)
               \/ \E d \in Calls : pc[d] = "send" /\ mu = d /\ ~HasRoom(mine[d])
    <2>1. /\ pc[c] \in CallStates /\ mu \in Calls \cup {None}
          /\ \A d \in Calls : pc[d] = "send" => mu = d
          /\ pc[c] # "start" => mine[c] \in Calls
          /\ creator \in [Calls -> Calls \cup {None}]
      BY <1>1, UseAssumption DEF Shape, TypeOK, Locked
    <2>2. CASE mu # None
      BY <1>1, <2>1, <2>2 DEF LocksHeld, CanMove
    <2>3. CASE mu = None /\ pc[c] = "lock" /\ creator[mine[c]] # None
      <3>1. PICK d \in Calls : d = creator[mine[c]]
        BY <2>1, <2>3
      <3>2. Filling(d) \/ pc[d] = "close"
        BY <1>1, <2>1, <2>3, <3>1 DEF LocksHeld
      <3> QED
        BY <2>1, <2>3, <3>2, UseAssumption DEF CanMove, Filling
    <2>4. CASE mu = None /\ ~(pc[c] = "lock" /\ creator[mine[c]] # None)
      BY <1>1, <2>1, <2>4, UseAssumption DEF CanMove, CallStates
    <2> QED
      BY <2>2, <2>3, <2>4
  <1>2. Shape /\ LocksHeld =>
          ((\E c \in Calls : pc[c] # "returned") =>
               \/ \E c \in Calls : CanMove(c)
               \/ \E c \in Calls : pc[c] = "send" /\ mu = c /\ ~HasRoom(mine[c]))
    BY <1>1
  <1> QED
    BY <1>2, LocksInvariant, PTL DEF Spec

\* So until the first eviction some call can always move, unless all have returned:
\* no channel is ever full when its pool is filled (proto_store.go:195-230).
THEOREM MovesUntilEvicted ==
  Spec => []((\A p \in Paths : Unevicted(p)) /\ (\E c \in Calls : pc[c] # "returned") =>
               \E c \in Calls : CanMove(c))
  <1>1. CountInv =>
          ((\A p \in Paths : Unevicted(p)) => \A c \in Calls : pc[c] # "send")
    <2> SUFFICES ASSUME CountInv, \A p \in Paths : Unevicted(p), NEW c \in Calls
                 PROVE  pc[c] # "send"
      OBVIOUS
    <2>1. CASE pc[c] = "start"
      BY <2>1
    <2>2. CASE pc[c] # "start"
      <3>1. Current(c) # None /\ PathOf[c] \in Paths
        BY <2>2, UseAssumption DEF CountInv, Settled
      <3> QED
        BY <3>1 DEF CountInv, CountsExactly, Unevicted, Current
    <2> QED
      BY <2>1, <2>2
  <1>2. CountInv /\ ((\E c \in Calls : pc[c] # "returned") =>
                       \/ \E c \in Calls : CanMove(c)
                       \/ \E c \in Calls : pc[c] = "send" /\ mu = c /\ ~HasRoom(mine[c]))
        => ((\A p \in Paths : Unevicted(p)) /\ (\E c \in Calls : pc[c] # "returned") =>
               \E c \in Calls : CanMove(c))
    BY <1>1
  <1> QED
    BY <1>2, InitCounts, NextCounts, StopsOnlyOnSend, PTL DEF Spec
=============================================================================

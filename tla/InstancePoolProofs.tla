------------------------- MODULE InstancePoolProofs -------------------------
(***************************************************************************)
(* Proofs about InstancePool, for any number of calls, evictions, modules  *)
(* and names and any pool size: an instance has one user or one place, it  *)
(* is open while it is used or offered, it is not lost, and nothing is     *)
(* sent to a closed channel.                                               *)
(***************************************************************************)
EXTENDS InstancePoolProps, SequenceTheorems, TLAPS

\* A pool object was made by a call that has left its first state, and it stays
\* under that call's path; so a call that has not started can make a new one.
Created ==
  /\ \A p \in Paths : pools[p] # None => pc[pools[p]] # "start" /\ PathOf[pools[p]] = p
  /\ \A o \in closed : pc[o] # "start"

\* A call blocked on a full channel has the mutex, so that its pool stays in the
\* map and open.
Locked == \A c \in Calls : pc[c] = "send" => mu = c /\ IsCurrent(c)

\* No instance has a number that its pool has still to give out.
Numbered ==
  /\ \A c \in Calls : Holding(c) => held[c].id <= nextID[held[c].pool]
  /\ \A o \in Calls : \A x \in Idle(o) : x.id <= nextID[x.pool]
  /\ \A x \in live : x.id <= nextID[x.pool]

\* An instance that is still to be made is not open.
NotYetOpen == \A c \in Calls : pc[c] = "make" => held[c] \notin live

Shape == TypeOK /\ Created /\ Locked
IInv == Shape /\ Numbered /\ NotYetOpen /\ ExclusiveUse /\ UsableIsOpen /\ NothingLeaks

-----------------------------------------------------------------------------
(* Sequences without duplicates. *)

\* A new element at the end of a channel is one element more.
LEMMA AppendOne ==
  ASSUME NEW S, NEW s \in Seq(S), NEW x \in S
  PROVE  /\ Append(s, x) \in Seq(S) /\ Len(Append(s, x)) = Len(s) + 1
         /\ ToSet(Append(s, x)) = ToSet(s) \cup {x}
         /\ IsInjective(s) /\ x \notin ToSet(s) => IsInjective(Append(s, x))
  <1>1. /\ Append(s, x) \in Seq(S) /\ Len(Append(s, x)) = Len(s) + 1
        /\ \A i \in 1..Len(s) : Append(s, x)[i] = s[i]
        /\ Append(s, x)[Len(s) + 1] = x
    BY AppendProperties
  <1>2. Len(s) \in Nat /\ DOMAIN s = 1..Len(s) /\ DOMAIN Append(s, x) = 1..(Len(s) + 1)
    BY <1>1, LenProperties
  <1>3. ToSet(Append(s, x)) = ToSet(s) \cup {x}
    BY <1>1, <1>2 DEF ToSet
  <1>4. ASSUME IsInjective(s), x \notin ToSet(s) PROVE IsInjective(Append(s, x))
    <2>1. \A a, b \in 1..Len(s) : s[a] = s[b] => a = b
      BY <1>2, <1>4 DEF IsInjective
    <2>2. \A a \in 1..Len(s) : s[a] # x
      BY <1>2, <1>4 DEF ToSet
    <2> QED
      BY <1>1, <1>2, <2>1, <2>2 DEF IsInjective
  <1> QED
    BY <1>1, <1>3, <1>4

\* The first element of a channel and the rest are all of it.
LEMMA TailOne ==
  ASSUME NEW S, NEW s \in Seq(S), s # <<>>
  PROVE  /\ Head(s) \in S /\ Tail(s) \in Seq(S) /\ Len(Tail(s)) = Len(s) - 1
         /\ ToSet(s) = ToSet(Tail(s)) \cup {Head(s)}
         /\ IsInjective(s) => IsInjective(Tail(s)) /\ Head(s) \notin ToSet(Tail(s))
  <1>1. /\ Head(s) \in S /\ Tail(s) \in Seq(S) /\ Len(Tail(s)) = Len(s) - 1
        /\ \A i \in 1..Len(Tail(s)) : Tail(s)[i] = s[i + 1]
    BY HeadTailProperties
  <1>2. Len(s) \in Nat \ {0} /\ DOMAIN s = 1..Len(s) /\ DOMAIN Tail(s) = 1..(Len(s) - 1)
    BY <1>1, LenProperties, EmptySeq
  <1>3. Head(s) = s[1]
    OBVIOUS
  <1>4. ToSet(s) = ToSet(Tail(s)) \cup {Head(s)}
    <2>1. ASSUME NEW x \in ToSet(s) PROVE x \in ToSet(Tail(s)) \cup {Head(s)}
      <3>1. PICK i \in 1..Len(s) : x = s[i]
        BY <1>2 DEF ToSet
      <3>2. CASE i = 1
        BY <1>3, <3>1, <3>2
      <3>3. CASE i # 1
        <4>1. i - 1 \in 1..Len(Tail(s)) /\ Tail(s)[i - 1] = s[i]
          BY <1>1, <1>2, <3>3
        <4> QED
          BY <1>1, <1>2, <3>1, <4>1 DEF ToSet
      <3> QED
        BY <3>2, <3>3
    <2>2. ASSUME NEW x \in ToSet(Tail(s)) PROVE x \in ToSet(s)
      <3>1. PICK i \in 1..Len(Tail(s)) : x = s[i + 1]
        BY <1>1, <1>2 DEF ToSet
      <3> QED
        BY <1>1, <1>2, <3>1 DEF ToSet
    <2>3. Head(s) \in ToSet(s)
      BY <1>2, <1>3 DEF ToSet
    <2> QED
      BY <2>1, <2>2, <2>3
  <1>5. ASSUME IsInjective(s) PROVE IsInjective(Tail(s)) /\ Head(s) \notin ToSet(Tail(s))
    <2>1. \A a, b \in 1..Len(s) : s[a] = s[b] => a = b
      BY <1>2, <1>5 DEF IsInjective
    <2>2. IsInjective(Tail(s))
      BY <1>1, <1>2, <2>1 DEF IsInjective
    <2>3. Head(s) \notin ToSet(Tail(s))
      BY <1>1, <1>2, <1>3, <2>1 DEF ToSet
    <2> QED
      BY <2>2, <2>3
  <1> QED
    BY <1>1, <1>4, <1>5

-----------------------------------------------------------------------------
(* The channels. *)

\* The channels hold instances, at most Size of them, each once.
Channels ==
  /\ available \in [Calls -> Seq(Instances)]
  /\ \A o \in Calls : Len(available[o]) <= Size

\* A send adds one instance to one channel.
LEMMA PushOne ==
  ASSUME TypeOK, NEW o \in Calls, NEW x \in Instances, HasRoom(o), Push(o, x)
  PROVE  /\ Channels'
         /\ Idle(o)' = Idle(o) \cup {x}
         /\ \A q \in Calls \ {o} : available'[q] = available[q] /\ Idle(q)' = Idle(q)
         /\ IsInjective(available[o]) /\ x \notin Idle(o) => IsInjective(available'[o])
  <1>1. /\ available[o] \in Seq(Instances)
        /\ \A q \in Calls : available'[q] = IF q = o THEN Append(available[o], x) ELSE available[q]
    BY DEF TypeOK, Push
  <1>2. /\ available'[o] \in Seq(Instances) /\ Len(available'[o]) = Len(available[o]) + 1
        /\ ToSet(available'[o]) = ToSet(available[o]) \cup {x}
        /\ IsInjective(available[o]) /\ x \notin ToSet(available[o]) => IsInjective(available'[o])
    <2> DEFINE s == Append(available[o], x)
    <2>1. /\ s \in Seq(Instances) /\ Len(s) = Len(available[o]) + 1
          /\ ToSet(s) = ToSet(available[o]) \cup {x}
          /\ IsInjective(available[o]) /\ x \notin ToSet(available[o]) => IsInjective(s)
      BY <1>1, AppendOne, Zenon
    <2>2. available'[o] = s
      BY <1>1
    <2> QED
      BY <2>1, <2>2, Zenon
  <1>3. Channels'
    <2>1. Len(available[o]) \in Nat
      BY <1>1, LenProperties
    <2>2. Len(available'[o]) <= Size
      BY <1>2, <2>1, SizeAssumption DEF HasRoom
    <2>3. available' \in [Calls -> Seq(Instances)]
      BY <1>2 DEF TypeOK, Push
    <2> QED
      BY <1>1, <2>2, <2>3 DEF TypeOK, Channels, Instances
  <1> QED
    BY <1>1, <1>2, <1>3 DEF Idle

\* A receive takes the first instance of one channel, which holds it once.
LEMMA TakeOne ==
  ASSUME TypeOK, NEW o \in Calls, available[o] # <<>>, TakeFirst(o)
  PROVE  /\ Channels'
         /\ Head(available[o]) \in Instances
         /\ Idle(o) = Idle(o)' \cup {Head(available[o])}
         /\ \A q \in Calls \ {o} : available'[q] = available[q] /\ Idle(q)' = Idle(q)
         /\ Len(available'[o]) < Len(available[o])
         /\ IsInjective(available[o]) =>
              IsInjective(available'[o]) /\ Head(available[o]) \notin Idle(o)'
  <1>1. /\ available[o] \in Seq(Instances)
        /\ \A q \in Calls : available'[q] = IF q = o THEN Tail(available[o]) ELSE available[q]
    BY DEF TypeOK, TakeFirst
  <1>2. /\ Head(available[o]) \in Instances /\ available'[o] \in Seq(Instances)
        /\ Len(available'[o]) = Len(available[o]) - 1
        /\ ToSet(available[o]) = ToSet(available'[o]) \cup {Head(available[o])}
        /\ IsInjective(available[o]) =>
             IsInjective(available'[o]) /\ Head(available[o]) \notin ToSet(available'[o])
    <2> DEFINE s == Tail(available[o])
    <2>1. /\ Head(available[o]) \in Instances /\ s \in Seq(Instances)
          /\ Len(s) = Len(available[o]) - 1
          /\ ToSet(available[o]) = ToSet(s) \cup {Head(available[o])}
          /\ IsInjective(available[o]) => IsInjective(s) /\ Head(available[o]) \notin ToSet(s)
      BY <1>1, TailOne, Zenon
    <2>2. available'[o] = s
      BY <1>1
    <2> QED
      BY <2>1, <2>2, Zenon
  <1>3. Len(available[o]) \in Nat /\ Len(available[o]) <= Size
    BY <1>1, LenProperties DEF TypeOK
  <1>4. Channels'
    <2>1. Len(available'[o]) <= Size
      BY <1>2, <1>3, SizeAssumption
    <2>2. available' \in [Calls -> Seq(Instances)]
      BY <1>2 DEF TypeOK, TakeFirst
    <2> QED
      BY <1>1, <2>1, <2>2 DEF TypeOK, Channels, Instances
  <1> QED
    BY <1>1, <1>2, <1>3, <1>4 DEF Idle

LEMMA EnsureShape ==
  ASSUME Shape, NEW c \in Calls, Ensure(c)
  PROVE  Shape'
  <1>1. CASE EnsurePool(c)
    <2>1. TypeOK'
      <3>1. /\ pools' \in [Paths -> Calls \cup {None}] /\ mine' \in [Calls -> Calls \cup {None}]
            /\ \A d \in Calls : mine'[d] = mine[d] \/ mine'[d] # None
            /\ mine'[c] # None
        BY <1>1, UseAssumption DEF EnsurePool, Shape, TypeOK, Current
      <3>2. \A p \in Paths : pools'[p] \notin closed
        BY <1>1, UseAssumption DEF EnsurePool, Shape, TypeOK, Created, Current
      <3>3. /\ pc' \in [Calls -> CallStates]
            /\ \A d \in Calls : pc'[d] = IF d = c THEN "lock" ELSE pc[d]
            /\ pc[c] = "start"
        BY <1>1 DEF EnsurePool, Goto, Shape, TypeOK, CallStates
      <3>4. \A d \in Calls : pc'[d] # "start" => mine'[d] # None
        BY <3>1, <3>3 DEF Shape, TypeOK
      <3>5. \A d \in Calls : Holding(d)' <=> Holding(d)
        BY <3>3 DEF Holding, Making, Using
      <3> QED
        BY <1>1, <3>1, <3>2, <3>3, <3>4, <3>5 DEF EnsurePool, Shape, TypeOK, removers
    <2>2. Created' /\ Locked'
      BY <1>1, UseAssumption DEF EnsurePool, Shape, TypeOK, Created, Locked, IsCurrent,
         Current, Goto, removers
    <2> QED
      BY <2>1, <2>2 DEF Shape
  <1>2. CASE EnsureLock(c)
    <2>1. TypeOK'
      BY <1>2 DEF EnsureLock, Shape, TypeOK, Goto, removers, Holding, Making, Using,
         CallStates, RemoverStates, Instances
    <2>2. Created' /\ Locked'
      BY <1>2 DEF EnsureLock, Shape, TypeOK, Created, Locked, IsCurrent, Current, Goto,
         removers
    <2> QED
      BY <2>1, <2>2 DEF Shape
  <1>3. CASE EnsureReplaced(c)
    <2>1. TypeOK'
      BY <1>3 DEF EnsureReplaced, UnlockCreate, Shape, TypeOK, Goto, removers, Holding,
         Making, Using, CallStates, RemoverStates, Instances
    <2>2. Created' /\ Locked'
      BY <1>3 DEF EnsureReplaced, Shape, TypeOK, Created, Locked, IsCurrent, Current,
         Goto, removers
    <2> QED
      BY <2>1, <2>2 DEF Shape
  <1>4. CASE EnsureFilled(c)
    <2>1. TypeOK'
      BY <1>4 DEF EnsureFilled, UnlockCreate, Shape, TypeOK, Goto, removers, Holding,
         Making, Using, CallStates, RemoverStates, Instances
    <2>2. Created' /\ Locked'
      BY <1>4 DEF EnsureFilled, Shape, TypeOK, Created, Locked, IsCurrent, Current, Goto,
         removers
    <2> QED
      BY <2>1, <2>2 DEF Shape
  <1>5. CASE EnsureReserve(c)
    <2>1. total' \in [Calls -> Int] /\ nextID' \in [Calls -> Nat]
      BY <1>5, UseAssumption DEF EnsureReserve, Shape, TypeOK
    <2>2. PICK x \in Instances : held' = [held EXCEPT ![c] = x]
      <3>1. mine[c] \in Calls /\ nextID[mine[c]] + 1 \in Nat \ {0}
        BY <1>5, UseAssumption DEF EnsureReserve, Shape, TypeOK
      <3> QED
        BY <1>5, <3>1 DEF EnsureReserve, Hold, Instances
    <2>3. TypeOK'
      BY <1>5, <2>1, <2>2 DEF EnsureReserve, Shape, TypeOK, Goto, removers, Holding,
         Making, Using, CallStates, RemoverStates, Instances
    <2>4. Created' /\ Locked'
      BY <1>5 DEF EnsureReserve, Shape, TypeOK, Created, Locked, IsCurrent, Current,
         Goto, removers
    <2> QED
      BY <2>3, <2>4 DEF Shape
  <1>6. CASE Instantiate(c)
    <2>1. TypeOK'
      BY <1>6 DEF Instantiate, Shape, TypeOK, Goto, removers, Holding, Making, Using,
         CallStates, RemoverStates, Instances
    <2>2. Created' /\ Locked'
      BY <1>6 DEF Instantiate, Shape, TypeOK, Created, Locked, IsCurrent, Current, Goto,
         removers
    <2> QED
      BY <2>1, <2>2 DEF Shape
  <1>7. CASE InstantiateFails(c)
    <2>1. TypeOK'
      BY <1>7 DEF InstantiateFails, Hold, Shape, TypeOK, Goto, removers, Holding, Making,
         Using, CallStates, RemoverStates, Instances
    <2>2. Created' /\ Locked'
      BY <1>7 DEF InstantiateFails, Shape, TypeOK, Created, Locked, IsCurrent, Current,
         Goto, removers
    <2> QED
      BY <2>1, <2>2 DEF Shape
  <1>8. CASE EnsureUndo(c)
    <2>1. total' \in [Calls -> Int]
      BY <1>8, UseAssumption DEF EnsureUndo, Shape, TypeOK, ReturnReservation
    <2>2. TypeOK'
      BY <1>8, <2>1 DEF EnsureUndo, UnlockCreate, Shape, TypeOK, Goto, removers, Holding,
         Making, Using, CallStates, RemoverStates, Instances
    <2>3. Created' /\ Locked'
      BY <1>8 DEF EnsureUndo, Shape, TypeOK, Created, Locked, IsCurrent, Current, Goto,
         removers
    <2> QED
      BY <2>2, <2>3 DEF Shape
  <1>9. CASE EnsureOrphaned(c)
    <2>1. total' \in [Calls -> Int]
      BY <1>9, UseAssumption DEF EnsureOrphaned, Shape, TypeOK, ReturnReservation
    <2>2. TypeOK'
      BY <1>9, <2>1 DEF EnsureOrphaned, Shape, TypeOK, Goto, removers, Holding, Making,
         Using, CallStates, RemoverStates, Instances
    <2>3. Created' /\ Locked'
      BY <1>9 DEF EnsureOrphaned, Shape, TypeOK, Created, Locked, IsCurrent, Current,
         Goto, removers
    <2> QED
      BY <2>2, <2>3 DEF Shape
  <1>10. CASE EnsurePut(c)
    <2>1. HasRoom(mine[c]) /\ Push(mine[c], held[c]) /\ mine[c] \in Calls /\ held[c] \in Instances
      BY <1>10, UseAssumption DEF EnsurePut, Shape, TypeOK, Holding, Making, Using,
         Current, HasRoom
    <2>2. Channels'
      BY <2>1, PushOne DEF Shape
    <2>3. TypeOK'
      BY <1>10, <2>2 DEF EnsurePut, Hold, Channels, Shape, TypeOK, Goto, removers,
         Holding, Making, Using, CallStates, RemoverStates, Instances
    <2>4. Created' /\ Locked'
      BY <1>10 DEF EnsurePut, Shape, TypeOK, Created, Locked, IsCurrent, Current, Goto,
         removers
    <2> QED
      BY <2>3, <2>4 DEF Shape
  <1>11. CASE EnsureBlocked(c)
    <2>1. TypeOK'
      BY <1>11, UseAssumption DEF EnsureBlocked, Shape, TypeOK, Goto, removers, Holding,
         Making, Using, CallStates, RemoverStates, Instances
    <2>2. Created' /\ Locked'
      BY <1>11, UseAssumption DEF EnsureBlocked, Shape, TypeOK, Created, Locked,
         IsCurrent, Current, Goto, removers
    <2> QED
      BY <2>1, <2>2 DEF Shape
  <1>12. CASE EnsureSend(c)
    <2>1. HasRoom(mine[c]) /\ Push(mine[c], held[c]) /\ mine[c] \in Calls /\ held[c] \in Instances
      BY <1>12, UseAssumption DEF EnsureSend, Shape, TypeOK, Holding, Making, Using,
         Current, HasRoom
    <2>2. Channels'
      BY <2>1, PushOne DEF Shape
    <2>3. TypeOK'
      BY <1>12, <2>2 DEF EnsureSend, Hold, Channels, Shape, TypeOK, Created, Locked,
         IsCurrent, Current, Goto, removers, Holding, Making, Using, CallStates,
         RemoverStates, Instances
    <2>4. Created' /\ Locked'
      BY <1>12 DEF EnsureSend, Shape, TypeOK, Created, Locked, IsCurrent, Current, Goto,
         removers
    <2> QED
      BY <2>3, <2>4 DEF Shape
  <1> QED
    BY <1>1, <1>2, <1>3, <1>4, <1>5, <1>6, <1>7, <1>8, <1>9, <1>10, <1>11, <1>12
       DEF Ensure

LEMMA AcquireShape ==
  ASSUME Shape, NEW c \in Calls, Acquire(c)
  PROVE  Shape'
  <1>1. CASE AcquireNoPool(c)
    <2>1. TypeOK'
      BY <1>1 DEF AcquireNoPool, Shape, TypeOK, Goto, removers, Holding, Making, Using,
         CallStates, RemoverStates, Instances
    <2>2. Created' /\ Locked'
      BY <1>1 DEF AcquireNoPool, Shape, TypeOK, Created, Locked, IsCurrent, Current,
         Goto, removers
    <2> QED
      BY <2>1, <2>2 DEF Shape
  <1>2. CASE AcquirePool(c)
    <2>1. TypeOK'
      <3>1. mine' \in [Calls -> Calls \cup {None}] /\ \A d \in Calls : mine'[d] = mine[d] \/ mine'[d] # None
        BY <1>2, UseAssumption DEF AcquirePool, Shape, TypeOK, Current
      <3>2. mine'[c] # None
        BY <1>2, UseAssumption DEF AcquirePool, Shape, TypeOK, Current
      <3> QED
        BY <1>2, <3>1, <3>2 DEF AcquirePool, Shape, TypeOK, Goto, removers, Holding, Making,
           Using, CallStates, RemoverStates, Instances
    <2>2. Created' /\ Locked'
      BY <1>2, UseAssumption DEF AcquirePool, Shape, TypeOK, Created, Locked, IsCurrent,
         Current, Goto, removers
    <2> QED
      BY <2>1, <2>2 DEF Shape
  <1>3. CASE Receive(c)
    <2>1. TakeFirst(mine[c]) /\ available[mine[c]] # <<>> /\ mine[c] \in Calls
      BY <1>3, UseAssumption DEF Receive, Shape, TypeOK, Holding, Making, Using, Current,
         HasRoom
    <2>2. Channels' /\ Head(available[mine[c]]) \in Instances
      BY <2>1, TakeOne DEF Shape
    <2>3. TypeOK'
      BY <1>3, <2>2 DEF Receive, Hold, Channels, Shape, TypeOK, Goto, removers, Holding,
         Making, Using, CallStates, RemoverStates, Instances
    <2>4. Created' /\ Locked'
      BY <1>3 DEF Receive, Shape, TypeOK, Created, Locked, IsCurrent, Current, Goto,
         removers
    <2> QED
      BY <2>3, <2>4 DEF Shape
  <1>4. CASE ReceiveClosed(c)
    <2>1. TypeOK'
      BY <1>4 DEF ReceiveClosed, Shape, TypeOK, Goto, removers, Holding, Making, Using,
         CallStates, RemoverStates, Instances
    <2>2. Created' /\ Locked'
      BY <1>4 DEF ReceiveClosed, Shape, TypeOK, Created, Locked, IsCurrent, Current,
         Goto, removers
    <2> QED
      BY <2>1, <2>2 DEF Shape
  <1>5. CASE GiveUp(c)
    <2>1. TypeOK'
      BY <1>5 DEF GiveUp, Shape, TypeOK, Goto, removers, Holding, Making, Using,
         CallStates, RemoverStates, Instances
    <2>2. Created' /\ Locked'
      BY <1>5 DEF GiveUp, Shape, TypeOK, Created, Locked, IsCurrent, Current, Goto,
         removers
    <2> QED
      BY <2>1, <2>2 DEF Shape
  <1> QED
    BY <1>1, <1>2, <1>3, <1>4, <1>5 DEF Acquire

LEMMA UseShape ==
  ASSUME Shape, NEW c \in Calls, Use(c)
  PROVE  Shape'
  <1>1. CASE HandlerReturns(c)
    <2>1. TypeOK'
      BY <1>1 DEF HandlerReturns, Shape, TypeOK, Goto, removers, Holding, Making, Using,
         CallStates, RemoverStates, Instances
    <2>2. Created' /\ Locked'
      BY <1>1 DEF HandlerReturns, Shape, TypeOK, Created, Locked, IsCurrent, Current,
         Goto, removers
    <2> QED
      BY <2>1, <2>2 DEF Shape
  <1>2. CASE HandlerFails(c)
    <2>1. TypeOK'
      BY <1>2 DEF HandlerFails, Shape, TypeOK, Goto, removers, Holding, Making, Using,
         CallStates, RemoverStates, Instances
    <2>2. Created' /\ Locked'
      BY <1>2 DEF HandlerFails, Shape, TypeOK, Created, Locked, IsCurrent, Current, Goto,
         removers
    <2> QED
      BY <2>1, <2>2 DEF Shape
  <1> QED
    BY <1>1, <1>2 DEF Use

LEMMA ReleaseShape ==
  ASSUME Shape, NEW c \in Calls, Release(c)
  PROVE  Shape'
  <1>1. CASE ReleaseReused(c)
    <2>1. HasRoom(Current(c)) /\ Push(Current(c), held[c]) /\ Current(c) \in Calls /\ held[c] \in Instances
      BY <1>1, UseAssumption DEF ReleaseReused, Shape, TypeOK, Holding, Making, Using,
         Current, HasRoom
    <2>2. Channels'
      BY <2>1, PushOne DEF Shape
    <2>3. TypeOK'
      BY <1>1, <2>2 DEF ReleaseReused, Hold, Channels, Shape, TypeOK, Created, Locked,
         IsCurrent, Current, Goto, removers, Holding, Making, Using, CallStates,
         RemoverStates, Instances
    <2>4. Created' /\ Locked'
      BY <1>1 DEF ReleaseReused, Shape, TypeOK, Created, Locked, IsCurrent, Current,
         Goto, removers
    <2> QED
      BY <2>3, <2>4 DEF Shape
  <1>2. CASE ReleaseDiscarded(c)
    <2>1. total' \in [Calls -> Int]
      BY <1>2 DEF ReleaseDiscarded, Discount, Shape, TypeOK
    <2>2. TypeOK'
      BY <1>2, <2>1 DEF ReleaseDiscarded, Shape, TypeOK, Goto, removers, Holding, Making,
         Using, CallStates, RemoverStates, Instances
    <2>3. Created' /\ Locked'
      BY <1>2 DEF ReleaseDiscarded, Shape, TypeOK, Created, Locked, IsCurrent, Current,
         Goto, removers
    <2> QED
      BY <2>2, <2>3 DEF Shape
  <1>3. CASE CloseInstance(c)
    <2>1. TypeOK'
      BY <1>3 DEF CloseInstance, CloseModule, Hold, UnlockCreate, Shape, TypeOK, Goto,
         removers, Holding, Making, Using, CallStates, RemoverStates, Instances
    <2>2. Created' /\ Locked'
      BY <1>3 DEF CloseInstance, Shape, TypeOK, Created, Locked, IsCurrent, Current,
         Goto, removers
    <2> QED
      BY <2>1, <2>2 DEF Shape
  <1> QED
    BY <1>1, <1>2, <1>3 DEF Release

LEMMA EvictShape ==
  ASSUME Shape, NEW r \in Removers, Evict(r)
  PROVE  Shape'
  <1>1. CASE RemovePool(r)
    <2> DEFINE removed == {pools[p] : p \in TargetOf[r]} \ {None}
    <2>1. removed \subseteq Calls /\ TargetOf[r] \subseteq Paths
      BY UseAssumption DEF Shape, TypeOK
    <2>2. \A p \in Paths : p \in TargetOf[r] => pools'[p] = None
      BY <1>1 DEF RemovePool
    <2>3. \A p \in Paths : p \notin TargetOf[r] => pools'[p] = pools[p] /\ pools[p] \notin removed
      BY <1>1, <2>1 DEF RemovePool, Shape, Created
    <2>4. closed' = closed \cup removed /\ drains' \in [Removers -> SUBSET closed']
      BY <1>1, <2>1 DEF RemovePool, Shape, TypeOK
    <2>5. pools' \in [Paths -> Calls \cup {None}] /\ \A p \in Paths : pools'[p] \notin closed'
      BY <1>1, <2>1, <2>2, <2>3, <2>4, UseAssumption DEF RemovePool, Shape, TypeOK
    <2>6. TypeOK'
      BY <1>1, <2>1, <2>4, <2>5 DEF RemovePool, Shape, TypeOK, RemoverStates, Holding,
         Making, Using, Instances
    <2>7. Created'
      BY <1>1, <2>1, <2>2, <2>3, <2>4 DEF RemovePool, Shape, Created
    <2>8. Locked'
      BY <1>1, UseAssumption DEF RemovePool, Shape, Locked
    <2> QED
      BY <2>6, <2>7, <2>8 DEF Shape
  <1>2. CASE Drain(r)
    <2>1. PICK o \in drains[r] : available[o] # <<>> /\ live' = live \ {Head(available[o])} /\ TakeFirst(o)
      BY <1>2 DEF Drain
    <2>2. o \in Calls
      BY <2>1 DEF Shape, TypeOK
    <2>3. Channels'
      BY <2>1, <2>2, TakeOne DEF Shape
    <2>4. live' \subseteq Instances
      BY <2>1 DEF Shape, TypeOK
    <2>5. TypeOK'
      BY <1>2, <2>3, <2>4 DEF Drain, Shape, TypeOK, Channels, Holding, Making, Using,
         Instances, removers
    <2>6. Created' /\ Locked'
      BY <1>2 DEF Drain, Shape, Created, Locked, IsCurrent, Current
    <2> QED
      BY <2>5, <2>6 DEF Shape
  <1>3. CASE RemoveDone(r)
    BY <1>3 DEF RemoveDone, Shape, TypeOK, Created, Locked, IsCurrent, Current,
       RemoverStates, Holding, Making, Using, Instances
  <1> QED
    BY <1>1, <1>2, <1>3 DEF Evict

LEMMA InitShape == Init => Shape
  <1> SUFFICES ASSUME Init PROVE Shape
    OBVIOUS
  <1>1. available \in [Calls -> Seq(Instances)] /\ \A o \in Calls : Len(available[o]) <= Size
    BY SizeAssumption, EmptySeq DEF Init
  <1> QED
    BY <1>1, UseAssumption DEF Init, Shape, TypeOK, Created, Locked, Holding, Making,
       Using, CallStates, RemoverStates

LEMMA NextShape == Shape /\ [Next]_vars => Shape'
  <1> SUFFICES ASSUME Shape, [Next]_vars PROVE Shape'
    OBVIOUS
  <1>1. CASE UNCHANGED vars
    BY <1>1 DEF vars, removers, Shape, TypeOK, Created, Locked, IsCurrent, Current,
       Holding, Making, Using, Instances
  <1>2. CASE Finished
    BY <1>1, <1>2 DEF Finished
  <1> QED
    BY <1>1, <1>2, EnsureShape, AcquireShape, UseShape, ReleaseShape, EvictShape DEF Next

THEOREM TypeCorrect == Spec => []TypeOK
  <1>1. Shape => TypeOK
    BY DEF Shape
  <1> QED
    BY <1>1, InitShape, NextShape, PTL DEF Spec

-----------------------------------------------------------------------------
(* Who has the instances. *)

\* A call moves on, with what it has, and the channels and instances stay.
LEMMA QuietStep ==
  ASSUME IInv, NEW c \in Calls, NEW l, Goto(c, l), l # "make",
         Holding(c)' <=> Holding(c), (Using(c) \/ Making(c))' => Using(c) \/ Making(c),
         UNCHANGED <<held, nextID, available, live, rpc, drains>>,
         \A p \in Paths : pools[p] # None => pools'[p] = pools[p]
  PROVE  Numbered' /\ NotYetOpen' /\ ExclusiveUse' /\ UsableIsOpen' /\ NothingLeaks'
  <1>1. \A d \in Calls : Holding(d)' <=> Holding(d)
    BY DEF IInv, Shape, TypeOK, Goto, Holding, Making, Using
  <1>2. \A d \in Calls : (Using(d) \/ Making(d))' => Using(d) \/ Making(d)
    BY DEF IInv, Shape, TypeOK, Goto, Making, Using
  <1>3. \A d \in Calls : pc'[d] = "make" => pc[d] = "make"
    BY DEF IInv, Shape, TypeOK, Goto
  <1>4. Numbered' /\ ExclusiveUse'
    BY <1>1 DEF IInv, Numbered, ExclusiveUse, Idle
  <1>5. NotYetOpen' /\ UsableIsOpen'
    BY <1>2, <1>3 DEF IInv, NotYetOpen, UsableIsOpen, Idle
  <1>6. NothingLeaks'
    BY <1>1 DEF IInv, NothingLeaks, Idle
  <1> QED
    BY <1>4, <1>5, <1>6

\* A call that holds an instance puts it into the channel of a pool in the map.
LEMMA PutBackStep ==
  ASSUME IInv, NEW c \in Calls, NEW p \in Paths, NEW l \in {"fill", "returned"},
         pools[p] # None, Using(c) \/ Making(c), HasRoom(pools[p]),
         Goto(c, l), Hold(c, None), Push(pools[p], held[c]),
         UNCHANGED <<nextID, pools, live, rpc, drains>>
  PROVE  Numbered' /\ NotYetOpen' /\ ExclusiveUse' /\ UsableIsOpen' /\ NothingLeaks'
  <1> PICK o \in Calls : o = pools[p]
    BY DEF IInv, Shape, TypeOK
  <1> PICK x : x = held[c]
    OBVIOUS
  <1>1. Holding(c) /\ x \in Instances
    BY DEF IInv, Shape, TypeOK, Holding
  <1>2. x \in live /\ (\A q \in Calls : x \notin Idle(q))
    BY <1>1 DEF IInv, UsableIsOpen, ExclusiveUse
  <1>3. /\ Idle(o)' = Idle(o) \cup {x}
        /\ \A q \in Calls \ {o} : available'[q] = available[q] /\ Idle(q)' = Idle(q)
        /\ IsInjective(available'[o])
    BY <1>1, <1>2, PushOne DEF IInv, Shape, ExclusiveUse
  <1>4. \A d \in Calls : /\ Holding(d)' <=> Holding(d) /\ d # c
                         /\ (Using(d) \/ Making(d))' <=> (Using(d) \/ Making(d)) /\ d # c
                         /\ pc'[d] = "make" => pc[d] = "make"
                         /\ d # c => held'[d] = held[d]
    BY <1>1 DEF IInv, Shape, TypeOK, Goto, Hold, Holding, Making, Using
  <1>5. Numbered'
    BY <1>1, <1>2, <1>3, <1>4 DEF IInv, Numbered
  <1>6. ExclusiveUse'
    <2>1. \A d, e \in Calls : Holding(d)' /\ Holding(e)' /\ held'[d] = held'[e] => d = e
      BY <1>4 DEF IInv, ExclusiveUse
    <2>2. \A d, q \in Calls : Holding(d)' => held'[d] \notin Idle(q)'
      BY <1>1, <1>3, <1>4 DEF IInv, ExclusiveUse
    <2>3. \A q \in Calls : IsInjective(available'[q])
      BY <1>3 DEF IInv, ExclusiveUse
    <2>4. \A q, s \in Calls : Idle(q)' \cap Idle(s)' # {} => q = s
      BY <1>2, <1>3 DEF IInv, ExclusiveUse
    <2> QED
      BY <2>1, <2>2, <2>3, <2>4 DEF ExclusiveUse
  <1>7. NotYetOpen' /\ UsableIsOpen'
    BY <1>2, <1>3, <1>4 DEF IInv, NotYetOpen, UsableIsOpen
  <1>8. NothingLeaks'
    <2> SUFFICES ASSUME NEW y \in live
                 PROVE  \/ \E d \in Calls : Holding(d)' /\ held'[d] = y
                        \/ \E q \in Paths : pools[q] # None /\ y \in Idle(pools[q])'
                        \/ \E r \in Removers : rpc[r] = "drain" /\ \E q \in drains[r] : y \in Idle(q)'
      BY DEF NothingLeaks, Idle
    <2>1. CASE y = x
      BY <1>3, <2>1
    <2>2. CASE y # x
      <3>1. \A q \in Calls : y \in Idle(q) => y \in Idle(q)'
        BY <1>3
      <3>2. /\ \A q \in Paths : pools[q] # None => pools[q] \in Calls
            /\ \A r \in Removers : drains[r] \subseteq Calls
        BY DEF IInv, Shape, TypeOK
      <3> QED
        BY <1>4, <2>2, <3>1, <3>2 DEF IInv, NothingLeaks
    <2> QED
      BY <2>1, <2>2
  <1> QED
    BY <1>5, <1>6, <1>7, <1>8

\* A call takes the first instance of a channel.
LEMMA ReceiveStep ==
  ASSUME IInv, NEW c \in Calls, Receive(c)
  PROVE  Numbered' /\ NotYetOpen' /\ ExclusiveUse' /\ UsableIsOpen' /\ NothingLeaks'
  <1> PICK o \in Calls : o = mine[c]
    BY DEF Receive, IInv, Shape, TypeOK
  <1> PICK x : x = Head(available[o])
    OBVIOUS
  <1>1. available[o] # <<>> /\ TakeFirst(o) /\ pc[c] = "receive"
    BY DEF Receive
  <1>2. UNCHANGED <<nextID, pools, live, rpc, drains>>
    BY DEF Receive, removers
  <1>3. /\ x \in Instances /\ x \in Idle(o) /\ (\A q \in Calls : x \notin Idle(q)')
        /\ \A q \in Calls : Idle(q)' \subseteq Idle(q) /\ Idle(q) \subseteq Idle(q)' \cup {x}
        /\ \A q \in Calls : IsInjective(available'[q])
    <2>1. TypeOK /\ (\A q \in Calls : IsInjective(available[q]))
      BY DEF IInv, Shape, ExclusiveUse
    <2>2. /\ x \in Instances /\ Idle(o) = Idle(o)' \cup {x} /\ x \notin Idle(o)'
          /\ \A q \in Calls \ {o} : available'[q] = available[q] /\ Idle(q)' = Idle(q)
          /\ IsInjective(available'[o])
      BY <1>1, <2>1, TakeOne
    <2>3. \A q \in Calls \ {o} : x \notin Idle(q)
      BY <1>1, <2>2 DEF IInv, ExclusiveUse
    <2> QED
      BY <1>1, <2>1, <2>2, <2>3
  <1>4. \A d \in Calls : /\ Holding(d)' <=> Holding(d) \/ d = c
                         /\ (Using(d) \/ Making(d))' <=> Using(d) \/ Making(d) \/ d = c
                         /\ pc'[d] = "make" => pc[d] = "make"
                         /\ held'[d] = IF d = c THEN x ELSE held[d]
    BY <1>1 DEF Receive, IInv, Shape, TypeOK, Goto, Hold, Holding, Making, Using
  <1>5. ~Holding(c)
    BY <1>1 DEF Holding, Making, Using
  <1>6. Numbered'
    BY <1>1, <1>2, <1>3, <1>4 DEF IInv, Numbered
  <1>7. ExclusiveUse'
    <2>1. \A d, e \in Calls : Holding(d)' /\ Holding(e)' /\ held'[d] = held'[e] => d = e
      BY <1>1, <1>3, <1>4 DEF IInv, ExclusiveUse
    <2>2. \A d, q \in Calls : Holding(d)' => held'[d] \notin Idle(q)'
      BY <1>1, <1>3, <1>4 DEF IInv, ExclusiveUse
    <2>3. \A q \in Calls : IsInjective(available'[q])
      BY <1>3 DEF IInv, ExclusiveUse
    <2>4. \A q, s \in Calls : Idle(q)' \cap Idle(s)' # {} => q = s
      BY <1>1, <1>3 DEF IInv, ExclusiveUse
    <2> QED
      BY <2>1, <2>2, <2>3, <2>4 DEF ExclusiveUse
  <1>8. NotYetOpen' /\ UsableIsOpen'
    <2>1. x \in live
      BY <1>1, <1>3 DEF IInv, UsableIsOpen
    <2>2. \A q \in Calls : Idle(q)' \subseteq live
      BY <1>1, <1>3 DEF IInv, UsableIsOpen
    <2>3. \A d \in Calls : pc'[d] = "make" => d # c
      BY <1>1 DEF Receive, IInv, Shape, TypeOK, Goto
    <2> QED
      BY <1>2, <1>4, <2>1, <2>2, <2>3 DEF IInv, NotYetOpen, UsableIsOpen
  <1>9. NothingLeaks'
    <2> SUFFICES ASSUME NEW y \in live
                 PROVE  \/ \E d \in Calls : Holding(d)' /\ held'[d] = y
                        \/ \E q \in Paths : pools[q] # None /\ y \in Idle(pools[q])'
                        \/ \E r \in Removers : rpc[r] = "drain" /\ \E q \in drains[r] : y \in Idle(q)'
      BY <1>2 DEF NothingLeaks, Idle
    <2>1. CASE y = x
      BY <1>4, <2>1
    <2>2. CASE y # x
      <3>1. \A q \in Calls : y \in Idle(q) => y \in Idle(q)'
        BY <1>3, <2>2
      <3>2. /\ \A q \in Paths : pools[q] # None => pools[q] \in Calls
            /\ \A r \in Removers : drains[r] \subseteq Calls
        BY DEF IInv, Shape, TypeOK
      <3>3. \A d \in Calls : Holding(d) => Holding(d)' /\ held'[d] = held[d]
        BY <1>4, <1>5
      <3> QED
        BY <1>2, <3>1, <3>2, <3>3 DEF IInv, NothingLeaks
    <2> QED
      BY <2>1, <2>2
  <1> QED
    BY <1>6, <1>7, <1>8, <1>9

\* A reservation names an instance that does not exist yet.
LEMMA ReserveStep ==
  ASSUME IInv, NEW c \in Calls, EnsureReserve(c)
  PROVE  Numbered' /\ NotYetOpen' /\ ExclusiveUse' /\ UsableIsOpen' /\ NothingLeaks'
  <1> PICK o \in Calls : o = mine[c]
    BY DEF EnsureReserve, IInv, Shape, TypeOK
  <1> PICK x : x = [pool |-> o, name |-> NameOf[c], id |-> nextID[o] + 1]
    OBVIOUS
  <1>1. nextID \in [Calls -> Nat] /\ nextID' = [nextID EXCEPT ![o] = @ + 1]
    BY DEF EnsureReserve, IInv, Shape, TypeOK
  <1>2. pc[c] = "fill" /\ UNCHANGED <<pools, available, live, rpc, drains>>
    BY DEF EnsureReserve, removers
  <1>3. \A d \in Calls : /\ Holding(d)' <=> Holding(d) \/ d = c
                         /\ (Using(d) \/ Making(d))' <=> Using(d) \/ Making(d)
                         /\ pc'[d] = "make" <=> pc[d] = "make" \/ d = c
                         /\ held'[d] = IF d = c THEN x ELSE held[d]
    BY <1>2 DEF EnsureReserve, IInv, Shape, TypeOK, Goto, Hold, Holding, Making, Using
  <1>4. ~Holding(c) /\ ~Using(c) /\ ~Making(c)
    BY <1>2 DEF Holding, Making, Using
  <1>5. \A y \in Instances : y.id <= nextID[y.pool] => y # x /\ y.id <= nextID'[y.pool]
    BY <1>1 DEF Instances
  <1>6. /\ \A d \in Calls : Holding(d) => held[d] \in Instances /\ held[d] # x
        /\ \A q \in Calls : Idle(q) \subseteq Instances /\ x \notin Idle(q)
        /\ live \subseteq Instances /\ x \notin live
    <2>1. /\ \A d \in Calls : Holding(d) => held[d] \in Instances
          /\ live \subseteq Instances
      BY DEF IInv, Shape, TypeOK
    <2>2. \A q \in Calls : Idle(q) \subseteq Instances
      BY ElementOfSeq, LenProperties DEF IInv, Shape, TypeOK, Idle, ToSet
    <2> QED
      BY <1>5, <2>1, <2>2 DEF IInv, Numbered
  <1>7. Numbered'
    <2>1. x.id <= nextID'[x.pool]
      BY <1>1
    <2>2. \A q \in Calls : Idle(q)' = Idle(q)
      BY <1>2 DEF Idle
    <2> QED
      BY <1>2, <1>3, <1>5, <1>6, <2>1, <2>2 DEF IInv, Numbered
  <1>8. ExclusiveUse'
    BY <1>2, <1>3, <1>6 DEF IInv, ExclusiveUse, Idle
  <1>9. NotYetOpen' /\ UsableIsOpen'
    BY <1>2, <1>3, <1>4, <1>6 DEF IInv, NotYetOpen, UsableIsOpen, Idle
  <1>10. NothingLeaks'
    <2>1. \A d \in Calls : Holding(d) => Holding(d)' /\ held'[d] = held[d]
      BY <1>3, <1>4
    <2> QED
      BY <1>2, <2>1 DEF IInv, NothingLeaks, Idle
  <1> QED
    BY <1>7, <1>8, <1>9, <1>10

\* The instance of a call that makes one is opened, or given up unopened.
LEMMA MakeStep ==
  ASSUME IInv, NEW c \in Calls, Instantiate(c) \/ InstantiateFails(c)
  PROVE  Numbered' /\ NotYetOpen' /\ ExclusiveUse' /\ UsableIsOpen' /\ NothingLeaks'
  <1>1. pc[c] = "make" /\ UNCHANGED <<nextID, pools, available, rpc, drains>>
    BY DEF Instantiate, InstantiateFails, removers
  <1>2. Holding(c) /\ held[c] \notin live
    BY <1>1 DEF IInv, NotYetOpen, Holding
  <1>3. \A d \in Calls : pc'[d] = "make" <=> pc[d] = "make" /\ d # c
    BY <1>1 DEF Instantiate, InstantiateFails, Goto, IInv, Shape, TypeOK
  <1>4. CASE Instantiate(c)
    <2>1. live' = live \cup {held[c]} /\ held' = held
      BY <1>4 DEF Instantiate
    <2>2. \A d \in Calls : /\ Holding(d)' <=> Holding(d)
                           /\ (Using(d) \/ Making(d))' <=> Using(d) \/ Making(d) \/ d = c
      BY <1>4 DEF Instantiate, Goto, IInv, Shape, TypeOK, Holding, Making, Using
    <2>3. Numbered' /\ ExclusiveUse'
      BY <1>1, <1>2, <2>1, <2>2 DEF IInv, Numbered, ExclusiveUse, Idle
    <2>4. NotYetOpen'
      <3>1. \A d \in Calls : pc[d] = "make" /\ d # c => held[d] # held[c]
        BY <1>2 DEF IInv, ExclusiveUse, Holding
      <3> QED
        BY <1>3, <2>1, <3>1 DEF IInv, NotYetOpen
    <2>5. UsableIsOpen'
      BY <1>1, <2>1, <2>2 DEF IInv, UsableIsOpen, Idle
    <2>6. NothingLeaks'
      BY <1>1, <1>2, <2>1, <2>2 DEF IInv, NothingLeaks, Idle
    <2> QED
      BY <2>3, <2>4, <2>5, <2>6
  <1>5. CASE InstantiateFails(c)
    <2>1. live' = live
      BY <1>5 DEF InstantiateFails
    <2>2. \A d \in Calls : /\ Holding(d)' <=> Holding(d) /\ d # c
                           /\ (Using(d) \/ Making(d))' => (Using(d) \/ Making(d)) /\ d # c
                           /\ d # c => held'[d] = held[d]
      BY <1>5 DEF InstantiateFails, Goto, Hold, IInv, Shape, TypeOK, Holding, Making,
         Using
    <2>3. Numbered' /\ ExclusiveUse'
      BY <1>1, <2>1, <2>2 DEF IInv, Numbered, ExclusiveUse, Idle
    <2>4. NotYetOpen' /\ UsableIsOpen'
      BY <1>1, <1>3, <2>1, <2>2 DEF IInv, NotYetOpen, UsableIsOpen, Idle
    <2>5. NothingLeaks'
      BY <1>1, <1>2, <2>1, <2>2 DEF IInv, NothingLeaks, Idle
    <2> QED
      BY <2>3, <2>4, <2>5
  <1> QED
    BY <1>4, <1>5

\* The instance that a call holds is closed, and the call lets go of it or is
\* about to.
LEMMA CloseStep ==
  ASSUME IInv, NEW c \in Calls, HandlerFails(c) \/ CloseInstance(c)
  PROVE  Numbered' /\ NotYetOpen' /\ ExclusiveUse' /\ UsableIsOpen' /\ NothingLeaks'
  <1> PICK x : x = held[c]
    OBVIOUS
  <1>1. /\ Holding(c) /\ pc[c] \in {"use", "close"}
        /\ UNCHANGED <<nextID, pools, available, rpc, drains>>
        /\ live' \in {live, live \ {x}}
    BY DEF HandlerFails, CloseInstance, CloseModule, removers, Holding, Making, Using
  <1>2. \A d \in Calls : /\ Holding(d)' => Holding(d)
                         /\ (Using(d) \/ Making(d))' => (Using(d) \/ Making(d)) /\ d # c
                         /\ pc'[d] = "make" => pc[d] = "make"
                         /\ d # c => (Holding(d)' <=> Holding(d)) /\ held'[d] = held[d]
    BY DEF HandlerFails, CloseInstance, Goto, Hold, IInv, Shape, TypeOK, Holding, Making,
       Using
  <1>3. \/ live' = live \ {x} /\ ~Holding(c)'
        \/ Holding(c)' /\ held' = held
    BY DEF HandlerFails, CloseInstance, CloseModule, Goto, Hold, IInv, Shape, TypeOK,
       Holding, Making, Using
  <1>4. \A d \in Calls : Holding(d)' => held'[d] = held[d]
    BY <1>2, <1>3
  <1>5. Numbered' /\ ExclusiveUse'
    BY <1>1, <1>2, <1>4 DEF IInv, Numbered, ExclusiveUse, Idle
  <1>6. NotYetOpen'
    BY <1>1, <1>2, <1>4 DEF IInv, NotYetOpen, Holding
  <1>7. UsableIsOpen'
    <2>1. \A d \in Calls : d # c /\ Holding(d) => held[d] # x
      BY <1>1 DEF IInv, ExclusiveUse
    <2>2. \A q \in Calls : x \notin Idle(q)
      BY <1>1 DEF IInv, ExclusiveUse
    <2> QED
      BY <1>1, <1>2, <2>1, <2>2 DEF IInv, UsableIsOpen, Idle, Holding
  <1>8. NothingLeaks'
    BY <1>1, <1>2, <1>3 DEF IInv, NothingLeaks, Idle
  <1> QED
    BY <1>5, <1>6, <1>7, <1>8

\* An eviction closes what is idle in the pools it has taken from the map.
LEMMA EvictStep ==
  ASSUME IInv, NEW r \in Removers, Evict(r)
  PROVE  Numbered' /\ NotYetOpen' /\ ExclusiveUse' /\ UsableIsOpen' /\ NothingLeaks'
  <1>1. UNCHANGED <<pc, held, nextID>>
    BY DEF Evict, RemovePool, Drain, RemoveDone
  <1>2. \A d \in Calls : /\ Holding(d)' <=> Holding(d)
                         /\ (Using(d) \/ Making(d))' <=> Using(d) \/ Making(d)
    BY <1>1 DEF Holding, Making, Using
  <1>3. CASE RemovePool(r)
    <2> DEFINE removed == {pools[p] : p \in TargetOf[r]} \ {None}
    <2>1. UNCHANGED <<available, live>> /\ TargetOf[r] \subseteq Paths
      BY <1>3, UseAssumption DEF RemovePool
    <2>2. Numbered' /\ NotYetOpen' /\ ExclusiveUse' /\ UsableIsOpen'
      BY <1>1, <1>2, <2>1 DEF IInv, Numbered, NotYetOpen, ExclusiveUse, UsableIsOpen, Idle
    <2>3. \A p \in Paths : pools[p] # None => pools'[p] = pools[p] \/ pools[p] \in removed
      BY <1>3 DEF RemovePool
    <2>4. rpc[r] = "idle" /\ rpc'[r] = "drain" /\ drains'[r] = removed
      BY <1>3 DEF RemovePool, IInv, Shape, TypeOK
    <2>5. \A s \in Removers : s # r => rpc'[s] = rpc[s] /\ drains'[s] = drains[s]
      BY <1>3 DEF RemovePool, IInv, Shape, TypeOK
    <2>6. NothingLeaks'
      <3> HIDE DEF removed
      <3> QED
        BY <1>1, <1>2, <2>1, <2>3, <2>4, <2>5 DEF IInv, NothingLeaks, Idle
    <2> QED
      BY <2>2, <2>6
  <1>4. CASE Drain(r)
    <2>1. PICK o \in drains[r] : available[o] # <<>> /\ live' = live \ {Head(available[o])} /\ TakeFirst(o)
      BY <1>4 DEF Drain
    <2> PICK x : x = Head(available[o])
      OBVIOUS
    <2>2. o \in Calls /\ UNCHANGED <<pools, rpc, drains>>
      BY <1>4, <2>1 DEF Drain, removers, IInv, Shape, TypeOK
    <2>3. TypeOK /\ (\A q \in Calls : IsInjective(available[q]))
      BY DEF IInv, Shape, ExclusiveUse
    <2>4. /\ x \in Idle(o) /\ Idle(o) = Idle(o)' \cup {x} /\ x \notin Idle(o)'
          /\ \A q \in Calls \ {o} : available'[q] = available[q] /\ Idle(q)' = Idle(q)
          /\ IsInjective(available'[o])
      BY <2>1, <2>2, <2>3, TakeOne
    <2>5. \A q \in Calls : x \notin Idle(q)'
      BY <2>2, <2>4 DEF IInv, ExclusiveUse
    <2>6. /\ \A q \in Calls : Idle(q)' \subseteq Idle(q) /\ Idle(q) \subseteq Idle(q)' \cup {x}
          /\ \A q \in Calls : IsInjective(available'[q])
      BY <2>2, <2>3, <2>4
    <2>7. \A d \in Calls : Holding(d) => held[d] # x
      BY <2>2, <2>4 DEF IInv, ExclusiveUse
    <2>8. Numbered' /\ NotYetOpen'
      BY <1>1, <1>2, <2>1, <2>6 DEF IInv, Numbered, NotYetOpen
    <2>9. ExclusiveUse'
      BY <1>1, <1>2, <2>6 DEF IInv, ExclusiveUse
    <2>10. UsableIsOpen'
      BY <1>1, <1>2, <2>1, <2>5, <2>6, <2>7 DEF IInv, UsableIsOpen, Holding
    <2>11. NothingLeaks'
      <3>1. /\ \A q \in Paths : pools[q] # None => pools[q] \in Calls
            /\ \A s \in Removers : drains[s] \subseteq Calls
        BY DEF IInv, Shape, TypeOK
      <3> QED
        BY <1>1, <1>2, <2>1, <2>2, <2>6, <3>1 DEF IInv, NothingLeaks
    <2> QED
      BY <2>8, <2>9, <2>10, <2>11
  <1>5. CASE RemoveDone(r)
    <2>1. UNCHANGED <<pools, available, live, drains>>
      BY <1>5 DEF RemoveDone
    <2>2. Numbered' /\ NotYetOpen' /\ ExclusiveUse' /\ UsableIsOpen'
      BY <1>1, <1>2, <2>1 DEF IInv, Numbered, NotYetOpen, ExclusiveUse, UsableIsOpen, Idle
    <2>3. \A o \in drains[r] : Idle(o) = {}
      BY <1>5 DEF RemoveDone, Idle, ToSet
    <2>4. \A s \in Removers : rpc[s] = "drain" /\ s # r => rpc'[s] = "drain"
      BY <1>5 DEF RemoveDone, IInv, Shape, TypeOK
    <2>5. NothingLeaks'
      BY <1>1, <1>2, <2>1, <2>3, <2>4 DEF IInv, NothingLeaks, Idle
    <2> QED
      BY <2>2, <2>5
  <1> QED
    BY <1>3, <1>4, <1>5 DEF Evict

\* Every step of a call is one of those above.
LEMMA CallStep ==
  ASSUME IInv, NEW c \in Calls, Ensure(c) \/ Acquire(c) \/ Use(c) \/ Release(c)
  PROVE  Numbered' /\ NotYetOpen' /\ ExclusiveUse' /\ UsableIsOpen' /\ NothingLeaks'
  <1> DEFINE Quiet(l) ==
        /\ Goto(c, l) /\ (Holding(c)' <=> Holding(c))
        /\ (Using(c) \/ Making(c))' => Using(c) \/ Making(c)
        /\ UNCHANGED <<held, nextID, available, live, rpc, drains>>
        /\ \A p \in Paths : pools[p] # None => pools'[p] = pools[p]
  <1>1. pc \in [Calls -> CallStates] /\ pools \in [Paths -> Calls \cup {None}]
    BY DEF IInv, Shape, TypeOK
  <1>2. ASSUME NEW l, Quiet(l), l # "make"
        PROVE  Numbered' /\ NotYetOpen' /\ ExclusiveUse' /\ UsableIsOpen' /\ NothingLeaks'
    BY <1>2, QuietStep
  <1>3. CASE EnsurePool(c)
    <2>1. Quiet("lock")
      BY <1>1, <1>3 DEF EnsurePool, Current, Goto, Holding, Making, Using, removers
    <2> QED
      BY <1>2, <2>1
  <1>4. CASE EnsureLock(c)
    <2>1. Quiet("fill")
      BY <1>1, <1>4 DEF EnsureLock, Goto, Holding, Making, Using, removers
    <2> QED
      BY <1>2, <2>1
  <1>5. CASE EnsureReplaced(c)
    <2>1. Quiet("returned")
      BY <1>1, <1>5 DEF EnsureReplaced, Goto, Holding, Making, Using, removers
    <2> QED
      BY <1>2, <2>1
  <1>6. CASE EnsureUndo(c)
    <2>1. Quiet("returned")
      BY <1>1, <1>6 DEF EnsureUndo, Goto, Holding, Making, Using, removers
    <2> QED
      BY <1>2, <2>1
  <1>7. CASE EnsureOrphaned(c)
    <2>1. Quiet("close")
      BY <1>1, <1>7 DEF EnsureOrphaned, Goto, Holding, Making, Using, removers
    <2> QED
      BY <1>2, <2>1
  <1>8. CASE EnsureBlocked(c)
    <2>1. Quiet("send")
      BY <1>1, <1>8 DEF EnsureBlocked, Goto, Holding, Making, Using, removers
    <2> QED
      BY <1>2, <2>1
  <1>9. CASE AcquireNoPool(c)
    <2>1. Quiet("returned")
      BY <1>1, <1>9 DEF AcquireNoPool, Goto, Holding, Making, Using, removers
    <2> QED
      BY <1>2, <2>1
  <1>10. CASE AcquirePool(c)
    <2>1. Quiet("receive")
      BY <1>1, <1>10 DEF AcquirePool, Goto, Holding, Making, Using, removers
    <2> QED
      BY <1>2, <2>1
  <1>11. CASE ReceiveClosed(c)
    <2>1. Quiet("returned")
      BY <1>1, <1>11 DEF ReceiveClosed, Goto, Holding, Making, Using, removers
    <2> QED
      BY <1>2, <2>1
  <1>12. CASE GiveUp(c)
    <2>1. Quiet("returned")
      BY <1>1, <1>12 DEF GiveUp, Goto, Holding, Making, Using, removers
    <2> QED
      BY <1>2, <2>1
  <1>13. CASE HandlerReturns(c)
    <2>1. Quiet("reuse")
      BY <1>1, <1>13 DEF HandlerReturns, Goto, Holding, Making, Using, removers
    <2> QED
      BY <1>2, <2>1
  <1>14. CASE ReleaseDiscarded(c)
    <2>1. Quiet("close")
      BY <1>1, <1>14 DEF ReleaseDiscarded, Goto, Holding, Making, Using, removers
    <2> QED
      BY <1>2, <2>1
  <1>15. CASE EnsureFilled(c)
    <2>1. PICK l \in {"acquire", "returned"} : Goto(c, l)
      BY <1>15 DEF EnsureFilled
    <2>2. Quiet(l)
      BY <1>1, <1>15, <2>1 DEF EnsureFilled, Goto, Holding, Making, Using, removers
    <2> QED
      BY <1>2, <2>2
  <1>16. CASE EnsurePut(c)
    <2>1. /\ PathOf[c] \in Paths /\ pools[PathOf[c]] = mine[c] /\ pools[PathOf[c]] # None
          /\ Using(c) \/ Making(c)
      BY <1>16, UseAssumption DEF EnsurePut, IsCurrent, Current, IInv, Shape, TypeOK,
         Using, Making
    <2>2. /\ HasRoom(pools[PathOf[c]]) /\ Push(pools[PathOf[c]], held[c])
          /\ Goto(c, "fill") /\ Hold(c, None) /\ UNCHANGED <<nextID, pools, live, rpc, drains>>
      BY <1>16, <2>1 DEF EnsurePut, Current, removers
    <2> QED
      BY <2>1, <2>2, PutBackStep
  <1>17. CASE EnsureSend(c)
    <2>1. /\ PathOf[c] \in Paths /\ pools[PathOf[c]] = mine[c] /\ pools[PathOf[c]] # None
          /\ Using(c) \/ Making(c)
      BY <1>17, UseAssumption DEF EnsureSend, IsCurrent, Current, Locked, IInv, Shape,
         TypeOK, Using, Making
    <2>2. /\ HasRoom(pools[PathOf[c]]) /\ Push(pools[PathOf[c]], held[c])
          /\ Goto(c, "fill") /\ Hold(c, None) /\ UNCHANGED <<nextID, pools, live, rpc, drains>>
      BY <1>17, <2>1 DEF EnsureSend, Current, removers
    <2> QED
      BY <2>1, <2>2, PutBackStep
  <1>18. CASE ReleaseReused(c)
    <2>1. /\ PathOf[c] \in Paths /\ pools[PathOf[c]] = Current(c) /\ pools[PathOf[c]] # None
          /\ Using(c) \/ Making(c)
      BY <1>18, UseAssumption DEF ReleaseReused, Current, IInv, Shape, TypeOK, Using,
         Making
    <2>2. /\ HasRoom(pools[PathOf[c]]) /\ Push(pools[PathOf[c]], held[c])
          /\ Goto(c, "returned") /\ Hold(c, None) /\ UNCHANGED <<nextID, pools, live, rpc, drains>>
      BY <1>18, <2>1 DEF ReleaseReused, Current, removers
    <2> QED
      BY <2>1, <2>2, PutBackStep
  <1>19. CASE Instantiate(c) \/ InstantiateFails(c)
    BY <1>19, MakeStep
  <1>20. CASE HandlerFails(c) \/ CloseInstance(c)
    BY <1>20, CloseStep
  <1>21. CASE EnsureReserve(c)
    BY <1>21, ReserveStep
  <1>22. CASE Receive(c)
    BY <1>22, ReceiveStep
  <1> QED
    BY <1>3, <1>4, <1>5, <1>6, <1>7, <1>8, <1>9, <1>10, <1>11, <1>12,
       <1>13, <1>14, <1>15, <1>16, <1>17, <1>18, <1>19, <1>20, <1>21, <1>22
       DEF Ensure, Acquire, Use, Release

LEMMA InitInv == Init => IInv
  <1> SUFFICES ASSUME Init PROVE IInv
    OBVIOUS
  <1>1. \A o \in Calls : available[o] = <<>> /\ Idle(o) = {}
    BY DEF Init, Idle, ToSet
  <1>2. \A c \in Calls : ~Holding(c) /\ ~Using(c) /\ ~Making(c) /\ pc[c] # "make"
    BY DEF Init, Holding, Using, Making
  <1>3. live = {}
    BY DEF Init
  <1>4. Numbered /\ NotYetOpen /\ UsableIsOpen /\ NothingLeaks
    BY <1>1, <1>2, <1>3 DEF Numbered, NotYetOpen, UsableIsOpen, NothingLeaks
  <1>5. ExclusiveUse
    <2>1. IsInjective(<<>>)
      BY DEF IsInjective
    <2> QED
      BY <1>1, <1>2, <2>1 DEF ExclusiveUse
  <1> QED
    BY <1>4, <1>5, InitShape DEF IInv

LEMMA NextInv == IInv /\ [Next]_vars => IInv'
  <1> SUFFICES ASSUME IInv, [Next]_vars PROVE IInv'
    OBVIOUS
  <1>1. CASE UNCHANGED vars
    <2>1. Numbered' /\ NotYetOpen' /\ ExclusiveUse' /\ UsableIsOpen' /\ NothingLeaks'
      BY <1>1 DEF vars, removers, IInv, Numbered, NotYetOpen, ExclusiveUse, UsableIsOpen,
         NothingLeaks,
                  Idle, Holding, Using, Making
    <2> QED
      BY <2>1, NextShape DEF IInv
  <1>2. CASE Finished
    BY <1>1, <1>2 DEF Finished
  <1> QED
    BY <1>1, <1>2, NextShape, CallStep, EvictStep DEF Next, IInv

\* What the pools are proved to guarantee, together.
THEOREM Invariance == Spec => []IInv
  BY InitInv, NextInv, PTL DEF Spec

\* An instance is with one call or in one channel, once (ExclusiveUse): no two
\* invocations ever share a handler's memory, whatever evictions and replacement
\* pools did in between (proto_store.go:233-274).
THEOREM OneUserEach == Spec => []ExclusiveUse
  <1>1. IInv => ExclusiveUse
    BY DEF IInv
  <1> QED
    BY <1>1, Invariance, PTL

\* What a call works with and what a channel offers is open (UsableIsOpen): only
\* its user, or the eviction that took it from a channel, closes an instance
\* (proto_store.go:268-321).
THEOREM NeverUsesClosed == Spec => []UsableIsOpen
  <1>1. IInv => UsableIsOpen
    BY DEF IInv
  <1> QED
    BY <1>1, Invariance, PTL

\* An open instance is always with a call that gives it back or closes it, or in
\* a channel that will be used or drained (NothingLeaks; proto_store.go:195-321).
THEOREM NoInstanceLeaks == Spec => []NothingLeaks
  <1>1. IInv => NothingLeaks
    BY DEF IInv
  <1> QED
    BY <1>1, Invariance, PTL

\* Nothing is sent to a channel that was closed (ClosedOnlyDrains), which would
\* crash the process: a send is to the pool in the map, under the mutex under
\* which a pool leaves the map and its channel is closed (proto_store.go:221-312).
THEOREM NeverSendsOnClosed == Spec => ClosedOnlyDrains
  <1> DEFINE Shrinks == \A o \in closed : Len(available'[o]) <= Len(available[o])
  <1>1. ASSUME Shape, [Next]_vars PROVE [Shrinks]_vars
    <2> SUFFICES ASSUME NEW o \in closed PROVE Len(available'[o]) <= Len(available[o])
      OBVIOUS
    <2>1. o \in Calls /\ Len(available[o]) \in Nat /\ (\A p \in Paths : pools[p] # o)
      BY <1>1, LenProperties DEF Shape, TypeOK
    <2>2. ASSUME available'[o] = available[o] PROVE Len(available'[o]) <= Len(available[o])
      BY <2>1, <2>2
    <2>3. ASSUME NEW q \in Calls, available[q] # <<>>, TakeFirst(q)
          PROVE  Len(available'[o]) <= Len(available[o])
      <3>1. CASE q = o
        <4>1. Len(available'[o]) = Len(available[o]) - 1
          BY <1>1, <2>1, <2>3, <3>1, HeadTailProperties DEF TakeFirst, Shape, TypeOK
        <4> QED
          BY <2>1, <4>1
      <3>2. CASE q # o
        BY <1>1, <2>1, <2>2, <2>3, <3>2 DEF TakeFirst, Shape, TypeOK
      <3> QED
        BY <3>1, <3>2
    <2>4. ASSUME NEW c \in Calls, EnsurePut(c) \/ EnsureSend(c) \/ ReleaseReused(c)
          PROVE  available'[o] = available[o]
      <3>1. /\ mine[c] # o \/ ~(EnsurePut(c) \/ EnsureSend(c))
            /\ Current(c) # o
        BY <1>1, <2>1, UseAssumption DEF EnsurePut, EnsureSend, Shape, Locked, IsCurrent,
           Current
      <3> QED
        BY <1>1, <2>1, <2>4, <3>1 DEF EnsurePut, EnsureSend, ReleaseReused, Push, Shape,
           TypeOK
    <2>5. ASSUME NEW c \in Calls, Receive(c) PROVE Len(available'[o]) <= Len(available[o])
      BY <1>1, <2>3, <2>5 DEF Receive, Shape, TypeOK
    <2>6. ASSUME NEW r \in Removers, Drain(r) PROVE Len(available'[o]) <= Len(available[o])
      BY <1>1, <2>3, <2>6 DEF Drain, Shape, TypeOK
    <2>7. CASE UNCHANGED available
      BY <2>2, <2>7
    <2>8. ASSUME Next, available' # available
          PROVE  \/ \E c \in Calls : EnsurePut(c) \/ EnsureSend(c) \/ ReleaseReused(c) \/ Receive(c)
                 \/ \E r \in Removers : Drain(r)
      BY <2>8 DEF Next, Ensure, Acquire, Use, Release, Evict, EnsurePool, EnsureLock,
         EnsureReplaced,
        EnsureFilled, EnsureReserve, Instantiate, InstantiateFails, EnsureUndo, EnsureOrphaned,
        EnsureBlocked, AcquireNoPool, AcquirePool, ReceiveClosed, GiveUp, HandlerReturns,
        HandlerFails, ReleaseDiscarded, CloseInstance, RemovePool, RemoveDone, Finished, vars
    <2> QED
      BY <1>1, <2>2, <2>4, <2>5, <2>6, <2>7, <2>8 DEF vars
  <1> QED
    BY <1>1, InitShape, NextShape, PTL DEF Spec, ClosedOnlyDrains
=============================================================================

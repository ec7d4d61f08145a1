---------------------------- MODULE InstancePool ----------------------------
(***************************************************************************)
(* The pools of reusable handler instances of internal/runtime/            *)
(* proto_store.go (instancePoolStore), driven as invokeHandler drives      *)
(* them: ensure, acquire, run the handler, release; and evictions, which   *)
(* remove a pool, or all of them when the engine closes.                   *)
(*                                                                         *)
(* A section under the store's mutex is one step. The mutex is a variable  *)
(* only because ensure may block on a full channel with the mutex held.    *)
(* Wazero is external: it instantiates a module under a name that no live  *)
(* module has, and frees the name when the module is closed.               *)
(*                                                                         *)
(* A pool object is named by the call that created it, an instance by its  *)
(* pool, the function name it was made for and its number. All calls of    *)
(* one engine ask for the same pool size, so that the capacity check of    *)
(* ensure never fails. A definition marked (slip) is not part of the       *)
(* model but a plausible mistake in the one after it.                      *)
(***************************************************************************)
EXTENDS Integers, Sequences, FiniteSets

CONSTANTS
  Calls,     \* invocations of handler functions, and preloads
  Preloads,  \* the calls that only ensure, to have the pool filled in advance
  Removers,  \* evictions, and the engine's close
  Paths,     \* paths of stored modules, the keys of the pools
  PathOf,    \* PathOf[c]: the module that call c runs
  NameOf,    \* NameOf[c]: its function name; a redeployed name has a new path
  TargetOf,  \* TargetOf[r]: the paths that remover r removes: one, or all
  Size,      \* EngineConfig.HandlerPoolSize
  None

ASSUME SizeAssumption == Size \in Nat \ {0}

ASSUME UseAssumption ==
  /\ PathOf \in [Calls -> Paths]
  /\ Preloads \subseteq Calls
  /\ TargetOf \in [Removers -> SUBSET Paths]
  /\ IsFiniteSet(Calls)
  /\ None \notin Calls

VARIABLES
  pc,        \* pc[c]: where call c stands
  mine,      \* mine[c]: the pool object c works with
  held,      \* held[c]: the instance c makes, uses or closes
  pools,     \* pools[p]: s.pools
  total, nextID,  \* total[o], nextID[o]: the counters of pool object o
  available, \* available[o]: its channel
  closed,    \* the pool objects whose channel is closed
  creator,   \* creator[o]: who holds createMu
  mu,        \* who holds s.mu while it waits for room in a channel
  live,      \* the instances that are open in Wazero's runtime
  rpc, drains \* rpc[r], drains[r]: where remover r stands, the pools it drains

vars == <<pc, mine, held, pools, total, nextID, available, closed, creator, mu,
          live, rpc, drains>>

CallStates == {"start", "lock", "fill", "make", "undo", "put", "send", "acquire",
               "receive", "use", "reuse", "discard", "close", "returned"}
RemoverStates == {"idle", "drain", "done"}

removers == <<rpc, drains>>

-----------------------------------------------------------------------------
Init ==
  /\ pc = [c \in Calls |-> "start"]
  /\ mine = [c \in Calls |-> None]
  /\ held = [c \in Calls |-> None]
  /\ pools = [p \in Paths |-> None]
  /\ total = [o \in Calls |-> 0]
  /\ nextID = [o \in Calls |-> 0]
  /\ available = [o \in Calls |-> <<>>]
  /\ closed = {}
  /\ creator = [o \in Calls |-> None]
  /\ mu = None
  /\ live = {}
  /\ rpc = [r \in Removers |-> "idle"]
  /\ drains = [r \in Removers |-> {}]

Goto(c, label) == pc' = [pc EXCEPT ![c] = label]

\* The pool that the map holds for the path of call c, perhaps none.
Current(c) == pools[PathOf[c]]

\* (slip) a channel with room for one instance more than the pool's capacity.
RoomForOneMore(o) == Len(available[o]) <= Size

HasRoom(o) == Len(available[o]) < Size

Push(o, x) == available' = [available EXCEPT ![o] = Append(@, x)]
Hold(c, x) == held' = [held EXCEPT ![c] = x]

-----------------------------------------------------------------------------
(* ensure *)

\* Find the pool of the path or make one. A pool in the map is not closed.
EnsurePool(c) ==
  /\ pc[c] = "start" /\ mu = None
  /\ LET o == IF Current(c) = None THEN c ELSE Current(c)
     IN  /\ pools' = [pools EXCEPT ![PathOf[c]] = o]
         /\ mine' = [mine EXCEPT ![c] = o]
  /\ Goto(c, "lock")
  /\ UNCHANGED <<held, total, nextID, available, closed, creator, mu, live, removers>>

EnsureLock(c) ==
  /\ pc[c] = "lock" /\ creator[mine[c]] = None
  /\ creator' = [creator EXCEPT ![mine[c]] = c]
  /\ Goto(c, "fill")
  /\ UNCHANGED <<mine, held, pools, total, nextID, available, closed, mu, live, removers>>

\* (slip) a return path without createMu.Unlock().
KeepCreateLock(c) == UNCHANGED creator

\* The deferred createMu.Unlock, for a call that holds one.
UnlockCreate(c) ==
  creator' = [o \in Calls |-> IF creator[o] = c THEN None ELSE creator[o]]

\* (slip) ensure does not look at the map again.
AlwaysCurrent(c) == TRUE

IsCurrent(c) == Current(c) = mine[c]

EnsureReplaced(c) ==
  /\ pc[c] = "fill" /\ mu = None /\ ~IsCurrent(c)
  /\ UnlockCreate(c)
  /\ Goto(c, "returned")
  /\ UNCHANGED <<mine, held, pools, total, nextID, available, closed, mu, live, removers>>

EnsureFilled(c) ==
  /\ pc[c] = "fill" /\ mu = None /\ IsCurrent(c)
  /\ total[mine[c]] >= Size
  /\ UnlockCreate(c)
  /\ Goto(c, IF c \in Preloads THEN "returned" ELSE "acquire")
  /\ UNCHANGED <<mine, held, pools, total, nextID, available, closed, mu, live, removers>>

\* Reserve a place and a number before the instance exists.
EnsureReserve(c) ==
  LET o == mine[c] IN
  /\ pc[c] = "fill" /\ mu = None /\ IsCurrent(c)
  /\ total[o] < Size
  /\ total' = [total EXCEPT ![o] = @ + 1]
  /\ nextID' = [nextID EXCEPT ![o] = @ + 1]
  /\ Hold(c, [pool |-> o, name |-> NameOf[c], id |-> nextID[o] + 1])
  /\ Goto(c, "make")
  /\ UNCHANGED <<mine, pools, available, closed, creator, mu, live, removers>>

\* Wazero refuses a name that a live module has.
NameTaken(x) == \E y \in live : y.name = x.name /\ y.id = x.id

Instantiate(c) ==
  /\ pc[c] = "make" /\ ~NameTaken(held[c])
  /\ live' = live \cup {held[c]}
  /\ Goto(c, "put")
  /\ UNCHANGED <<mine, held, pools, total, nextID, available, closed, creator, mu, removers>>

\* The name is taken, or the compiled module was closed by an eviction, or the
\* context ended: whatever the reason, there is no instance.
InstantiateFails(c) ==
  /\ pc[c] = "make"
  /\ Hold(c, None)
  /\ Goto(c, "undo")
  /\ UNCHANGED <<mine, pools, total, nextID, available, closed, creator, mu, live, removers>>

\* (slip) a failed instantiation keeps its place.
KeepReservation(c) == UNCHANGED total

ReturnReservation(c) == total' = [total EXCEPT ![mine[c]] = @ - 1]

EnsureUndo(c) ==
  /\ pc[c] = "undo" /\ mu = None
  /\ ReturnReservation(c)
  /\ UnlockCreate(c)
  /\ Goto(c, "returned")
  /\ UNCHANGED <<mine, held, pools, nextID, available, closed, mu, live, removers>>

\* The pool was removed while the instance was made.
EnsureOrphaned(c) ==
  /\ pc[c] = "put" /\ mu = None /\ ~IsCurrent(c)
  /\ ReturnReservation(c)
  /\ Goto(c, "close")
  /\ UNCHANGED <<mine, held, pools, nextID, available, closed, creator, mu, live, removers>>

EnsurePut(c) ==
  /\ pc[c] = "put" /\ mu = None /\ IsCurrent(c) /\ HasRoom(mine[c])
  /\ Push(mine[c], held[c])
  /\ Hold(c, None)
  /\ Goto(c, "fill")
  /\ UNCHANGED <<mine, pools, total, nextID, closed, creator, mu, live, removers>>

\* The channel is full: the send blocks, and keeps s.mu locked.
EnsureBlocked(c) ==
  /\ pc[c] = "put" /\ mu = None /\ IsCurrent(c) /\ ~HasRoom(mine[c])
  /\ mu' = c
  /\ Goto(c, "send")
  /\ UNCHANGED <<mine, held, pools, total, nextID, available, closed, creator, live, removers>>

EnsureSend(c) ==
  /\ pc[c] = "send" /\ HasRoom(mine[c])
  /\ Push(mine[c], held[c])
  /\ Hold(c, None)
  /\ mu' = None
  /\ Goto(c, "fill")
  /\ UNCHANGED <<mine, pools, total, nextID, closed, creator, live, removers>>

-----------------------------------------------------------------------------
(* acquire *)

AcquireNoPool(c) ==
  /\ pc[c] = "acquire" /\ mu = None /\ Current(c) = None
  /\ Goto(c, "returned")
  /\ UNCHANGED <<mine, held, pools, total, nextID, available, closed, creator, mu, live, removers>>

AcquirePool(c) ==
  /\ pc[c] = "acquire" /\ mu = None /\ Current(c) # None
  /\ mine' = [mine EXCEPT ![c] = Current(c)]
  /\ Goto(c, "receive")
  /\ UNCHANGED <<held, pools, total, nextID, available, closed, creator, mu, live, removers>>

\* (slip) the instance is handed out and left in the channel.
PeekFirst(o) == UNCHANGED available

TakeFirst(o) == available' = [available EXCEPT ![o] = Tail(@)]

\* A closed channel gives away what it still holds.
Receive(c) ==
  /\ pc[c] = "receive" /\ available[mine[c]] # <<>>
  /\ Hold(c, Head(available[mine[c]]))
  /\ TakeFirst(mine[c])
  /\ Goto(c, "use")
  /\ UNCHANGED <<mine, pools, total, nextID, closed, creator, mu, live, removers>>

ReceiveClosed(c) ==
  /\ pc[c] = "receive" /\ available[mine[c]] = <<>> /\ mine[c] \in closed
  /\ Goto(c, "returned")
  /\ UNCHANGED <<mine, held, pools, total, nextID, available, closed, creator, mu, live, removers>>

\* The invocation's timeout ends the wait, even when an instance has just come.
GiveUp(c) ==
  /\ pc[c] = "receive"
  /\ Goto(c, "returned")
  /\ UNCHANGED <<mine, held, pools, total, nextID, available, closed, creator, mu, live, removers>>

-----------------------------------------------------------------------------
(* The handler, and release. *)

\* Allocation, handler and reset all succeeded: the instance may be used again.
HandlerReturns(c) ==
  /\ pc[c] = "use"
  /\ Goto(c, "reuse")
  /\ UNCHANGED <<mine, held, pools, total, nextID, available, closed, creator, mu, live, removers>>

\* Something failed: a trap, a bad response, a reset that did not return 0, or
\* a context that ended, for which Wazero closes the module at once.
HandlerFails(c) ==
  /\ pc[c] = "use"
  /\ live' \in {live, live \ {held[c]}}
  /\ Goto(c, "discard")
  /\ UNCHANGED <<mine, held, pools, total, nextID, available, closed, creator, mu, removers>>

ReleaseReused(c) ==
  /\ pc[c] = "reuse" /\ mu = None
  /\ Current(c) # None /\ HasRoom(Current(c))
  /\ Push(Current(c), held[c])
  /\ Hold(c, None)
  /\ Goto(c, "returned")
  /\ UNCHANGED <<mine, pools, total, nextID, closed, creator, mu, live, removers>>

\* The pool of the path, if there is one, counts one instance less.
Discount(c) ==
  total' = [o \in Calls |->
              IF o = Current(c) /\ total[o] > 0 THEN total[o] - 1 ELSE total[o]]

\* Not reusable, no pool, or no room: the instance goes.
ReleaseDiscarded(c) ==
  /\ mu = None
  /\ \/ pc[c] = "discard"
     \/ pc[c] = "reuse" /\ Current(c) = None
     \/ pc[c] = "reuse" /\ Current(c) # None /\ ~HasRoom(Current(c))
  /\ Discount(c)
  /\ Goto(c, "close")
  /\ UNCHANGED <<mine, held, pools, nextID, available, closed, creator, mu, live, removers>>

\* (slip) the discarded instance is not closed.
LeaveOpen(c) == UNCHANGED live

CloseModule(c) == live' = live \ {held[c]}

\* module.Close, after the unlock; then the deferred unlock of ensure, if any.
CloseInstance(c) ==
  /\ pc[c] = "close"
  /\ CloseModule(c)
  /\ Hold(c, None)
  /\ UnlockCreate(c)
  /\ Goto(c, "returned")
  /\ UNCHANGED <<mine, pools, total, nextID, available, closed, mu, removers>>

-----------------------------------------------------------------------------
(* remove and close *)

\* Only the idle instances are closed, by what follows; those in use stay open.
RemovePool(r) ==
  LET removed == {pools[p] : p \in TargetOf[r]} \ {None} IN
  /\ rpc[r] = "idle" /\ mu = None
  /\ pools' = [p \in Paths |-> IF p \in TargetOf[r] THEN None ELSE pools[p]]
  /\ closed' = closed \cup removed
  /\ drains' = [drains EXCEPT ![r] = removed]
  /\ rpc' = [rpc EXCEPT ![r] = "drain"]
  /\ UNCHANGED <<pc, mine, held, total, nextID, available, creator, mu, live>>

\* closePool receives what is left in the channels and closes it.
Drain(r) ==
  /\ rpc[r] = "drain"
  /\ \E o \in drains[r] :
       /\ available[o] # <<>>
       /\ live' = live \ {Head(available[o])}
       /\ TakeFirst(o)
  /\ UNCHANGED <<pc, mine, held, pools, total, nextID, closed, creator, mu, removers>>

RemoveDone(r) ==
  /\ rpc[r] = "drain"
  /\ \A o \in drains[r] : available[o] = <<>>
  /\ rpc' = [rpc EXCEPT ![r] = "done"]
  /\ UNCHANGED <<pc, mine, held, pools, total, nextID, available, closed, creator,
                 mu, live, drains>>

-----------------------------------------------------------------------------
Ensure(c) ==
  \/ EnsurePool(c) \/ EnsureLock(c) \/ EnsureReplaced(c) \/ EnsureFilled(c)
  \/ EnsureReserve(c) \/ Instantiate(c) \/ InstantiateFails(c) \/ EnsureUndo(c)
  \/ EnsureOrphaned(c) \/ EnsurePut(c) \/ EnsureBlocked(c) \/ EnsureSend(c)

Acquire(c) ==
  \/ AcquireNoPool(c) \/ AcquirePool(c)
  \/ Receive(c) \/ ReceiveClosed(c) \/ GiveUp(c)

Use(c) == HandlerReturns(c) \/ HandlerFails(c)

Release(c) == ReleaseReused(c) \/ ReleaseDiscarded(c) \/ CloseInstance(c)

Evict(r) == RemovePool(r) \/ Drain(r) \/ RemoveDone(r)

Finished ==
  /\ \A c \in Calls : pc[c] = "returned"
  /\ \A r \in Removers : rpc[r] = "done"
  /\ UNCHANGED vars

Next ==
  \/ \E c \in Calls : Ensure(c) \/ Acquire(c) \/ Use(c) \/ Release(c)
  \/ \E r \in Removers : Evict(r)
  \/ Finished

Spec == Init /\ [][Next]_vars

(***************************************************************************)
(* Fairness. Every goroutine that can run runs. A sync.Mutex is handed     *)
(* over after 1 ms (its starvation mode), hence SF on the steps that take  *)
(* one. A handler returns and a wait for an instance ends because every    *)
(* invocation runs under a timeout. Nothing obliges an eviction to happen. *)
(***************************************************************************)
Fairness ==
  /\ \A c \in Calls :
       /\ WF_vars(Ensure(c) \/ Acquire(c) \/ Use(c) \/ Release(c))
       /\ SF_vars(EnsureLock(c))
       /\ SF_vars(EnsurePool(c) \/ EnsureReplaced(c) \/ EnsureFilled(c)
                  \/ EnsureReserve(c) \/ EnsureUndo(c) \/ EnsureOrphaned(c)
                  \/ EnsurePut(c) \/ EnsureBlocked(c) \/ AcquireNoPool(c)
                  \/ AcquirePool(c) \/ ReleaseReused(c) \/ ReleaseDiscarded(c))
  /\ \A r \in Removers : WF_vars(Drain(r) \/ RemoveDone(r))

FairSpec == Spec /\ Fairness
=============================================================================

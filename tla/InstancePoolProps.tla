-------------------------- MODULE InstancePoolProps --------------------------
(***************************************************************************)
(* What the instance pools must guarantee, and two things the              *)
(* documentation says of them that the code does not do.                   *)
(***************************************************************************)
EXTENDS InstancePool, SequencesExt

Instances == [pool : Calls, name : {NameOf[c] : c \in Calls}, id : Nat \ {0}]

\* The calls that have an open instance of their own.
Making(c) == pc[c] \in {"put", "send"}
Using(c)  == pc[c] \in {"use", "reuse"}
Holding(c) == Making(c) \/ Using(c) \/ pc[c] \in {"make", "discard", "close"}

Idle(o) == ToSet(available[o])

\* Every variable has its type, no channel exceeds the pool size, a pool in the
\* map is open and the pools being drained are closed.
TypeOK ==
  /\ pc \in [Calls -> CallStates]
  /\ mine \in [Calls -> Calls \cup {None}]
  /\ \A c \in Calls : pc[c] # "start" => mine[c] # None
  /\ held \in [Calls -> Instances \cup {None}]
  /\ \A c \in Calls : IF Holding(c) THEN held[c] \in Instances ELSE held[c] = None
  /\ pools \in [Paths -> Calls \cup {None}]
  /\ total \in [Calls -> Int] /\ nextID \in [Calls -> Nat]
  /\ available \in [Calls -> Seq(Instances)]
  /\ \A o \in Calls : Len(available[o]) <= Size
  /\ closed \subseteq Calls
  /\ creator \in [Calls -> Calls \cup {None}]
  /\ mu \in Calls \cup {None}
  /\ live \subseteq Instances
  /\ rpc \in [Removers -> RemoverStates]
  /\ drains \in [Removers -> SUBSET closed]
  /\ \A p \in Paths : pools[p] \notin closed

\* "Exclusive borrowing": an instance is with one call or in one channel, once,
\* whatever evictions and replacement pools did (proto_store.go:233-274).
ExclusiveUse ==
  /\ \A c, d \in Calls : Holding(c) /\ Holding(d) /\ held[c] = held[d] => c = d
  /\ \A c \in Calls, o \in Calls : Holding(c) => held[c] \notin Idle(o)
  /\ \A o \in Calls : IsInjective(available[o])
  /\ \A o, q \in Calls : Idle(o) \cap Idle(q) # {} => o = q

\* No call works with, and no channel offers, an instance that was closed: an
\* eviction leaves the borrowed ones alone (proto_store.go:294-321).
UsableIsOpen ==
  /\ \A c \in Calls : Using(c) \/ Making(c) => held[c] \in live
  /\ \A o \in Calls : Idle(o) \subseteq live

\* No instance is lost: what is open is with a call that will give it back or
\* close it, in the channel of a pool in the map, or in one being drained.
NothingLeaks ==
  \A x \in live :
    \/ \E c \in Calls : Holding(c) /\ held[c] = x
    \/ \E p \in Paths : pools[p] # None /\ x \in Idle(pools[p])
    \/ \E r \in Removers : rpc[r] = "drain" /\ \E o \in drains[r] : x \in Idle(o)

\* The instances and reservations that a pool's total stands for.
Counted(o) ==
  {c \in Calls :
    \/ pc[c] = "undo" /\ mine[c] = o
    \/ Holding(c) /\ pc[c] # "close" /\ held[c].pool = o}

\* Until a path is evicted for the first time, its pool counts exactly: what it
\* counts is idle, borrowed or being made, that is at most Size, and ensure
\* never blocks on the channel with the mutex held (proto_store.go:195-230).
CountsExactly ==
  \A p \in Paths :
    LET o == pools[p] IN
    o # None /\ (\A r \in Removers : p \in TargetOf[r] => rpc[r] = "idle") =>
      /\ total[o] = Len(available[o]) + Cardinality(Counted(o))
      /\ total[o] <= Size
      /\ \A c \in Calls : PathOf[c] = p => pc[c] # "send"

\* A channel that was closed is only drained: a send to it would crash the
\* process (proto_store.go:221-228, 255-266, 306-312).
ClosedOnlyDrains ==
  [][\A o \in closed : Len(available'[o]) <= Len(available[o])]_vars

\* Without evictions every call returns: neither s.mu nor createMu nor an empty
\* channel keeps one for ever (proto_store.go:193-194, 241-249).
CallsReturn == \A c \in Calls : <>(pc[c] = "returned")

-----------------------------------------------------------------------------
(* The pools as a service that lends instances. *)

\* What tells one instance from another: a pool never gives a number twice.
Ident(x) == <<x.pool, x.id>>

\* What each call has for itself: nothing or one instance.
Lease == [c \in Calls |-> IF Making(c) \/ Using(c) THEN {Ident(held[c])} ELSE {}]

\* What is in the channels of a path: the current pool's, and those of evicted
\* pools that are not drained yet.
Offered(p) == UNION {Idle(o) : o \in {q \in Calls : PathOf[q] = p}}
Shelf == [p \in Paths |-> {Ident(x) : x \in Offered(p)}]

Opened == {Ident(x) : x \in live}

\* The numbers given out, but for those whose instance is still to be made.
Numbers == UNION {{o} \X (1..nextID[o]) : o \in Calls}
Reserved == {Ident(held[c]) : c \in {d \in Calls : pc[d] = "make"}}
Spent == Numbers \ Reserved

Evicted == UNION {TargetOf[r] : r \in {s \in Removers : rpc[s] # "idle"}}

Lender == INSTANCE Leases WITH
  Capacity <- Size, lease <- Lease, shelf <- Shelf, open <- Opened,
  spent <- Spent, evicted <- Evicted

\* The pools lend: an instance goes to its maker or to one call of its path at a
\* time, whatever pool that call works with; it is closed only when no call has it
\* and none can get it; it never comes back; and a path has at most Size of them
\* until it is evicted (proto_store.go:185-321).
ImplementsLeases == Lender!LSafe

-----------------------------------------------------------------------------
(* What the documentation says and the code does not do. *)

\* docs/interview-defense.md:1260-1261: "the missing pool causes them to close
\* instead of reentering an evicted pool": an instance borrowed from a pool that
\* was evicted is not offered by the pool that replaced it.
NoReentry ==
  \A o \in Calls : \A i \in 1..Len(available[o]) : available[o][i].pool = o

\* docs/interview-defense.md:1245: "Acquisition blocks on the channel or
\* context": it does not block for ever on the mutex of the store.
AcquireProceeds == \A c \in Calls : pc[c] = "acquire" ~> pc[c] # "acquire"
=============================================================================

------------------------------- MODULE Leases -------------------------------
(***************************************************************************)
(* What a caller of the instance pools may rely on, with no channels,      *)
(* counters, locks or pool objects: an instance is made open and for its   *)
(* maker alone; it is lent to one call of its path at a time; it is closed *)
(* only when no call has it and none can get it; its identity is never     *)
(* used again; and until a path is evicted it has at most Capacity         *)
(* instances. InstancePool implements it (InstancePoolProps!Lender).       *)
(***************************************************************************)
EXTENDS Naturals, FiniteSets

CONSTANTS Calls, Paths, PathOf, Capacity

VARIABLES
  lease,    \* lease[c]: what call c has for itself: nothing or one instance
  shelf,    \* shelf[p]: the instances that a call of path p may take
  open,     \* the instances that are open
  spent,    \* the identities that no new instance can have
  evicted   \* the paths that were evicted

lvars == <<lease, shelf, open, spent, evicted>>

Borrowers(p) == {c \in Calls : PathOf[c] = p /\ lease[c] # {}}

LInit ==
  /\ lease = [c \in Calls |-> {}]
  /\ shelf = [p \in Paths |-> {}]
  /\ open = {} /\ spent = {} /\ evicted = {}

\* A new instance goes to its maker.
Make(c, x) ==
  /\ lease[c] = {}
  /\ \/ PathOf[c] \in evicted
     \/ Cardinality(shelf[PathOf[c]]) + Cardinality(Borrowers(PathOf[c])) < Capacity
  /\ lease' = [lease EXCEPT ![c] = {x}]
  /\ open' = open \cup {x}
  /\ spent' = spent \cup {x}
  /\ UNCHANGED <<shelf, evicted>>

\* An instance that could not be made; its identity is not tried again.
Spoil(x) ==
  /\ spent' = spent \cup {x}
  /\ UNCHANGED <<lease, shelf, open, evicted>>

Borrow(c) ==
  /\ lease[c] = {}
  /\ \E x \in shelf[PathOf[c]] :
       /\ lease' = [lease EXCEPT ![c] = {x}]
       /\ shelf' = [shelf EXCEPT ![PathOf[c]] = @ \ {x}]
  /\ UNCHANGED <<open, spent, evicted>>

GiveBack(c) ==
  /\ lease[c] # {}
  /\ lease' = [lease EXCEPT ![c] = {}]
  /\ shelf' = [shelf EXCEPT ![PathOf[c]] = @ \cup lease[c]]
  /\ UNCHANGED <<open, spent, evicted>>

\* The call will not give its instance back. It closes it, now or later.
Discard(c) ==
  /\ lease[c] # {}
  /\ lease' = [lease EXCEPT ![c] = {}]
  /\ open' \in {open, open \ lease[c]}
  /\ UNCHANGED <<shelf, spent, evicted>>

\* Only what no call has and none can get is closed.
Close(x) ==
  /\ \A c \in Calls : x \notin lease[c]
  /\ \A p \in Paths : x \notin shelf[p]
  /\ open' = open \ {x}
  /\ UNCHANGED <<lease, shelf, spent, evicted>>

Evict(ps) ==
  /\ evicted' = evicted \cup ps
  /\ UNCHANGED <<lease, shelf, open, spent>>

\* Of an evicted path, the instances that no call has may go.
Clear(p, x) ==
  /\ p \in evicted
  /\ x \in shelf[p]
  /\ shelf' = [shelf EXCEPT ![p] = @ \ {x}]
  /\ open' = open \ {x}
  /\ UNCHANGED <<lease, spent, evicted>>

\* Identities are not a finite set: a new one is named by what the step spends.
LNext ==
  \/ \E x \in spent' \ spent : Spoil(x) \/ \E c \in Calls : Make(c, x)
  \/ \E c \in Calls : Borrow(c) \/ GiveBack(c) \/ Discard(c)
  \/ \E x \in open : Close(x)
  \/ \E ps \in SUBSET Paths : Evict(ps)
  \/ \E p \in Paths : \E x \in shelf[p] : Clear(p, x)

LSafe == LInit /\ [][LNext]_lvars
=============================================================================

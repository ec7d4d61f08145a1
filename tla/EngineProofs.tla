---------------------------- MODULE EngineProofs ----------------------------
(***************************************************************************)
(* Proofs about Engine for any number of calls, modules and evictors: its  *)
(* types, that every compiled module is in the cache or with the one       *)
(* eviction that will close it, what backs a template, what Close          *)
(* guarantees, that the engine implements ModuleCache, what Compile        *)
(* returns, what alone can block the pool store and with it the cache, and *)
(* that nothing else stops Close.                                          *)
(***************************************************************************)
EXTENDS EngineProps, TLAPS

\* A call that has not compiled yet: no module has its name.
Early == {"start", "touch", "slow"}

\* ModulesAccounted, module by module.
Owned ==
  life # "released" =>
    \A m \in Calls : m \in open <=> \/ \E p \in Paths : compiled[p] = m
                                    \/ \E r \in Cleaners : m \in batch[r]

Apart ==
  /\ \A r \in Cleaners : \A p \in Paths : compiled[p] \notin batch[r]
  /\ \A r, s \in Cleaners : \A m \in Calls : m \in batch[r] /\ m \in batch[s] => r = s

Named ==
  \A c \in Calls : pc[c] \in Early =>
    /\ c \notin open
    /\ \A p \in Paths : compiled[p] # c
    /\ \A r \in Cleaners : c \notin batch[r]

IInv == TypeOK /\ Owned /\ Apart /\ Named /\ ReleasedForGood

USE EngineAssumption

-----------------------------------------------------------------------------
\* Initially nothing is compiled.
LEMMA InitInv == Init => IInv
  <1>1. Init => TypeOK
    BY DEF Init, TypeOK, Cached, CallStates, Lives, Cleaners
  <1>2. Init => Owned /\ Apart /\ Named
    BY DEF Init, Owned, Apart, Named, Early
  <1>3. Init => ReleasedForGood
    BY DEF Init, ReleasedForGood
  <1> QED
    BY <1>1, <1>2, <1>3 DEF IInv

\* Current picks a module of a batch that is not empty.
LEMMA CurrentIn ==
  ASSUME NEW r \in Cleaners, batch[r] # {}
  PROVE  Current(r) \in batch[r]
  BY DEF Current

\* An eviction takes out entries that there are.
LEMMA EvictTakes ==
  ASSUME NEW r \in Cleaners, Evict(r)
  PROVE  \E V \in SUBSET {p \in Paths : Cached(p)} : EvictAll(r, V)
  <1>1. PICK V \in Choices(r) : EvictAll(r, V)
    BY DEF Evict
  <1>2. V \subseteq {p \in Paths : Cached(p)}
    BY DEF Choices, EvictsExpired, EvictsIdle, EvictsFunction, HasEntry
  <1> QED
    BY <1>1, <1>2

-----------------------------------------------------------------------------
(* Types. *)

\* No step of a call, of an eviction or of Close takes a variable out of its type.
LEMMA NextTypeOK == TypeOK /\ [Next]_vars => TypeOK'
  <1> SUFFICES ASSUME TypeOK, [Next]_vars PROVE TypeOK'
    OBVIOUS
  <1> USE DEF TypeOK, CallStates, Lives, Cleaners, Cached, Goto, Got, Return, AfterStore,
              caching, pooling, evicting, ending
  <1>1. ASSUME NEW c \in Calls, Compile(c) PROVE TypeOK'
    <2>1. CASE CompileClosed(c) \/ CompileHit(c) \/ CompileMiss(c)
      BY <2>1 DEF CompileClosed, CompileHit, CompileMiss
    <2>2. CASE Touch(c)
      BY <2>2 DEF Touch, Touched
    <2>3. CASE SlowClosed(c) \/ SlowFails(c)
      BY <2>3 DEF SlowClosed, SlowFails
    <2>4. CASE SlowHit(c)
      BY <2>4 DEF SlowHit, Touched
    <2>5. CASE SlowRefuses(c)
      BY <2>5 DEF SlowRefuses, CloseRefused
    <2>6. CASE SlowCompiles(c)
      BY <2>6 DEF SlowCompiles
    <2> QED
      BY <1>1, <2>1, <2>2, <2>3, <2>4, <2>5, <2>6 DEF Compile
  <1>2. ASSUME NEW c \in Calls, Invoke(c) PROVE TypeOK'
    <2>1. CASE Leave(c)
      BY <2>1 DEF Leave
    <2>2. CASE Ensure(c)
      <3>1. pools' \subseteq Handlers
        BY <2>2 DEF Ensure, IsHandler
      <3> QED
        BY <2>2, <3>1 DEF Ensure
    <2>3. CASE Fill(c) \/ FillBlocks(c)
      BY <2>3 DEF Fill, FillBlocks
    <2>4. CASE Instantiate(c)
      BY <2>4 DEF Instantiate
    <2>5. CASE InstantiateFails(c)
      BY <2>5 DEF InstantiateFails, Touched
    <2>6. CASE Finish(c)
      <3>1. /\ foreign' \subseteq pools' /\ strays' \subseteq Calls
        BY <2>6 DEF Finish, GivesBack
      <3> QED
        BY <2>6, <3>1 DEF Finish, Touched
    <2> QED
      BY <1>2, <2>1, <2>2, <2>3, <2>4, <2>5, <2>6 DEF Invoke
  <1>3. ASSUME NEW c \in Calls, Preload(c) PROVE TypeOK'
    BY <1>3 DEF Preload, PreloadSkips, PreloadRecords
  <1>4. ASSUME NEW p \in Paths, Age(p) PROVE TypeOK'
    BY <1>4 DEF Age
  <1>5. ASSUME NEW r \in Cleaners, Evict(r) PROVE TypeOK'
    <2>0. PICK V \in SUBSET {p \in Paths : Cached(p)} : EvictAll(r, V)
      BY <1>5, EvictTakes
    <2>1. /\ V # {} /\ V \subseteq {p \in Paths : compiled[p] # None}
      BY <2>0 DEF EvictAll
    <2>2. {compiled[p] : p \in V} # {} /\ {compiled[p] : p \in V} \subseteq Calls
      BY <2>1
    <2>3. /\ batch' \in [Cleaners -> SUBSET Calls]
          /\ \A s \in Cleaners : batch'[s] # {} <=> epc'[s] \notin {"idle", "done"}
      BY <2>0, <2>2 DEF EvictAll
    <2> HIDE DEF Cleaners
    <2>4. epc' \in [Cleaners -> {"idle", "pool", "template", "module", "done"}]
      BY <2>0 DEF EvictAll
    <2>5. /\ compiled' \in [Paths -> Calls \cup {None}]
          /\ \A p \in Paths : compiled'[p] # None => PathOf[compiled'[p]] = p
          /\ fresh' \subseteq {p \in Paths : compiled'[p] # None}
      BY <2>0 DEF EvictAll
    <2> QED
      BY <2>0, <2>3, <2>4, <2>5 DEF EvictAll
  <1>6. ASSUME NEW r \in Cleaners, EvictNothing(r) PROVE TypeOK'
    BY <1>6 DEF EvictNothing
  <1>7. ASSUME NEW r \in Cleaners, Clean(r) PROVE TypeOK'
    <2>1. CASE RemovePool(r)
      BY <2>1 DEF RemovePool, ClosePoolsOf
    <2>2. CASE RemoveTemplate(r)
      BY <2>2 DEF RemoveTemplate
    <2>3. CASE CloseModule(r)
      BY <2>3 DEF CloseModule
    <2> QED
      BY <1>7, <2>1, <2>2, <2>3 DEF Clean
  <1>8. CASE ReaperStops
    BY <1>8 DEF ReaperStops
  <1>9. CASE Cancel \/ CloseMarks
    BY <1>9 DEF Cancel, CloseMarks
  <1>10. CASE Close
    BY <1>10 DEF Close, CloseSignals, ClosePools, ClosePoolsOf, CloseRuntime
  <1>11. CASE UNCHANGED vars
    BY <1>11 DEF vars
  <1> QED
    BY <1>1, <1>2, <1>3, <1>4, <1>5, <1>6, <1>7, <1>8, <1>9, <1>10, <1>11 DEF Next, Finished, Stuck

-----------------------------------------------------------------------------
(* The modules. *)

\* A step that leaves modules, batches and Close alone, and sends no call back to
\* Compile, keeps the invariant.
LEMMA QuietStep ==
  ASSUME IInv, TypeOK', UNCHANGED <<compiled, open, batch, epc, life>>,
         \A c \in Calls : pc'[c] \in Early => pc[c] \in Early
  PROVE  IInv'
  BY DEF IInv, Owned, Apart, Named, ReleasedForGood

\* A call puts its own module into the cache and into the runtime, both at once.
LEMMA CompileStep ==
  ASSUME IInv, TypeOK', NEW c \in Calls, SlowCompiles(c)
  PROVE  IInv'
  <1> USE DEF IInv
  <1>1. /\ pc[c] \in Early /\ \E label \in {"ready", "sizing"} : pc' = [pc EXCEPT ![c] = label]
        /\ PathOf[c] \in Paths /\ compiled[PathOf[c]] = None
        /\ compiled' = [compiled EXCEPT ![PathOf[c]] = c]
        /\ open' = open \cup {c}
        /\ batch' = batch /\ epc' = epc /\ life' = life /\ life = "open"
    BY DEF SlowCompiles, Early, StillMissing, StillOpen, Cached, Goto, evicting, ending
  <1>2. c # None
    OBVIOUS
  <1>3. \A p \in Paths : compiled'[p] = IF p = PathOf[c] THEN c ELSE compiled[p]
    BY <1>1 DEF TypeOK
  <1>4. Owned'
    BY <1>1, <1>2, <1>3 DEF Owned
  <1>5. Apart'
    BY <1>1, <1>3 DEF Apart, Named
  <1>6. Named'
    <2>1. \A d \in Calls : pc'[d] \in Early => d # c /\ pc[d] \in Early
      BY <1>1 DEF Early, TypeOK
    <2> QED
      BY <1>1, <1>3, <2>1 DEF Named
  <1>7. ReleasedForGood'
    BY <1>1 DEF ReleasedForGood
  <1> QED
    BY <1>4, <1>5, <1>6, <1>7

\* An eviction takes the entries of its victims out of the cache into its batch.
LEMMA EvictStep ==
  ASSUME IInv, TypeOK', NEW r \in Cleaners, Evict(r)
  PROVE  IInv'
  <1> USE DEF IInv
  <1>0. PICK V \in SUBSET {p \in Paths : Cached(p)} : EvictAll(r, V)
    BY EvictTakes
  <1>1. /\ epc[r] = "idle" /\ epc' = [epc EXCEPT ![r] = "pool"]
        /\ batch' = [batch EXCEPT ![r] = {compiled[p] : p \in V}]
        /\ compiled' = [p \in Paths |-> IF p \in V THEN None ELSE compiled[p]]
        /\ open' = open /\ pc' = pc /\ life' = life
    BY <1>0 DEF EvictAll, ending
  <1>2. V \subseteq Paths /\ \A p \in V : compiled[p] \in Calls
    BY DEF Cached, TypeOK
  <1>3. batch[r] = {}
    BY <1>1 DEF TypeOK
  <1>4. \A s \in Cleaners : batch'[s] = IF s = r THEN {compiled[p] : p \in V} ELSE batch[s]
    BY <1>1 DEF TypeOK
  <1>5. \A p, q \in Paths : compiled[p] = compiled[q] /\ compiled[p] # None => p = q
    BY DEF TypeOK, Cached
  <1>6. Owned'
    <2> SUFFICES ASSUME life # "released", NEW m \in Calls
                 PROVE  m \in open <=> \/ \E p \in Paths : compiled'[p] = m
                                       \/ \E s \in Cleaners : m \in batch'[s]
      BY <1>1 DEF Owned
    <2>1. m # None
      OBVIOUS
    <2>2. (\E p \in Paths : compiled'[p] = m) <=> \E p \in Paths \ V : compiled[p] = m
      BY <1>1, <2>1
    <2>3. (\E s \in Cleaners : m \in batch'[s])
             <=> (\E p \in V : compiled[p] = m) \/ \E s \in Cleaners : m \in batch[s]
      <3>0. batch'[r] = {compiled[p] : p \in V}
        BY <1>4
      <3>1. m \in batch'[r] <=> \E p \in V : compiled[p] = m
        BY <3>0
      <3> QED
        BY <1>3, <1>4, <3>1
    <2>4. (\E p \in Paths : compiled[p] = m)
             <=> (\E p \in V : compiled[p] = m) \/ \E p \in Paths \ V : compiled[p] = m
      BY <1>2
    <2> QED
      BY <2>2, <2>3, <2>4 DEF Owned
  <1>7. Apart'
    <2>1. ASSUME NEW s \in Cleaners, NEW p \in Paths PROVE compiled'[p] \notin batch'[s]
      <3>1. batch[s] \subseteq Calls
        BY DEF TypeOK
      <3>2. CASE p \in V
        BY <1>1, <1>2, <1>4, <3>1, <3>2
      <3>3. CASE p \notin V
        BY <1>1, <1>2, <1>4, <1>5, <3>3 DEF Apart
      <3> QED
        BY <3>2, <3>3
    <2>2. ASSUME NEW s \in Cleaners, NEW t \in Cleaners, NEW m \in Calls,
                 m \in batch'[s], m \in batch'[t]
          PROVE  s = t
      <3>1. \A u \in Cleaners : (\E p \in V : compiled[p] = m) => m \notin batch[u]
        BY <1>2 DEF Apart
      <3>0. batch'[r] = {compiled[p] : p \in V}
        BY <1>4
      <3>2. m \in batch'[r] => \E p \in V : compiled[p] = m
        BY <3>0
      <3>3. \A u \in Cleaners : u # r => batch'[u] = batch[u]
        BY <1>4
      <3> QED
        BY <2>2, <3>1, <3>2, <3>3 DEF Apart
    <2> QED
      BY <2>1, <2>2 DEF Apart
  <1>8. Named'
    BY <1>1, <1>2, <1>4 DEF Named
  <1>9. ReleasedForGood'
    BY <1>1 DEF ReleasedForGood
  <1> QED
    BY <1>6, <1>7, <1>8, <1>9

\* An eviction closes a module of its batch, which nobody else has.
LEMMA CloseModuleStep ==
  ASSUME IInv, TypeOK', NEW r \in Cleaners, CloseModule(r)
  PROVE  IInv'
  <1> USE DEF IInv
  <1> DEFINE k == Current(r)
  <1>1. /\ epc[r] = "module" /\ open' = open \ {k}
        /\ batch' = [batch EXCEPT ![r] = @ \ {k}]
        /\ \A s \in Cleaners : s # r => epc'[s] = epc[s]
        /\ compiled' = compiled /\ pc' = pc /\ life' = life
    BY DEF CloseModule, ending
  <1>2. k \in batch[r] /\ k \in Calls
    BY <1>1, CurrentIn DEF TypeOK
  <1>3. \A s \in Cleaners : batch'[s] = IF s = r THEN batch[s] \ {k} ELSE batch[s]
    BY <1>1 DEF TypeOK
  <1> HIDE DEF k
  <1>4. Owned'
    BY <1>1, <1>2, <1>3 DEF Owned, Apart
  <1>5. Apart'
    BY <1>1, <1>3 DEF Apart
  <1>6. Named'
    BY <1>1, <1>3 DEF Named
  <1>7. ReleasedForGood'
    BY <1>1 DEF ReleasedForGood, Cleaners
  <1> QED
    BY <1>4, <1>5, <1>6, <1>7

\* Every step keeps the invariant.
LEMMA NextInv == IInv /\ [Next]_vars => IInv'
  <1> SUFFICES ASSUME IInv, [Next]_vars PROVE IInv'
    OBVIOUS
  <1>0. TypeOK /\ TypeOK'
    BY NextTypeOK DEF IInv
  <1> USE DEF Early, caching, evicting, ending, Goto, Got, Return, AfterStore
  <1>1. ASSUME NEW c \in Calls, Compile(c) PROVE IInv'
    <2>1. CASE SlowCompiles(c)
      BY <1>0, <2>1, CompileStep
    <2>2. CASE CompileClosed(c) \/ CompileHit(c) \/ CompileMiss(c) \/ Touch(c)
      BY <1>0, <2>2, QuietStep DEF CompileClosed, CompileHit, CompileMiss, Touch, TypeOK
    <2>3. CASE SlowClosed(c) \/ SlowHit(c) \/ SlowFails(c) \/ SlowRefuses(c)
      BY <1>0, <2>3, QuietStep DEF SlowClosed, SlowHit, SlowFails, SlowRefuses, CloseRefused, TypeOK
    <2> QED
      BY <1>1, <2>1, <2>2, <2>3 DEF Compile
  <1>2. ASSUME NEW c \in Calls, Invoke(c) \/ Preload(c) PROVE IInv'
    <2>1. UNCHANGED <<compiled, open, batch, epc, life>>
      BY <1>2 DEF Invoke, Preload, Leave, Ensure, Fill, FillBlocks, Instantiate, InstantiateFails,
         Finish,
                  PreloadSkips, PreloadRecords
    <2>2. \A d \in Calls : pc'[d] \in Early => pc[d] \in Early
      BY <1>0, <1>2 DEF Invoke, Preload, Leave, Ensure, Fill, FillBlocks, Instantiate,
         InstantiateFails, Finish,
                  PreloadSkips, PreloadRecords, TypeOK
    <2> QED
      BY <1>0, <2>1, <2>2, QuietStep
  <1>3. ASSUME NEW p \in Paths, Age(p) PROVE IInv'
    BY <1>0, <1>3, QuietStep DEF Age
  <1>4. ASSUME NEW r \in Cleaners, Evict(r) PROVE IInv'
    BY <1>0, <1>4, EvictStep
  <1>5. ASSUME NEW r \in Cleaners, CloseModule(r) PROVE IInv'
    BY <1>0, <1>5, CloseModuleStep
  <1>6. ASSUME UNCHANGED <<compiled, open, batch, pc, life>>,
               epc[Reaper] = "done" => epc'[Reaper] = "done"
        PROVE  IInv'
    BY <1>0, <1>6 DEF IInv, Owned, Apart, Named, ReleasedForGood
  <1>7. ASSUME NEW r \in Cleaners, EvictNothing(r) \/ RemovePool(r) \/ RemoveTemplate(r) PROVE IInv'
    <2>1. epc[Reaper] = "done" => epc'[Reaper] = "done"
      BY <1>0, <1>7 DEF EvictNothing, RemovePool, RemoveTemplate, TypeOK, Cleaners
    <2> QED
      BY <1>6, <1>7, <2>1 DEF EvictNothing, RemovePool, RemoveTemplate
  <1>8. CASE ReaperStops \/ Cancel
    <2>1. epc[Reaper] = "done" => epc'[Reaper] = "done"
      BY <1>8 DEF ReaperStops, Cancel
    <2> QED
      BY <1>6, <1>8, <2>1 DEF ReaperStops, Cancel
  <1>9. CASE CloseMarks \/ CloseSignals \/ ClosePools
    BY <1>0, <1>9 DEF CloseMarks, CloseSignals, ClosePools, ReaperDone,
                      IInv, Owned, Apart, Named, ReleasedForGood
  <1>10. CASE CloseRuntime
    BY <1>0, <1>10 DEF CloseRuntime, IInv, Owned, Apart, Named, ReleasedForGood
  <1>11. CASE UNCHANGED vars
    BY <1>0, <1>11, QuietStep DEF vars
  <1> QED
    BY <1>1, <1>2, <1>3, <1>4, <1>5, <1>7, <1>8, <1>9, <1>10, <1>11
       DEF Next, Clean, Close, Finished, Stuck

\* The invariant says of every module what ModulesAccounted says of the sets.
LEMMA Accounted == IInv => ModulesAccounted
  <1> SUFFICES ASSUME IInv PROVE ModulesAccounted
    OBVIOUS
  <1> USE DEF IInv
  <1>1. ASSUME life # "released" PROVE open = CachedModules \cup UNION {batch[r] : r \in Cleaners}
    <2>1. CachedModules \subseteq Calls
      BY DEF CachedModules, TypeOK
    <2>2. UNION {batch[r] : r \in Cleaners} \subseteq Calls
      BY DEF TypeOK
    <2>3. open \subseteq Calls
      BY DEF TypeOK
    <2>4. ASSUME NEW m \in Calls
          PROVE  m \in open <=> m \in CachedModules \cup UNION {batch[r] : r \in Cleaners}
      <3>1. m \in CachedModules <=> \E p \in Paths : compiled[p] = m
        BY DEF CachedModules
      <3>2. m \in UNION {batch[r] : r \in Cleaners} <=> \E r \in Cleaners : m \in batch[r]
        OBVIOUS
      <3> QED
        BY <1>1, <3>1, <3>2 DEF Owned
    <2> QED
      BY <2>1, <2>2, <2>3, <2>4
  <1>2. \A r \in Cleaners : batch[r] \cap CachedModules = {}
    BY DEF Apart, CachedModules
  <1>3. \A r, s \in Cleaners : batch[r] \cap batch[s] # {} => r = s
    BY DEF Apart, TypeOK
  <1> QED
    BY <1>1, <1>2, <1>3 DEF ModulesAccounted

-----------------------------------------------------------------------------
(* Templates. *)

\* TemplateIsBacked, path by path.
Backed(p) ==
  \/ Cached(p)
  \/ \E r \in Cleaners : Removes(r, p)
  \/ p \in Handlers /\ \E c \in Preloads : PathOf[c] = p /\ pc[c] = "returned"

\* Only a Preload of a handler records a template again.
Recording == \A c \in Calls : pc[c] = "record" => c \in Preloads /\ IsHandler(c)

TInv == Recording /\ \A p \in templates : Backed(p)

\* A call that returned has returned, and only Ensure sends one to record a template.
LEMMA CallsMove ==
  ASSUME TypeOK, [Next]_vars
  PROVE  /\ \A c \in Calls : pc[c] = "returned" => pc'[c] = "returned"
         /\ Recording => Recording'
  <1> USE DEF Recording, IsHandler, TypeOK, Goto, Return, Got, AfterStore, evicting
  <1>1. ASSUME NEW c \in Calls, Compile(c)
        PROVE  /\ \A d \in Calls : pc[d] = "returned" => pc'[d] = "returned"
               /\ Recording => Recording'
    BY <1>1 DEF Compile, CompileClosed, CompileHit, Touch, CompileMiss, SlowClosed, SlowHit,
                SlowFails, SlowRefuses, SlowCompiles
  <1>2. ASSUME NEW c \in Calls, Invoke(c)
        PROVE  /\ \A d \in Calls : pc[d] = "returned" => pc'[d] = "returned"
               /\ Recording => Recording'
    BY <1>2 DEF Invoke, Leave, Ensure, Fill, FillBlocks, Instantiate, InstantiateFails, Finish
  <1>3. ASSUME NEW c \in Calls, Preload(c)
        PROVE  /\ \A d \in Calls : pc[d] = "returned" => pc'[d] = "returned"
               /\ Recording => Recording'
    BY <1>3 DEF Preload, PreloadSkips, PreloadRecords
  <1>4. ASSUME NEW r \in Cleaners, Evict(r) \/ EvictNothing(r) \/ Clean(r) PROVE pc' = pc
    BY <1>4 DEF Evict, EvictAll, EvictNothing, Clean, RemovePool, RemoveTemplate, CloseModule
  <1>5. CASE UNCHANGED pc
    BY <1>5
  <1> QED
    BY <1>1, <1>2, <1>3, <1>4, <1>5
       DEF Next, Age, ReaperStops, Cancel, CloseMarks, Close, CloseSignals, ClosePools,
           CloseRuntime, Finished, Stuck, vars

\* What backs a template does so until an entry is evicted or an eviction moves on.
LEMMA StillBacked ==
  ASSUME TypeOK, NEW p \in Paths, Backed(p), UNCHANGED <<batch, epc>>,
         Cached(p) => compiled'[p] # None,
         \A c \in Calls : pc[c] = "returned" => pc'[c] = "returned"
  PROVE  Backed(p)'
  <1>1. \A r \in Cleaners : Removes(r, p)' <=> Removes(r, p)
    BY DEF Removes, Current
  <1> QED
    BY <1>1 DEF Backed, Cached

\* A step of an eviction: what another eviction has to remove it still has to.
LEMMA OthersRemove ==
  ASSUME NEW r \in Cleaners, NEW s \in Cleaners, NEW p \in Paths,
         Removes(s, p), batch'[s] = batch[s], epc'[s] = epc[s]
  PROVE  Removes(s, p)'
  BY DEF Removes, Current

\* An eviction takes over what the entries of its victims backed.
LEMMA EvictBacks ==
  ASSUME TypeOK, NEW r \in Cleaners, Evict(r), NEW p \in Paths, Backed(p)
  PROVE  Backed(p)'
  <1>0. PICK V \in SUBSET {q \in Paths : Cached(q)} : EvictAll(r, V)
    BY EvictTakes
  <1>1. /\ batch[r] = {} /\ pc' = pc /\ epc' = [epc EXCEPT ![r] = "pool"]
        /\ batch' = [batch EXCEPT ![r] = {compiled[q] : q \in V}]
        /\ compiled' = [q \in Paths |-> IF q \in V THEN None ELSE compiled[q]]
    BY <1>0 DEF EvictAll, TypeOK
  <1>2. /\ epc'[r] = "pool" /\ batch'[r] = {compiled[q] : q \in V}
        /\ \A s \in Cleaners : s # r => batch'[s] = batch[s] /\ epc'[s] = epc[s]
    BY <1>1 DEF TypeOK
  <1>3. CASE Cached(p)
    <2>1. CASE p \in V
      <3>1. compiled[p] \in batch'[r] /\ PathOf[compiled[p]] = p
        BY <1>2, <1>3, <2>1 DEF TypeOK
      <3> QED
        BY <1>2, <3>1 DEF Backed, Removes
    <2>2. CASE p \notin V
      BY <1>1, <1>3, <2>2 DEF Backed, Cached
    <2> QED
      BY <2>1, <2>2
  <1>4. ASSUME NEW s \in Cleaners, Removes(s, p) PROVE Backed(p)'
    <2>1. s # r
      BY <1>1, <1>4 DEF Removes
    <2> QED
      BY <1>2, <1>4, <2>1, OthersRemove DEF Backed
  <1> QED
    BY <1>1, <1>3, <1>4 DEF Backed

\* An eviction that moves on has removed the template of its current module only.
LEMMA CleanBacks ==
  ASSUME TypeOK, NEW r \in Cleaners, Clean(r), NEW p \in Paths, p \in templates', Backed(p)
  PROVE  Backed(p)'
  <1>1. /\ pc' = pc /\ compiled' = compiled
        /\ \A s \in Cleaners : s # r => batch'[s] = batch[s] /\ epc'[s] = epc[s]
    BY DEF Clean, RemovePool, RemoveTemplate, CloseModule, caching, TypeOK
  <1>2. ASSUME NEW s \in Cleaners, Removes(s, p), s # r PROVE Backed(p)'
    BY <1>1, <1>2, OthersRemove DEF Backed
  <1>3. ASSUME Removes(r, p) PROVE Removes(r, p)'
    <2>1. PICK m \in batch[r] : PathOf[m] = p /\ (m = Current(r) => epc[r] # "module")
      BY <1>3 DEF Removes
    <2>2. CASE RemovePool(r)
      <3>1. batch'[r] = batch[r] /\ epc'[r] = "template"
        BY <2>2 DEF RemovePool, TypeOK
      <3> QED
        BY <2>1, <3>1 DEF Removes
    <2>3. CASE RemoveTemplate(r)
      <3>1. batch' = batch /\ p # PathOf[Current(r)]
        BY <2>3 DEF RemoveTemplate
      <3>2. Current(r)' = Current(r) /\ m # Current(r)
        BY <2>1, <3>1 DEF Current
      <3> QED
        BY <2>1, <3>1, <3>2 DEF Removes
    <2>4. CASE CloseModule(r)
      <3>1. /\ epc[r] = "module" /\ batch'[r] = batch[r] \ {Current(r)}
            /\ batch'[r] # {} => epc'[r] = "pool"
        BY <2>4 DEF CloseModule, TypeOK
      <3>2. m \in batch'[r]
        BY <2>1, <3>1
      <3> QED
        BY <2>1, <3>1, <3>2 DEF Removes
    <2> QED
      BY <2>2, <2>3, <2>4 DEF Clean
  <1> QED
    BY <1>1, <1>2, <1>3 DEF Backed, Cached

\* A call records a template for what it caches, or after it preloaded the pool.
LEMMA CallBacks ==
  ASSUME TypeOK, TypeOK', Recording, NEW c \in Calls, Compile(c) \/ Invoke(c) \/ Preload(c),
         NEW p \in Paths, p \in templates' \ templates
  PROVE  Backed(p)'
  <1>1. CASE SlowCompiles(c)
    <2>1. p = PathOf[c] /\ compiled'[p] = c /\ c # None
      BY <1>1 DEF SlowCompiles, TypeOK
    <2> QED
      BY <2>1 DEF Backed, Cached
  <1>2. CASE PreloadRecords(c)
    <2>1. p = PathOf[c] /\ c \in Preloads /\ p \in Handlers /\ pc'[c] = "returned"
      BY <1>2 DEF PreloadRecords, Recording, IsHandler, Return, Goto, TypeOK
    <2> QED
      BY <2>1 DEF Backed
  <1>3. CASE UNCHANGED templates
    BY <1>3
  <1> QED
    BY <1>1, <1>2, <1>3
       DEF Compile, CompileClosed, CompileHit, Touch, CompileMiss, SlowClosed, SlowHit,
           SlowFails, SlowRefuses, CloseRefused, Invoke, Leave, Ensure, Fill, FillBlocks,
              Instantiate,
           InstantiateFails, Finish, Preload, PreloadSkips, caching

\* Every step leaves a template behind only with what backs it.
LEMMA NextTInv == TypeOK /\ TypeOK' /\ TInv /\ [Next]_vars => TInv'
  <1> SUFFICES ASSUME TypeOK, TypeOK', TInv, [Next]_vars PROVE TInv'
    OBVIOUS
  <1>1. Recording' /\ \A c \in Calls : pc[c] = "returned" => pc'[c] = "returned"
    BY CallsMove DEF TInv
  <1> SUFFICES ASSUME NEW p \in templates' PROVE Backed(p)'
    BY <1>1 DEF TInv
  <1>2. p \in Paths /\ (p \in templates => Backed(p)) /\ Recording
    BY DEF TypeOK, TInv
  <1>3. ASSUME NEW c \in Calls, Compile(c) \/ Invoke(c) \/ Preload(c) PROVE Backed(p)'
    <2>1. UNCHANGED <<batch, epc>> /\ (Cached(p) => compiled'[p] # None)
      BY <1>2, <1>3
         DEF Compile, CompileClosed, CompileHit, Touch, CompileMiss, SlowClosed, SlowHit,
             SlowFails, SlowRefuses, SlowCompiles, StillMissing, Invoke, Leave, Ensure, Fill,
                FillBlocks,
             Instantiate, InstantiateFails, Finish, Preload, PreloadSkips, PreloadRecords,
             caching, evicting, Cached, TypeOK
    <2> QED
      BY <1>1, <1>2, <1>3, <2>1, StillBacked, CallBacks
  <1>4. ASSUME NEW r \in Cleaners, Evict(r) PROVE Backed(p)'
    BY <1>2, <1>4, EvictBacks DEF Evict, EvictAll
  <1>5. ASSUME NEW r \in Cleaners, Clean(r) PROVE Backed(p)'
    <2>1. p \in templates
      BY <1>5 DEF Clean, RemovePool, RemoveTemplate, CloseModule, caching
    <2> QED
      BY <1>2, <1>5, <2>1, CleanBacks
  <1>6. ASSUME UNCHANGED <<pc, compiled, templates, batch>>, NEW r \in Cleaners, batch[r] = {},
               \A s \in Cleaners : s # r => epc'[s] = epc[s]
        PROVE  Backed(p)'
    <2>1. ASSUME NEW s \in Cleaners, Removes(s, p) PROVE Removes(s, p)'
      <3>1. s # r
        BY <1>6, <2>1 DEF Removes
      <3> QED
        BY <1>2, <1>6, <2>1, <3>1, OthersRemove
    <2> QED
      BY <1>2, <1>6, <2>1 DEF Backed, Cached
  <1>7. ASSUME NEW r \in Cleaners, EvictNothing(r) PROVE Backed(p)'
    BY <1>6, <1>7 DEF EvictNothing, caching, TypeOK
  <1>8. CASE ReaperStops
    BY <1>6, <1>8 DEF ReaperStops, caching, TypeOK, Cleaners
  <1>9. CASE UNCHANGED <<pc, compiled, templates, batch, epc>>
    BY <1>1, <1>2, <1>9, StillBacked DEF Cached
  <1> QED
    BY <1>3, <1>4, <1>5, <1>7, <1>8, <1>9
       DEF Next, Age, Cancel, CloseMarks, Close, CloseSignals, ClosePools,
           CloseRuntime, Finished, Stuck, vars, caching, evicting

-----------------------------------------------------------------------------
(* Theorems. *)

\* The invariant holds in every state that the engine reaches.
THEOREM Invariance == Spec => []IInv
  BY InitInv, NextInv, PTL DEF Spec

\* Every variable of the engine has its type, and a path caches its own module.
THEOREM TypeCorrect == Spec => []TypeOK
  <1>1. IInv => TypeOK
    BY DEF IInv
  <1> QED
    BY Invariance, <1>1, PTL

\* No compiled module leaks or is closed under a cache entry, whatever compiles,
\* evicts and closes at once.
THEOREM NoModuleLeaks == Spec => []ModulesAccounted
  BY Invariance, Accounted, PTL

\* Close releases everything after the reaper's last eviction, for good.
THEOREM ClosedForGood == Spec => []ReleasedForGood
  <1>1. IInv => ReleasedForGood
    BY DEF IInv
  <1> QED
    BY Invariance, <1>1, PTL

\* Once Close has begun nothing enters the cache.
THEOREM NothingCachedLate == Spec => ClosingCachesNothing
  <1>1. TypeOK /\ [Next]_vars
          => [life # "open" => \A p \in Paths : compiled'[p] \in {compiled[p], None}]_vars
    <2> SUFFICES ASSUME TypeOK, Next, life # "open", NEW p \in Paths
                 PROVE  compiled'[p] \in {compiled[p], None}
      BY DEF vars, caching
    <2> USE DEF caching
    <2>1. ASSUME NEW c \in Calls, Compile(c) PROVE compiled' = compiled
      BY <2>1 DEF Compile, CompileClosed, CompileHit, Touch, CompileMiss, SlowClosed, SlowHit,
                  SlowFails, SlowRefuses, SlowCompiles, StillOpen
    <2>2. ASSUME NEW c \in Calls, Invoke(c) \/ Preload(c) PROVE compiled' = compiled
      BY <2>2 DEF Invoke, Preload, Leave, Ensure, Fill, FillBlocks, Instantiate, InstantiateFails,
         Finish,
                  PreloadSkips, PreloadRecords
    <2>3. ASSUME NEW r \in Cleaners, Evict(r) PROVE compiled'[p] \in {compiled[p], None}
      BY <2>3 DEF Evict, EvictAll
    <2>4. ASSUME NEW r \in Cleaners, EvictNothing(r) \/ Clean(r) PROVE compiled' = compiled
      BY <2>4 DEF EvictNothing, Clean, RemovePool, RemoveTemplate, CloseModule
    <2>5. CASE (\E q \in Paths : Age(q)) \/ ReaperStops \/ Cancel \/ CloseMarks \/ Close \/ Finished \/ Stuck
      BY <2>5 DEF Age, ReaperStops, Cancel, CloseMarks, Close, CloseSignals, ClosePools,
                  CloseRuntime, Finished, Stuck, vars
    <2> QED
      BY <2>1, <2>2, <2>3, <2>4, <2>5 DEF Next
  <1> QED
    BY TypeCorrect, <1>1, PTL DEF Spec, ClosingCachesNothing

\* A template never outlives its module unnoticed: it is in the cache, an eviction is
\* about to remove the template, or a Preload that has ended recorded it again.
THEOREM TemplatesAreBacked == Spec => []TemplateIsBacked
  <1>1. Init => TInv
    BY DEF Init, TInv, Recording
  <1>2. TInv => TemplateIsBacked
    BY DEF TInv, Backed, TemplateIsBacked
  <1> QED
    BY TypeCorrect, NextTInv, <1>1, <1>2, PTL DEF Spec

-----------------------------------------------------------------------------
(* The engine as a cache of modules. *)


\* A module is open exactly if it is cached or leaving, and which of them its
\* place says.
LEMMA FateIs ==
  ASSUME IInv, NEW m \in Calls, life # "released"
  PROVE  /\ Fate(m) = "unmade" <=> Unmade(m)
         /\ Fate(m) = "cached" <=> \E p \in Paths : compiled[p] = m
         /\ Fate(m) = "leaving" <=> \E r \in Cleaners : m \in batch[r]
         /\ Fate(m) = "gone" <=> ~Unmade(m) /\ m \notin open
  <1>1. m \in CachedModules <=> \E p \in Paths : compiled[p] = m
    BY DEF CachedModules
  <1>2. m \in CachedModules => \A r \in Cleaners : m \notin batch[r]
    BY <1>1 DEF IInv, Apart
  <1>3. m \in open <=> m \in CachedModules \/ \E r \in Cleaners : m \in batch[r]
    BY <1>1 DEF IInv, Owned
  <1>4. Unmade(m) => m \notin open
    BY DEF IInv, Named, Early, Unmade
  <1> QED
    BY <1>1, <1>2, <1>3, <1>4 DEF Fate

\* A step that opens and closes no module, and whose calls stay on their side of
\* compilation, is none of the cache's.
LEMMA FatesKept ==
  ASSUME UNCHANGED <<compiled, open>>, Phase' = Phase,
         life' = "released" <=> life = "released",
         \A m \in Calls : Unmade(m)' <=> Unmade(m)
  PROVE  UNCHANGED Cache!mvars
  <1>1. CachedModules' = CachedModules
    BY DEF CachedModules
  <1>2. \A m \in Calls : Fate(m)' = Fate(m)
    BY <1>1 DEF Fate
  <1> QED
    BY <1>2 DEF Cache!mvars

\* On a released runtime nothing happens to any module any more.
LEMMA ReleasedKept ==
  ASSUME life = "released", life' = "released"
  PROVE  UNCHANGED Cache!mvars
  <1>1. \A m \in Calls : Fate(m)' = Fate(m)
    BY DEF Fate
  <1> QED
    BY <1>1 DEF Cache!mvars, Phase

\* A call that goes on without a module of its own forgoes it.
LEMMA CallForgoes ==
  ASSUME IInv, NEW c \in Calls, UNCHANGED <<compiled, open, life>>,
         \A m \in Calls : m # c => pc'[m] = pc[m],
         Unmade(c)' => Unmade(c)
  PROVE  Cache!Forgo(c) \/ UNCHANGED Cache!mvars
  <1>1. Phase' = Phase
    BY DEF Phase
  <1>2. \A m \in Calls : m # c => (Unmade(m)' <=> Unmade(m))
    BY DEF Unmade
  <1>3. CASE life = "released" \/ (Unmade(c) => Unmade(c)')
    BY <1>1, <1>2, <1>3, ReleasedKept, FatesKept
  <1>4. CASE life # "released" /\ Unmade(c) /\ ~Unmade(c)'
    <2>1. CachedModules' = CachedModules
      BY DEF CachedModules
    <2>2. c \notin open
      BY <1>4 DEF IInv, Named, Early, Unmade
    <2>3. Fate(c) = "unmade" /\ Fate(c)' = "gone"
      BY <1>4, <2>2 DEF Fate
    <2>4. \A m \in Calls : m # c => Fate(m)' = Fate(m)
      BY <1>2, <2>1 DEF Fate
    <2> QED
      BY <1>1, <2>3, <2>4 DEF Cache!Forgo, Cache!Becomes
  <1> QED
    BY <1>3, <1>4

\* A compilation makes the one module of its path that the cache serves.
LEMMA CallMakes ==
  ASSUME IInv, IInv', NEW c \in Calls, SlowCompiles(c)
  PROVE  Cache!Make(c)
  <1>1. /\ life = "open" /\ life' = "open" /\ pc[c] = "slow"
        /\ \E label \in {"ready", "sizing"} : pc' = [pc EXCEPT ![c] = label]
        /\ PathOf[c] \in Paths /\ compiled[PathOf[c]] = None
        /\ compiled' = [compiled EXCEPT ![PathOf[c]] = c]
        /\ open' = open \cup {c} /\ UNCHANGED batch
    BY DEF SlowCompiles, StillOpen, StillMissing, Cached, Goto, evicting, ending
  <1>2. \A p \in Paths : compiled'[p] = IF p = PathOf[c] THEN c ELSE compiled[p]
    BY <1>1 DEF IInv, TypeOK
  <1>3. Fate(c) = "unmade" /\ Fate(c)' = "cached"
    <2>1. c \in CachedModules'
      BY <1>1, <1>2 DEF CachedModules
    <2> QED
      BY <1>1, <2>1 DEF Fate, Unmade, IInv, TypeOK
  <1>4. ASSUME NEW n \in Calls, PathOf[n] = PathOf[c], Fate(n) = "cached" PROVE FALSE
    <2>1. PICK p \in Paths : compiled[p] = n
      BY <1>1, <1>4, FateIs
    <2>2. Cached(p) /\ PathOf[n] = p
      BY <2>1 DEF Cached, IInv, TypeOK
    <2> QED
      BY <1>1, <1>4, <2>1, <2>2
  <1>5. ASSUME NEW m \in Calls, m # c PROVE Fate(m)' = Fate(m)
    <2>1. m \in CachedModules' <=> m \in CachedModules
      BY <1>1, <1>2, <1>5 DEF CachedModules
    <2>2. pc'[m] = pc[m]
      BY <1>1, <1>5 DEF IInv, TypeOK
    <2> QED
      BY <1>1, <1>5, <2>1, <2>2 DEF Fate, Unmade
  <1> QED
    BY <1>1, <1>3, <1>4, <1>5 DEF Cache!Make, Cache!Becomes, Phase

\* An eviction retires what it takes.
LEMMA EvictRetires ==
  ASSUME IInv, IInv', NEW r \in Cleaners, Evict(r), life # "released"
  PROVE  \E S \in (SUBSET Calls) \ {{}} : Cache!Retire(S)
  <1>0. PICK V \in SUBSET {q \in Paths : Cached(q)} : EvictAll(r, V)
    BY EvictTakes
  <1>1. /\ batch' = [batch EXCEPT ![r] = {compiled[p] : p \in V}] /\ V # {}
        /\ compiled' = [p \in Paths |-> IF p \in V THEN None ELSE compiled[p]]
        /\ UNCHANGED <<pc, open, life>>
    BY <1>0 DEF EvictAll, ending
  <1>2. PICK S : S = {compiled[p] : p \in V}
    OBVIOUS
  <1>3. /\ \A p \in V : p \in Paths /\ compiled[p] \in Calls
        /\ S \in SUBSET Calls /\ S # {}
    BY <1>1, <1>2 DEF Cached, IInv, TypeOK
  <1>4. ASSUME NEW m \in S PROVE Fate(m) = "cached" /\ Fate(m)' = "leaving"
    <2>1. Fate(m) = "cached"
      BY <1>2, <1>3, <1>4, FateIs
    <2>2. m \in batch'[r]
      BY <1>1, <1>2, <1>4 DEF IInv, TypeOK
    <2>3. \A p \in Paths : compiled'[p] # m
      BY <2>2 DEF IInv, Apart
    <2>4. m \notin CachedModules' /\ m \in open /\ ~Unmade(m)
      BY <2>1, <2>3 DEF CachedModules, Fate
    <2> QED
      BY <1>1, <2>1, <2>4 DEF Fate, Unmade
  <1>5. ASSUME NEW m \in Calls, m \notin S PROVE Fate(m)' = Fate(m)
    <2>1. \A p \in Paths : compiled[p] = m => p \notin V
      BY <1>2, <1>5
    <2>2. m # None
      OBVIOUS
    <2>3. \A p \in Paths : compiled'[p] = m <=> compiled[p] = m
      BY <1>1, <2>1, <2>2
    <2>4. m \in CachedModules' <=> m \in CachedModules
      BY <2>2, <2>3 DEF CachedModules
    <2> QED
      BY <1>1, <2>4 DEF Fate, Unmade
  <1>6. Cache!Retire(S)
    BY <1>1, <1>3, <1>4, <1>5 DEF Cache!Retire, Cache!Becomes, Phase
  <1> QED
    BY <1>3, <1>6

\* And shuts it when it is its turn.
LEMMA EvictionShuts ==
  ASSUME IInv, NEW r \in Cleaners, CloseModule(r), life # "released"
  PROVE  \E m \in Calls : Cache!Shut(m)
  <1>1. PICK k : k = Current(r)
    OBVIOUS
  <1>2. epc[r] = "module" /\ open' = open \ {k} /\ UNCHANGED <<pc, compiled, life>>
    BY <1>1 DEF CloseModule, ending
  <1>3. k \in batch[r] /\ k \in Calls
    BY <1>1, <1>2, CurrentIn DEF IInv, TypeOK
  <1>4. Fate(k) = "leaving"
    BY <1>3, FateIs
  <1>5. CachedModules' = CachedModules
    BY <1>2 DEF CachedModules
  <1>6. Fate(k)' = "gone"
    BY <1>2, <1>4 DEF Fate, Unmade
  <1>7. \A m \in Calls : m # k => Fate(m)' = Fate(m)
    BY <1>2, <1>5 DEF Fate, Unmade
  <1> QED
    BY <1>2, <1>3, <1>4, <1>6, <1>7 DEF Cache!Shut, Cache!Becomes, Phase

\* Every step of a call is the cache's Make or Forgo, or none of its steps.
LEMMA CallCaches ==
  ASSUME IInv, IInv', NEW c \in Calls, Compile(c) \/ Invoke(c) \/ Preload(c)
  PROVE  [Cache!MNext]_(Cache!mvars)
  <1>1. CASE SlowCompiles(c)
    BY <1>1, CallMakes DEF Cache!MNext
  <1>2. CASE ~SlowCompiles(c)
    <2>1. UNCHANGED <<compiled, open, life>>
      BY <1>2 DEF Compile, CompileClosed, CompileHit, Touch, CompileMiss, SlowClosed, SlowHit,
         SlowFails, SlowRefuses, CloseRefused, Invoke, Leave, Ensure, Fill, FillBlocks, Instantiate,
         InstantiateFails, Finish, Preload, PreloadSkips, PreloadRecords, caching, ending
    <2>2. \A m \in Calls : m # c => pc'[m] = pc[m]
      BY <1>2 DEF Compile, CompileClosed, CompileHit, Touch, CompileMiss, SlowClosed, SlowHit,
         SlowFails, SlowRefuses, Invoke, Leave, Ensure, Fill, FillBlocks, Instantiate,
            InstantiateFails, Finish,
         Preload, PreloadSkips, PreloadRecords, Goto, Return, AfterStore, IInv, TypeOK
    <2>3. Unmade(c)' => Unmade(c)
      BY <1>2 DEF Compile, CompileClosed, CompileHit, Touch, CompileMiss, SlowClosed, SlowHit,
         SlowFails, SlowRefuses, Invoke, Leave, Ensure, Fill, FillBlocks, Instantiate,
            InstantiateFails, Finish,
         Preload, PreloadSkips, PreloadRecords, Goto, Return, AfterStore, IInv, TypeOK, Unmade
    <2>4. Cache!Forgo(c) \/ UNCHANGED Cache!mvars
      BY <2>1, <2>2, <2>3, CallForgoes
    <2> QED
      BY <2>4 DEF Cache!MNext
  <1> QED
    BY <1>1, <1>2

\* Every step of the engine is a step of the cache, or none of its steps.
LEMMA NextCaches == IInv /\ IInv' /\ [Next]_vars => [Cache!MNext]_(Cache!mvars)
  <1> SUFFICES ASSUME IInv, IInv', [Next]_vars PROVE [Cache!MNext]_(Cache!mvars)
    OBVIOUS
  <1>0. ASSUME UNCHANGED <<pc, compiled, open, life>> PROVE UNCHANGED Cache!mvars
    BY <1>0, FatesKept DEF Phase, Unmade
  <1>1. ASSUME NEW c \in Calls, Compile(c) \/ Invoke(c) \/ Preload(c)
        PROVE  [Cache!MNext]_(Cache!mvars)
    BY <1>1, CallCaches
  <1>2. ASSUME NEW r \in Cleaners, Evict(r) \/ CloseModule(r) PROVE [Cache!MNext]_(Cache!mvars)
    <2>1. life' = life
      BY <1>2 DEF Evict, EvictAll, CloseModule, ending
    <2>2. CASE life = "released"
      BY <2>1, <2>2, ReleasedKept
    <2>3. CASE life # "released"
      BY <1>2, <2>3, EvictRetires, EvictionShuts DEF Cache!MNext
    <2> QED
      BY <2>2, <2>3
  <1>3. ASSUME NEW r \in Cleaners, EvictNothing(r) \/ RemovePool(r) \/ RemoveTemplate(r)
        PROVE  UNCHANGED Cache!mvars
    BY <1>0, <1>3 DEF EvictNothing, RemovePool, RemoveTemplate, caching, ending
  <1>4. CASE (\E p \in Paths : Age(p)) \/ ReaperStops \/ Cancel \/ UNCHANGED vars
    BY <1>0, <1>4 DEF Age, ReaperStops, Cancel, vars, caching, ending
  <1>5. CASE CloseMarks
    <2>1. life = "open" /\ life' = "closed" /\ UNCHANGED <<pc, compiled, open>>
      BY <1>5 DEF CloseMarks, caching
    <2>2. CachedModules' = CachedModules
      BY <2>1 DEF CachedModules
    <2>3. \A m \in Calls : Fate(m)' = Fate(m)
      BY <2>1, <2>2 DEF Fate, Unmade
    <2>4. Cache!BeginClose
      BY <2>1, <2>3 DEF Cache!BeginClose, Phase
    <2> QED
      BY <2>4 DEF Cache!MNext
  <1>6. CASE CloseSignals \/ ClosePools
    <2>1. UNCHANGED <<pc, compiled, open>>
      BY <1>6 DEF CloseSignals, ClosePools, caching
    <2>2. Phase' = Phase /\ life' # "released" /\ life # "released"
      BY <1>6 DEF CloseSignals, ClosePools, Phase
    <2> QED
      BY <2>1, <2>2, FatesKept DEF Unmade
  <1>7. CASE CloseRuntime
    <2>1. life = "drained" /\ life' = "released"
      BY <1>7 DEF CloseRuntime
    <2>2. \A m \in Calls : Fate(m)' = "gone"
      BY <2>1 DEF Fate
    <2>3. Cache!Release
      BY <2>1, <2>2 DEF Cache!Release, Cache!Becomes, Phase
    <2> QED
      BY <2>3 DEF Cache!MNext
  <1> QED
    BY <1>1, <1>2, <1>3, <1>4, <1>5, <1>6, <1>7 DEF Next, Clean, Close, Finished, Stuck

\* The engine serves modules as ModuleCache says, for any number of calls, paths
\* and evictions.
THEOREM EngineCaches == Spec => ImplementsCache
  <1>1. Init => Cache!MInit
    <2> SUFFICES ASSUME Init PROVE Cache!MInit
      OBVIOUS
    <2>1. life = "open" /\ \A m \in Calls : pc[m] = "start"
      BY DEF Init
    <2>2. \A m \in Calls : Fate(m) = "unmade"
      BY <2>1 DEF Fate, Unmade
    <2> QED
      BY <2>1, <2>2 DEF Cache!MInit, Phase
  <1> QED
    BY Invariance, NextCaches, <1>1, PTL DEF Spec, ImplementsCache, Cache!MSafe

-----------------------------------------------------------------------------
(* What Compile returns. *)

\* Compile returns a module of the call's path that is open when it is returned, and
\* so, until an eviction or Close comes, when the call instantiates it
\* (executor.go:304-350, 460).
HandedOpen ==
  [][\A c \in Calls :
       mod[c] = None /\ mod'[c] # None =>
         mod'[c] \in open' /\ PathOf[mod'[c]] = PathOf[c]]_vars

\* A module is closed by the one eviction that took it out of the cache, or with the
\* runtime (executor.go:363-415, 214-219).
ClosedByItsEviction ==
  [][\A m \in open \ open' :
       \/ life' = "released"
       \/ \E r \in Cleaners : /\ m \in batch[r] /\ m \notin batch'[r]
                              /\ \A s \in Cleaners : s # r => m \notin batch[s]]_vars

\* A call is handed a module of its path that is open.
THEOREM HandedAnOpenModule == Spec => HandedOpen
  <1>1. IInv /\ [Next]_vars
          => [\A c \in Calls : mod[c] = None /\ mod'[c] # None =>
                mod'[c] \in open' /\ PathOf[mod'[c]] = PathOf[c]]_vars
    <2> SUFFICES ASSUME IInv, [Next]_vars, NEW c \in Calls, mod[c] = None, mod'[c] # None
                 PROVE  mod'[c] \in open' /\ PathOf[mod'[c]] = PathOf[c]
      BY DEF vars
    <2> USE DEF Got, Return, caching, ending
    <2>0. mod \in [Calls -> Calls \cup {None}]
      BY DEF IInv, TypeOK
    <2>1. \/ CompileHit(c) \/ SlowHit(c) \/ SlowCompiles(c)
      <3>1. ASSUME NEW d \in Calls, Compile(d) \/ Invoke(d) \/ Preload(d)
            PROVE  d = c /\ (CompileHit(c) \/ SlowHit(c) \/ SlowCompiles(c))
        BY <2>0, <3>1 DEF Compile, CompileClosed, CompileHit, Touch, CompileMiss, SlowClosed,
           SlowHit, SlowFails, SlowRefuses, SlowCompiles, Invoke, Leave, Ensure, Fill, FillBlocks,
              Instantiate,
           InstantiateFails, Finish, Preload, PreloadSkips, PreloadRecords
      <3>2. ~UNCHANGED mod
        OBVIOUS
      <3> QED
        BY <3>1, <3>2 DEF Next, Age, Evict, EvictAll, EvictNothing, Clean, RemovePool,
           RemoveTemplate,
           CloseModule, ReaperStops, Cancel, CloseMarks, Close, CloseSignals, ClosePools,
           CloseRuntime, Finished, Stuck, vars
    <2>2. CASE CompileHit(c) \/ SlowHit(c)
      <3>1. /\ mod'[c] = compiled[PathOf[c]] /\ Cached(PathOf[c]) /\ life = "open" /\ open' = open
        BY <2>0, <2>2 DEF CompileHit, SlowHit, StillOpen, StillMissing
      <3> QED
        BY <3>1 DEF IInv, Owned, TypeOK, Cached
    <2>3. CASE SlowCompiles(c)
      BY <2>0, <2>3 DEF SlowCompiles
    <2> QED
      BY <2>1, <2>2, <2>3
  <1> QED
    BY Invariance, <1>1, PTL DEF Spec, HandedOpen

\* No module is closed but by the eviction that took it, or with the runtime.
THEOREM OnlyItsEvictionCloses == Spec => ClosedByItsEviction
  <1>1. IInv /\ [Next]_vars
          => [\A m \in open \ open' :
                \/ life' = "released"
                \/ \E r \in Cleaners : /\ m \in batch[r] /\ m \notin batch'[r]
                                       /\ \A s \in Cleaners : s # r => m \notin batch[s]]_vars
    <2> SUFFICES ASSUME IInv, [Next]_vars, NEW m \in open \ open', life' # "released"
                 PROVE  \E r \in Cleaners : /\ m \in batch[r] /\ m \notin batch'[r]
                                            /\ \A s \in Cleaners : s # r => m \notin batch[s]
      BY DEF vars
    <2>1. PICK r \in Cleaners : CloseModule(r)
      <3>1. ASSUME NEW c \in Calls, Compile(c) \/ Invoke(c) \/ Preload(c) PROVE m \in open'
        BY <3>1 DEF Compile, CompileClosed, CompileHit, Touch, CompileMiss, SlowClosed,
           SlowHit, SlowFails, SlowRefuses, CloseRefused, SlowCompiles, Invoke, Leave, Ensure,
              Fill, FillBlocks,
           Instantiate, InstantiateFails, Finish, Preload, PreloadSkips, PreloadRecords, caching
      <3>2. ~CloseRuntime /\ ~UNCHANGED open
        BY DEF CloseRuntime
      <3> QED
        BY <3>1, <3>2 DEF Next, Age, Evict, EvictAll, EvictNothing, Clean, RemovePool,
           RemoveTemplate,
           ReaperStops, Cancel, CloseMarks, Close, CloseSignals, ClosePools,
           Finished, Stuck, vars, caching
    <2>2. PICK k : k = Current(r)
      OBVIOUS
    <2>3. /\ epc[r] = "module" /\ open' = open \ {k} /\ batch' = [batch EXCEPT ![r] = @ \ {k}]
      BY <2>1, <2>2 DEF CloseModule
    <2>4. k \in batch[r] /\ m = k
      BY <2>2, <2>3, CurrentIn DEF IInv, TypeOK
    <2>5. m \notin batch'[r] /\ m \in Calls
      BY <2>3, <2>4 DEF IInv, TypeOK
    <2> QED
      BY <2>4, <2>5 DEF IInv, Apart
  <1> QED
    BY Invariance, <1>1, PTL DEF Spec, ClosedByItsEviction

-----------------------------------------------------------------------------
(* What can be blocked, and by whom. *)

\* A call that keeps the pool store's lock sends to a pool that was given an instance
\* which it had not lent.
BlockedByForeign == \E c \in Calls : pc[c] = "sending" /\ PathOf[c] \in foreign

\* Whoever keeps a lock for ever does so because of such a pool: nobody keeps e.mu but
\* while s.mu is kept, and nobody keeps s.mu otherwise (executor.go:325, 348;
\* proto_store.go:228, 254-262).
BlockedOnlyByForeign == ~StoreFree \/ ~CacheFree => BlockedByForeign

\* The same, call by call.
BInv ==
  /\ \A c \in Calls : pc[c] = "sending" => PathOf[c] \in foreign
  /\ ~CacheFree => ~StoreFree

\* The step of a call: who is stuck stays so, and others get stuck for a reason.
LEMMA CallBlocks ==
  ASSUME TypeOK, BInv, NEW c \in Calls, Compile(c) \/ Invoke(c) \/ Preload(c)
  PROVE  BInv'
  <1> USE DEF Goto, Return, AfterStore, TypeOK
  <1>1. /\ \A d \in Calls : d # c => pc'[d] = pc[d]
        /\ pc[c] # "sending"
        /\ pc'[c] = "sending" => PathOf[c] \in foreign
        /\ pc'[c] = "sizing" => ~StoreFree
    <2>1. CASE Compile(c)
      BY <2>1 DEF Compile, CompileClosed, CompileHit, Touch, CompileMiss, SlowClosed, SlowHit,
         SlowFails, SlowRefuses, SlowCompiles
    <2>2. CASE Invoke(c)
      BY <2>2 DEF Invoke, Leave, Ensure, Fill, FillBlocks, Instantiate, InstantiateFails, Finish
    <2>3. CASE Preload(c)
      BY <2>3 DEF Preload, PreloadSkips, PreloadRecords
    <2> QED
      BY <2>1, <2>2, <2>3
  <1>2. foreign \subseteq foreign'
    BY DEF Compile, CompileClosed, CompileHit, Touch, CompileMiss, SlowClosed, SlowHit,
       SlowFails, SlowRefuses, SlowCompiles, Invoke, Leave, Ensure, Fill, FillBlocks,
       Instantiate, InstantiateFails, Finish, GivesBack, Preload, PreloadSkips, PreloadRecords,
       pooling
  <1>3. \A d \in Calls : pc[d] = "sending" => pc'[d] = "sending"
    BY <1>1
  <1> QED
    BY <1>1, <1>2, <1>3 DEF BInv, StoreFree, CacheFree

\* A pool can be removed only while nobody sends to it.
LEMMA NextBInv == TypeOK /\ BInv /\ [Next]_vars => BInv'
  <1> SUFFICES ASSUME TypeOK, BInv, [Next]_vars PROVE BInv'
    OBVIOUS
  <1>1. ASSUME NEW c \in Calls, Compile(c) \/ Invoke(c) \/ Preload(c) PROVE BInv'
    BY <1>1, CallBlocks
  <1>2. ASSUME pc' = pc, StoreFree \/ foreign' = foreign PROVE BInv'
    BY <1>2 DEF BInv, StoreFree, CacheFree
  <1>3. ASSUME NEW r \in Cleaners, Evict(r) \/ EvictNothing(r) \/ Clean(r) PROVE BInv'
    BY <1>2, <1>3 DEF Evict, EvictAll, EvictNothing, Clean, RemovePool, ClosePoolsOf,
       RemoveTemplate, CloseModule, pooling
  <1>4. CASE (\E p \in Paths : Age(p)) \/ ReaperStops \/ Cancel \/ CloseMarks \/ Close
    BY <1>2, <1>4 DEF Age, ReaperStops, Cancel, CloseMarks, Close, CloseSignals, ClosePools,
       ClosePoolsOf, CloseRuntime, pooling
  <1>5. CASE Finished \/ Stuck \/ UNCHANGED vars
    BY <1>2, <1>5 DEF Finished, Stuck, vars, pooling
  <1> QED
    BY <1>1, <1>3, <1>4, <1>5 DEF Next

\* Nothing but a pool with a foreign instance blocks the store, and nothing but a
\* blocked store blocks the cache.
THEOREM OnlyForeignBlocks == Spec => []BlockedOnlyByForeign
  <1>1. Init => BInv
    BY DEF Init, BInv, CacheFree
  <1>2. BInv => BlockedOnlyByForeign
    BY DEF BInv, BlockedOnlyByForeign, BlockedByForeign, StoreFree
  <1> QED
    BY TypeCorrect, NextBInv, <1>1, <1>2, PTL DEF Spec

-----------------------------------------------------------------------------
(* What Close waits for. *)

\* Whether the next step of Close, or of the reaper, waits for nobody. (The guards of
\* the steps: ENABLED is out of the prover's reach.)
CloseMoves ==
  \/ life \in {"closed", "drained"}
  \/ life = "signalled" /\ epc[Reaper] = "done" /\ StoreFree

ReaperMoves ==
  \/ epc[Reaper] = "pool" /\ StoreFree
  \/ epc[Reaper] \in {"template", "module"}
  \/ epc[Reaper] = "idle" /\ stopping

\* A Close that has begun can go on, or the reaper can, for which it waits: in the
\* middle of an eviction, or because it was told to stop; or a pool with a foreign
\* instance blocks the store, which both of them need (executor.go:202-219, 693-745;
\* proto_store.go:228). Close and the reaper never block each other.
CloseNeverStuck ==
  life \notin {"open", "released"} => CloseMoves \/ ReaperMoves \/ BlockedByForeign

\* The reaper was told before Close waits for it.
ToldFirst == life \in {"signalled", "drained", "released"} => stopping

\* Nobody takes the word back.
LEMMA NextTold == ToldFirst /\ [Next]_vars => ToldFirst'
  <1> SUFFICES ASSUME ToldFirst, [Next]_vars PROVE ToldFirst'
    OBVIOUS
  <1>1. ASSUME UNCHANGED <<life, stopping>> PROVE ToldFirst'
    BY <1>1 DEF ToldFirst
  <1>2. ASSUME NEW c \in Calls, Compile(c) \/ Invoke(c) \/ Preload(c) PROVE ToldFirst'
    BY <1>1, <1>2 DEF Compile, CompileClosed, CompileHit, Touch, CompileMiss, SlowClosed, SlowHit,
       SlowFails, SlowRefuses, SlowCompiles, Invoke, Leave, Ensure, Fill, FillBlocks, Instantiate,
       InstantiateFails, Finish, Preload, PreloadSkips, PreloadRecords, ending
  <1>3. ASSUME NEW r \in Cleaners, Evict(r) \/ EvictNothing(r) \/ Clean(r) PROVE ToldFirst'
    BY <1>1, <1>3 DEF Evict, EvictAll, EvictNothing, Clean, RemovePool, RemoveTemplate,
       CloseModule, ending
  <1>4. CASE (\E p \in Paths : Age(p)) \/ ReaperStops \/ Finished \/ Stuck \/ UNCHANGED vars
    BY <1>1, <1>4 DEF Age, ReaperStops, Finished, Stuck, vars, ending
  <1>5. CASE Cancel \/ CloseMarks \/ CloseSignals \/ ClosePools \/ CloseRuntime
    BY <1>5 DEF Cancel, CloseMarks, CloseSignals, ClosePools, CloseRuntime, ToldFirst
  <1> QED
    BY <1>2, <1>3, <1>4, <1>5 DEF Next, Close

\* Nothing stops a Close but a blocked store, and that only after a foreign instance.
THEOREM CloseCanGoOn == Spec => []CloseNeverStuck
  <1>1. Init => ToldFirst
    BY DEF Init, ToldFirst
  <1>2. TypeOK /\ ToldFirst /\ BlockedOnlyByForeign => CloseNeverStuck
    BY DEF TypeOK, ToldFirst, CloseNeverStuck, CloseMoves, ReaperMoves, Lives, Cleaners,
           BlockedOnlyByForeign
  <1> QED
    BY TypeCorrect, OnlyForeignBlocks, NextTold, <1>1, <1>2, PTL DEF Spec
=============================================================================

----------------------------- MODULE HostProofs -----------------------------
(***************************************************************************)
(* Proofs about Host, for any number of requests and workers and for any   *)
(* deployments next to it: the order in which a host ends, what            *)
(* deployments leave in the store and in the registry, what a benchmark    *)
(* measures, when the registry is ready, what an answer is worth, and that *)
(* nothing but the engine can hold a host up.                              *)
(***************************************************************************)
EXTENDS Host, SequenceTheorems, FiniteSetTheorems, TLAPS

\* The stages before the first request, and after the dispatcher has stopped.
Early == {"start", "list", "preload", "dispatch", "warmup"}
Middle == {"measure", "serving", "shutdown", "closing", "draining"}
Late == {"engine", "exiting", "exited"}

NoRequest == \A q \in Requests : req[q] = "none"

RequestTypes ==
  /\ req \in [Requests -> {"none", "lookup", "submit", "wait", "done"}]
  /\ code \in [Requests -> Outcomes \cup {None}]
  /\ status \in [Requests -> {"new", "refused", "admitted", "ran"}]
  /\ {open, stopped} \subseteq BOOLEAN

\* Where the engine is open and where the dispatcher is.
Stages ==
  /\ stage \in Early \cup Middle \cup Late
  /\ stage \in Middle => eng = "open"
  /\ stage \notin {"start", "exiting", "exited"} => eng = "open"
  /\ stage \notin Late \cup {"draining"} => open
  /\ stopped => ~open
  /\ stage \in {"preload", "warmup", "measure"} => host = "bench"

\* A job exists only once its request has come, and only while jobs are run.
JobsInTime ==
  /\ \A q \in Requests : status[q] = "admitted" => req[q] # "none"
  /\ stage \in Early => NoRequest
  /\ stage \in Late => /\ open => NoRequest
                       /\ \A q \in Requests : status[q] # "admitted"

\* A gateway that was not cut short has no handler left when it closes.
Grace ==
  Gateway /\ ~cut =>
    /\ stage \in Late \cup {"closing", "draining"} => \A q \in Requests : req[q] \in {"none",
       "done"}
    /\ \A q \in Requests : code[q] # "503"

IInv == RequestTypes /\ Stages /\ JobsInTime /\ Grace

-----------------------------------------------------------------------------
\* A host starts with no request, no job and no engine.
LEMMA InitInv == Init => IInv
  <1> SUFFICES ASSUME Init PROVE IInv
    OBVIOUS
  <1>1. RequestTypes
    BY DEF Init, RequestTypes, Svc!SInit
  <1>2. Stages
    <2>1. stage = "start" \/ stage = "exited"
      BY DEF Init
    <2>2. open /\ ~stopped
      BY Zenon DEF Init, Svc!SInit
    <2> QED
      BY <2>1, <2>2 DEF Stages, Early, Middle, Late
  <1>3. \A q \in Requests : req[q] = "none" /\ code[q] # "503" /\ status[q] = "new"
    BY HostAssumption DEF Init, Outcomes, Svc!SInit
  <1>4. JobsInTime /\ Grace
    BY <1>3 DEF JobsInTime, Grace, NoRequest
  <1> QED
    BY <1>1, <1>2, <1>4 DEF IInv

\* A step that leaves requests, dispatcher, engine and stage alone keeps the invariant.
LEMMA QuietStep ==
  ASSUME IInv, UNCHANGED <<host, stage, eng, cut, rvars, svars>>
  PROVE  IInv'
  BY DEF IInv, RequestTypes, Stages, JobsInTime, Grace, NoRequest, Gateway, rvars, svars

\* A request moves from one phase to a later one; only a closed dispatcher tells
\* it so.
LEMMA RequestStep ==
  ASSUME IInv, UNCHANGED <<host, stage, eng, cut, svars>>, NEW q \in Requests,
         req[q] # "none", req[q] # "done",
         NEW l \in {"submit", "done"}, req' = [req EXCEPT ![q] = l],
         NEW c \in Outcomes \cup {None},
         code' = code \/ (code' = [code EXCEPT ![q] = c] /\ (c = "503" => stage \in Late \cup {"draining"}))
  PROVE  IInv'
  <1> USE DEF IInv, svars
  <1>1. RequestTypes' /\ Stages'
    BY DEF RequestTypes, Stages
  <1>2. \A p \in Requests : req'[p] = IF p = q THEN l ELSE req[p]
    BY DEF RequestTypes
  <1>3. JobsInTime'
    BY <1>2 DEF JobsInTime, NoRequest
  <1>4. Grace'
    BY <1>2 DEF Grace, Gateway, RequestTypes
  <1> QED
    BY <1>1, <1>3, <1>4

\* A step of Main between the start and the first request, or one that gives up
\* there, changes no request.
LEMMA StartStep ==
  ASSUME IInv, UNCHANGED <<host, cut, rvars, svars>>,
         stage \in Early,
         \/ eng' = eng /\ stage # "start" /\ stage' \in {"dispatch", "engine", "serving", "closing"}
         \/ eng' = eng /\ stage # "start" /\ host = "bench" /\ stage' \in {"warmup", "measure"}
         \/ eng' = eng /\ stage = "start" /\ stage' = "exited"
         \/ eng' = "open" /\ stage' \in {"list", "dispatch"}
         \/ eng' = "open" /\ host = "bench" /\ stage' = "preload"
  PROVE  IInv'
  <1> USE DEF rvars, svars
  <1>1. NoRequest /\ open
    BY DEF IInv, JobsInTime, Stages, Early, Late
  <1>2. RequestTypes'
    BY DEF IInv, RequestTypes
  <1>3. Stages'
    BY <1>1 DEF IInv, Stages, Early, Middle, Late
  <1>4. JobsInTime'
    BY <1>1 DEF IInv, JobsInTime, NoRequest
  <1>5. Grace'
    BY <1>1 DEF IInv, Grace, NoRequest, Gateway
  <1> QED
    BY <1>2, <1>3, <1>4, <1>5 DEF IInv

\* A query of the registry, from Main or from a request.
LEMMA RegistryStep ==
  ASSUME IInv, NEW x \in {Main} \cup Requests, Registry(x)
  PROVE  IInv'
  <1> USE DEF dbvars
  <1>1. CASE Knock(x) \/ FindsOpen(x) \/ OpenDB(x) \/ CreateTable(x) \/ AddColumns(x)
    BY <1>1, QuietStep DEF Knock, FindsOpen, OpenDB, CreateTable, AddColumns
  <1>2. CASE x = Main /\ (OpenFails(x) \/ InitFails(x) \/ Query(x))
    <2>1. /\ stage = "list" /\ stage' \in {"dispatch", "engine"} /\ eng' = eng
          /\ UNCHANGED <<host, cut, rvars, svars>>
      BY <1>2 DEF OpenFails, Enters, InitFails, Query, Asks, Failed
    <2> QED
      BY <2>1, StartStep DEF Early
  <1>3. CASE x # Main /\ (OpenFails(x) \/ InitFails(x) \/ Query(x))
    <2>1. /\ x \in Requests /\ req[x] = "lookup"
          /\ UNCHANGED <<host, stage, eng, cut, svars>>
      BY <1>3 DEF OpenFails, Enters, InitFails, Query, Asks, Failed, Reply
    <2>2. \/ req' = [req EXCEPT ![x] = "done"] /\ code' = [code EXCEPT ![x] = "404"]
          \/ req' = [req EXCEPT ![x] = "submit"] /\ code' = code
      BY <1>3 DEF OpenFails, InitFails, Query, Failed, Reply
    <2> QED
      BY <2>1, <2>2, RequestStep DEF Outcomes
  <1> QED
    BY <1>1, <1>2, <1>3 DEF Registry

\* A submission, its answer, and the run of a job.
LEMMA CallStep ==
  ASSUME IInv, NEW q \in Requests, Call(q) \/ RunJob(q)
  PROVE  IInv'
  <1> USE DEF svars, rvars
  <1>1. CASE BodyFails(q)
    BY <1>1, RequestStep DEF BodyFails, Reply, Outcomes
  <1>2. CASE Answered(q)
    <2>1. stopped => stage \in Late \cup {"draining"}
      BY DEF IInv, Stages
    <2> QED
      BY <1>2, <2>1, RequestStep DEF Answered, Reply, Outcomes
  <1>3. CASE Submitted(q)
    <2>1. /\ stage # "exited" /\ req[q] = "submit" /\ open
          /\ status' = [status EXCEPT ![q] = "admitted"]
          /\ req' = [req EXCEPT ![q] = "wait"]
          /\ UNCHANGED <<host, stage, eng, cut, code, open, stopped>>
      BY <1>3 DEF Submitted, Alive, Svc!Admit
    <2>2. stage \in Middle
      BY <2>1 DEF IInv, Stages, JobsInTime, NoRequest
    <2>3. RequestTypes' /\ Stages'
      BY <2>1 DEF IInv, RequestTypes, Stages
    <2>4. JobsInTime'
      BY <2>1, <2>2 DEF IInv, JobsInTime, RequestTypes, Middle, Early, Late, NoRequest
    <2>5. Grace'
      BY <2>1 DEF IInv, Grace, Gateway, RequestTypes
    <2> QED
      BY <2>3, <2>4, <2>5 DEF IInv
  <1>4. CASE Refused(q)
    <2>1. /\ req[q] = "submit" /\ status' = [status EXCEPT ![q] = "refused"]
          /\ req' = [req EXCEPT ![q] = "done"]
          /\ \E c \in {"500", IF open THEN "429" ELSE "503"} : code' = [code EXCEPT ![q] = c]
          /\ UNCHANGED <<host, stage, eng, cut, open, stopped>>
      BY <1>4 DEF Refused, Reply, Svc!Refuse
    <2>2. RequestTypes' /\ Stages'
      BY <2>1 DEF IInv, RequestTypes, Stages, Outcomes
    <2>3. JobsInTime'
      BY <2>1 DEF IInv, JobsInTime, RequestTypes, NoRequest
    <2>4. Grace'
      <3>1. ASSUME Gateway, ~cut PROVE open
        BY <2>1, <3>1 DEF IInv, Grace, Stages, Gateway
      <3> QED
        BY <2>1, <3>1 DEF IInv, Grace, Gateway, RequestTypes
    <2> QED
      BY <2>2, <2>3, <2>4 DEF IInv
  <1>5. CASE RunJob(q)
    <2>1. /\ status[q] = "admitted" /\ status' = [status EXCEPT ![q] = "ran"]
          /\ UNCHANGED <<host, stage, eng, cut, req, code, open, stopped>>
      BY <1>5 DEF RunJob, Svc!Run
    <2> QED
      BY <2>1 DEF IInv, RequestTypes, Stages, JobsInTime, Grace, NoRequest, Gateway
  <1> QED
    BY <1>1, <1>2, <1>3, <1>4, <1>5 DEF Call

\* A request arrives, or a worker of the benchmark takes or measures an iteration.
LEMMA ArriveStep ==
  ASSUME IInv, UNCHANGED <<host, stage, eng, cut, code, svars>>, stage \in {"serving", "measure"},
         NEW q \in Requests, NEW l \in {"lookup", "submit"}, req' = [req EXCEPT ![q] = l]
  PROVE  IInv'
  <1> USE DEF svars
  <1>1. RequestTypes' /\ Stages'
    BY DEF IInv, RequestTypes, Stages
  <1>2. JobsInTime'
    BY DEF IInv, JobsInTime, RequestTypes, Early, Late
  <1>3. Grace'
    BY DEF IInv, Grace, Gateway, Late
  <1> QED
    BY <1>1, <1>2, <1>3 DEF IInv

\* Main, from the first request to the end.
LEMMA EndStep ==
  ASSUME IInv,
         \/ MeasuredAll \/ Quit \/ Signal \/ ListenFails \/ ShutdownDone \/ ShutdownTimesOut
         \/ CloseDispatcher \/ DispatcherStops \/ CloseEngine \/ Exit
  PROVE  IInv'
  <1> USE DEF Goto, svars, rvars
  <1>1. CASE MeasuredAll \/ Quit
    BY <1>1 DEF MeasuredAll, Quit, IInv, RequestTypes, Stages, JobsInTime, Grace,
       NoRequest,
                Gateway, Early, Middle, Late
  <1>2. CASE Signal \/ ListenFails
    BY <1>2 DEF Signal, ListenFails, IInv, RequestTypes, Stages, JobsInTime, Grace,
       NoRequest,
                Gateway, Early, Middle, Late
  <1>3. CASE ShutdownDone \/ ShutdownTimesOut
    BY <1>3 DEF ShutdownDone, ShutdownTimesOut, HandlersReturned, GraceOver, Active, IInv,
                RequestTypes, Stages, JobsInTime, Grace, NoRequest, Gateway, Early, Middle, Late
  <1>4. CASE CloseDispatcher
    BY <1>4 DEF CloseDispatcher, Svc!StopAdmission, IInv, RequestTypes, Stages,
       JobsInTime, Grace,
                NoRequest, Gateway, Early, Middle, Late
  <1>5. CASE DispatcherStops
    BY <1>5 DEF DispatcherStops, Drained, Svc!Stop, Svc!Admitted, IInv, RequestTypes,
       Stages,
                JobsInTime, Grace, NoRequest, Gateway, Early, Middle, Late
  <1>6. CASE CloseEngine \/ Exit
    BY <1>6 DEF CloseEngine, Exit, IInv, RequestTypes, Stages, JobsInTime, Grace,
       NoRequest,
                Gateway, Early, Middle, Late
  <1> QED
    BY <1>1, <1>2, <1>3, <1>4, <1>5, <1>6

\* Every step keeps the invariant.
LEMMA NextInv == IInv /\ [Next]_vars => IInv'
  <1> SUFFICES ASSUME IInv, [Next]_vars PROVE IInv'
    OBVIOUS
  <1> USE HostAssumption DEF svars, rvars, dbvars, bvars
  <1>1. CASE Registry(Main)
    BY <1>1, RegistryStep
  <1>2. ASSUME NEW q \in Requests, Registry(q) PROVE IInv'
    BY <1>2, RegistryStep
  <1>3. ASSUME NEW q \in Requests, Call(q) \/ RunJob(q) PROVE IInv'
    BY <1>3, CallStep
  <1>4. ASSUME NEW q \in Requests, Arrive(q) PROVE IInv'
    BY <1>4, ArriveStep DEF Arrive
  <1>5. ASSUME NEW w \in Workers, Take(w) PROVE IInv'
    <2>1. CASE UNCHANGED req
      BY <1>5, <2>1, QuietStep DEF Take
    <2>2. CASE InRange(next) /\ next \in Requests
      BY <1>5, <2>2, ArriveStep DEF Take
    <2>3. CASE next \notin Requests /\ req' = [req EXCEPT ![next] = "submit"]
      <3>1. req' = req
        BY <2>3 DEF IInv, RequestTypes
      <3> QED
        BY <2>1, <3>1
    <2> QED
      BY <1>5, <2>1, <2>2, <2>3 DEF Take
  <1>6. ASSUME NEW w \in Workers, Measure(w) PROVE IInv'
    BY <1>6, QuietStep DEF Measure
  <1>7. CASE NewEngine \/ NewEngineFails \/ PreloadEnds \/ NewDispatcher \/ WarmupEnds
    <2>1. stage \in {"preload", "warmup"} => host = "bench"
      BY DEF IInv, Stages
    <2> QED
      BY <1>7, <2>1, StartStep
         DEF NewEngine, NewEngineFails, PreloadEnds, NewDispatcher, WarmupEnds, Goto, Early
  <1>8. CASE MeasuredAll \/ Quit \/ Signal \/ ListenFails \/ ShutdownDone \/ ShutdownTimesOut
             \/ CloseDispatcher \/ DispatcherStops \/ CloseEngine \/ Exit
    BY <1>8, EndStep
  <1>9. ASSUME NEW d \in Deployers, Deploying(d) PROVE IInv'
    BY <1>9, QuietStep DEF Deploying
  <1>10. CASE UNCHANGED vars
    BY <1>10, QuietStep DEF vars
  <1> QED
    BY <1>1, <1>2, <1>3, <1>4, <1>5, <1>6, <1>7, <1>8, <1>9, <1>10 DEF Next, MainStep,
       Finished

-----------------------------------------------------------------------------
(* Theorems. *)

\* The invariant holds in every state of a host.
THEOREM Invariance == Spec => []IInv
  BY InitInv, NextInv, PTL DEF Spec

\* No accepted job meets a closed engine, however the host ends.
THEOREM JobsRunOnOpenEngine == Spec => []ServedOnOpenEngine
  <1>1. IInv => ServedOnOpenEngine
    BY DEF IInv, ServedOnOpenEngine, Svc!Admitted, Stages, JobsInTime, NoRequest
  <1> QED
    BY Invariance, <1>1, PTL

\* A gateway that ends within its grace period has answered every request.
THEOREM GraceAnswersAll == Spec => []GracefulEndAnswersAll
  <1>1. IInv => GracefulEndAnswersAll
    BY DEF IInv, GracefulEndAnswersAll, Grace, Active, Late
  <1> QED
    BY Invariance, <1>1, PTL

-----------------------------------------------------------------------------
(* Deployments. *)

Busy == {"entry", "first", "second", "validate", "register", "broken"}

\* The entry at which a deployer stands, and that it has been checked.
Standing ==
  /\ dpc \in [Deployers -> Busy \cup {"start", "done", "failed"}]
  /\ at \in [Deployers -> Nat]
  /\ \A d \in Deployers :
       /\ at[d] \in 1..(Len(Manifest[d]) + 1)
       /\ dpc[d] = "start" => at[d] = 1
       /\ dpc[d] \in Busy => at[d] \in 1..Len(Manifest[d])
       /\ dpc[d] \notin {"start", "failed"} \/ at[d] > 1 => d \in Singles \/ Loadable(Manifest[d])

\* The content that a file was made for.
ContentOf(f) == IF f = OldFile THEN OldContent ELSE Manifest[f[1]][f[2]].content

\* The paths of different contents lead to different files.
Stored ==
  /\ fd \in [Deployers -> Files \cup {None}]
  /\ \A d \in Deployers : dpc[d] \in {"first", "second"} => fd[d] \in Files
  /\ stored \in [Contents -> Files \cup {None}]
  /\ data \in [Files -> SUBSET Whole]
  /\ rows \in [Names -> Rows \cup {None}]
  /\ \A k \in Contents : stored[k] # None => ContentOf(stored[k]) = k

\* Deployers of content k in one of the phases p.
Writing(p, k) == {d \in Deployers : dpc[d] \in p /\ Content(d) = k}

\* Unless a deployment of k broke, its path is there for whoever deploys it or
\* has deployed it, and a half that is missing has still to be written.
Sound(k) ==
  /\ Writing({"first", "second", "validate", "register"}, k) # {} => stored[k] # None
  /\ \A d \in Writing({"first", "second"}, k) : fd[d] = stored[k]
  /\ \A n \in Registered : rows[n].content = k => stored[k] # None
  /\ stored[k] # None => 1 \in data[stored[k]] \/ Writing({"first"}, k) # {}
  /\ stored[k] # None => 2 \in data[stored[k]] \/ Writing({"first", "second"}, k) # {}

SoundOrBroken == \A k \in Contents : Writing({"broken"}, k) # {} \/ Sound(k)

DInv == Standing /\ Stored /\ SoundOrBroken

\* What there is to know of a deployer's entry.
LEMMA EntryIs ==
  ASSUME NEW d \in Deployers, NEW i \in 1..Len(Manifest[d])
  PROVE  /\ Manifest[d] \in Seq(Entries) /\ Len(Manifest[d]) \in Nat
         /\ Manifest[d][i] \in Entries
         /\ Manifest[d][i].content \in Contents /\ Manifest[d][i].name \in Names
         /\ RouteOf(Manifest[d][i]) \in Names
         /\ <<d, i>> \in Files /\ <<d, i>> # OldFile
         /\ ContentOf(<<d, i>>) = Manifest[d][i].content
  <1>1. Manifest[d] \in Seq(Entries) /\ Len(Manifest[d]) \in Nat /\ DOMAIN Manifest[d] = 1..Len(Manifest[d])
    BY DeployAssumption
  <1>2. Manifest[d][i] \in Entries
    BY <1>1
  <1>3. /\ Manifest[d][i].content \in Contents /\ Manifest[d][i].name \in Names
        /\ RouteOf(Manifest[d][i]) \in Names
    BY <1>2 DEF Entries, RouteOf
  <1>4. <<d, i>> \in Files
    BY <1>1 DEF Files
  <1>5. <<d, i>> # OldFile
    BY <1>1 DEF OldFile
  <1> QED
    BY <1>1, <1>2, <1>3, <1>4, <1>5 DEF ContentOf

\* Initially nobody has begun.
LEMMA InitDInv == DInit => DInv
  <1> SUFFICES ASSUME DInit PROVE DInv
    OBVIOUS
  <1>1. \A d \in Deployers : Len(Manifest[d]) \in Nat
    BY DeployAssumption
  <1>2. Standing
    BY <1>1 DEF DInit, Standing, Busy
  <1>3. OldFile \in Files /\ \A k \in Contents : stored[k] # None => k = OldContent /\ stored[k] = OldFile
    BY DEF DInit, Files
  <1>4. rows \in [Names -> Rows \cup {None}]
    BY <1>3, DeployAssumption DEF DInit, Rows
  <1>5. Stored
    BY <1>3, <1>4 DEF DInit, Stored, ContentOf, Whole
  <1>6. \A k \in Contents : Sound(k)
    <2>1. \A d \in Deployers : dpc[d] = "start"
      BY DEF DInit
    <2>2. \A n \in Registered : rows[n].content = OldContent /\ Before # {}
      BY DEF DInit, Registered
    <2>3. \A k \in Contents : stored[k] # None => data[stored[k]] = Whole
      BY <1>3 DEF DInit
    <2>4. OldContent \in Contents /\ (Before # {} => stored[OldContent] # None)
      BY <1>3, NoneAssumption, DeployAssumption DEF DInit
    <2> QED
      BY <2>1, <2>2, <2>3, <2>4 DEF Sound, Writing, Whole
  <1> QED
    BY <1>2, <1>5, <1>6 DEF DInv, SoundOrBroken

\* A step of one deployer leaves the others where they are.
LEMMA OthersStand ==
  ASSUME Standing, Stored, NEW d \in Deployers, DeployStep(d)
  PROVE  \A e \in Deployers \ {d} : dpc'[e] = dpc[e] /\ at'[e] = at[e] /\ fd'[e] = fd[e]
                                    /\ Content(e)' = Content(e)
  <1>1. \A e \in Deployers \ {d} : dpc'[e] = dpc[e] /\ at'[e] = at[e] /\ fd'[e] = fd[e]
    <2>1. /\ \E l : dpc' = [dpc EXCEPT ![d] = l]
          /\ at' = at \/ at' = [at EXCEPT ![d] = @ + 1]
      BY DEF DeployStep, Load, SkipDisabled, SourceFails, Truncate, WriteFirst,
         WriteSecond,
         WriteFails, Abort, Validate, ValidateFails, RegisterFails, Save, Advance, DGoto
    <2>2. fd' = fd \/ \E f : fd' = [fd EXCEPT ![d] = f]
      BY DEF DeployStep, Load, SkipDisabled, SourceFails, Truncate, WriteFirst,
         WriteSecond,
         WriteFails, Validate, ValidateFails, RegisterFails, Save
    <2> QED
      BY <2>1, <2>2 DEF Standing, Stored
  <1> QED
    BY <1>1 DEF Content, Entry

LEMMA NextStanding ==
  ASSUME Standing, Stored, NEW d \in Deployers, DeployStep(d)
  PROVE  Standing'
  <1>1. \A e \in Deployers \ {d} : dpc'[e] = dpc[e] /\ at'[e] = at[e]
    BY OthersStand
  <1>2. ASSUME dpc' \in [Deployers -> Busy \cup {"start", "done", "failed"}],
               at' \in [Deployers -> Nat],
               dpc'[d] # "start", at'[d] \in 1..(Len(Manifest[d]) + 1),
               dpc'[d] \in Busy => at'[d] \in 1..Len(Manifest[d]),
               dpc'[d] # "failed" \/ at'[d] > 1 => d \in Singles \/ Loadable(Manifest[d])
        PROVE  Standing'
    <2>1. ASSUME NEW e \in Deployers
          PROVE  /\ at'[e] \in 1..(Len(Manifest[e]) + 1)
                 /\ dpc'[e] = "start" => at'[e] = 1
                 /\ dpc'[e] \in Busy => at'[e] \in 1..Len(Manifest[e])
                 /\ dpc'[e] \notin {"start", "failed"} \/ at'[e] > 1
                      => e \in Singles \/ Loadable(Manifest[e])
      <3>1. CASE e = d
        BY <1>2, <3>1
      <3>2. CASE e # d
        BY <1>1, <3>2 DEF Standing
      <3> QED
        BY <3>1, <3>2
    <2> QED
      BY <1>2, <2>1 DEF Standing
  <1>3. Len(Manifest[d]) \in Nat /\ at[d] \in Nat
    BY DeployAssumption DEF Standing
  <1>4. CASE Load(d)
    <2>1. dpc'[d] = "entry" => Len(Manifest[d]) > 0 /\ (d \in Singles \/ Loadable(Manifest[d]))
      <3>1. Manifest[d] # <<>> => Len(Manifest[d]) > 0
        BY DeployAssumption, EmptySeq
      <3>2. Loadable(Manifest[d]) => Len(Manifest[d]) > 0
        BY <3>1 DEF Loadable
      <3>3. d \in Singles => Len(Manifest[d]) > 0
        <4>1. d \in Singles => Len(Manifest[d]) = 1
          BY DeployAssumption, Zenon
        <4> QED
          BY <4>1
      <3>4. dpc'[d] = IF d \in Singles \/ Loadable(Manifest[d]) THEN "entry" ELSE "failed"
        BY <1>4 DEF Load, DGoto, Standing
      <3> QED
        BY <3>2, <3>3, <3>4
    <2>2. /\ at' = at /\ dpc[d] = "start" /\ dpc'[d] \in {"entry", "failed"}
          /\ dpc' \in [Deployers -> Busy \cup {"start", "done", "failed"}]
      BY <1>4 DEF Load, DGoto, Standing, Busy
    <2>3. at[d] = 1 /\ at' \in [Deployers -> Nat]
      BY <2>2 DEF Standing
    <2> QED
      BY <1>2, <1>3, <2>1, <2>2, <2>3 DEF Busy
  <1>5. CASE SkipDisabled(d) \/ Save(d)
    <2>1. /\ dpc[d] \in {"entry", "register"}
          /\ at' = [at EXCEPT ![d] = @ + 1]
          /\ dpc' = [dpc EXCEPT ![d] = IF at[d] = Len(Manifest[d]) THEN "done" ELSE "entry"]
      BY <1>5 DEF SkipDisabled, Save, Advance, DGoto
    <2>2. at[d] \in 1..Len(Manifest[d]) /\ (d \in Singles \/ Loadable(Manifest[d]))
      BY <2>1 DEF Standing, Busy
    <2>3. /\ at'[d] = at[d] + 1 /\ at' \in [Deployers -> Nat]
          /\ dpc'[d] = IF at[d] = Len(Manifest[d]) THEN "done" ELSE "entry"
          /\ dpc' \in [Deployers -> Busy \cup {"start", "done", "failed"}]
      BY <1>3, <2>1 DEF Standing, Busy
    <2> QED
      BY <1>2, <1>3, <2>2, <2>3 DEF Busy
  <1>6. CASE ~(Load(d) \/ SkipDisabled(d) \/ Save(d))
    <2>1. /\ at' = at /\ dpc[d] \in Busy /\ dpc'[d] \in Busy \cup {"failed"}
          /\ dpc' \in [Deployers -> Busy \cup {"start", "done", "failed"}]
      BY <1>6 DEF Standing, Busy, DeployStep, SourceFails, Truncate, WriteFirst,
         WriteSecond,
         WriteFails, Abort, Validate, ValidateFails, RegisterFails, DGoto
    <2>2. at[d] \in 1..Len(Manifest[d]) /\ (d \in Singles \/ Loadable(Manifest[d]))
          /\ at' \in [Deployers -> Nat]
      BY <2>1 DEF Standing, Busy
    <2> QED
      BY <1>2, <1>3, <2>1, <2>2 DEF Busy
  <1> QED
    BY <1>4, <1>5, <1>6

\* The files keep to their contents.
LEMMA NextStored ==
  ASSUME Standing, Stored, NEW d \in Deployers, DeployStep(d)
  PROVE  Stored'
  <1>1. dpc[d] \in Busy => /\ at[d] \in 1..Len(Manifest[d]) /\ Content(d) \in Contents
                           /\ Entry(d).name \in Names /\ RouteOf(Entry(d)) \in Names
                           /\ <<d, at[d]>> \in Files /\ ContentOf(<<d, at[d]>>) = Content(d)
    BY EntryIs DEF Standing, Content, Entry
  <1>2. CASE Truncate(d)
    <2> DEFINE f == IF stored[Content(d)] = None THEN <<d, at[d]>> ELSE stored[Content(d)]
    <2>1. f \in Files /\ ContentOf(f) = Content(d) /\ Content(d) \in Contents
      BY <1>1, <1>2 DEF Truncate, Stored, Busy
    <2>2. /\ stored' = [stored EXCEPT ![Content(d)] = f] /\ fd' = [fd EXCEPT ![d] = f]
          /\ data' = [data EXCEPT ![f] = {}] /\ dpc' = [dpc EXCEPT ![d] = "first"]
          /\ rows' = rows
      BY <1>2 DEF Truncate, DGoto
    <2> HIDE DEF f
    <2>3. /\ fd' \in [Deployers -> Files \cup {None}]
          /\ \A e \in Deployers : dpc'[e] \in {"first", "second"} => fd'[e] \in Files
      BY <2>1, <2>2 DEF Stored, Standing
    <2>4. /\ stored' \in [Contents -> Files \cup {None}]
          /\ \A k \in Contents : stored'[k] # None => ContentOf(stored'[k]) = k
      BY <2>1, <2>2 DEF Stored
    <2>5. data' \in [Files -> SUBSET Whole] /\ rows' \in [Names -> Rows \cup {None}]
      BY <2>1, <2>2 DEF Stored
    <2> QED
      BY <2>3, <2>4, <2>5 DEF Stored, ContentOf
  <1>3. CASE WriteFirst(d) \/ WriteSecond(d)
    <2>1. /\ dpc[d] \in {"first", "second"} /\ fd[d] \in Files
          /\ \E h \in Whole : data' = [data EXCEPT ![fd[d]] = @ \cup {h}]
          /\ \A e \in Deployers : dpc'[e] \in {"first", "second"} => dpc[e] \in {"first", "second"}
          /\ UNCHANGED <<fd, stored, rows>>
      BY <1>3 DEF WriteFirst, WriteSecond, DGoto, Stored, Standing, Whole
    <2>2. data' \in [Files -> SUBSET Whole]
      BY <2>1 DEF Stored
    <2> QED
      BY <2>1, <2>2 DEF Stored, ContentOf
  <1>4. CASE ValidateFails(d)
    BY <1>1, <1>4 DEF ValidateFails, DGoto, Stored, Standing, ContentOf
  <1>5. CASE Save(d)
    <2>1. [content |-> Content(d), route |-> RouteOf(Entry(d)), by |-> <<d, at[d]>>] \in Rows
      BY <1>1, <1>5 DEF Save, Rows, Busy
    <2>2. rows' \in [Names -> Rows \cup {None}]
      BY <1>1, <1>5, <2>1 DEF Save, Stored, Busy
    <2>3. \A e \in Deployers : dpc'[e] \in {"first", "second"} => dpc[e] \in {"first", "second"}
      BY <1>5 DEF Save, Advance, DGoto, Standing
    <2>4. UNCHANGED <<fd, stored, data>>
      BY <1>5 DEF Save
    <2> QED
      BY <2>2, <2>3, <2>4 DEF Stored, ContentOf
  <1>6. CASE ~(Truncate(d) \/ WriteFirst(d) \/ WriteSecond(d) \/ ValidateFails(d) \/ Save(d))
    <2>1. /\ \A e \in Deployers : dpc'[e] \in {"first", "second"} => dpc[e] \in {"first", "second"}
          /\ UNCHANGED <<fd, stored, data, rows>>
      BY <1>6 DEF Standing, DeployStep, Load, SkipDisabled, SourceFails, WriteFails,
         Abort, Validate,
         RegisterFails, Advance, DGoto
    <2> QED
      BY <2>1 DEF Stored, ContentOf
  <1> QED
    BY <1>2, <1>3, <1>4, <1>5, <1>6

\* Every step of a deployment keeps the store sound, or breaks the content.
LEMMA NextSound ==
  ASSUME DInv, NEW d \in Deployers, DeployStep(d)
  PROVE  SoundOrBroken'
  <1> SUFFICES ASSUME NEW k \in Contents
               PROVE  Writing({"broken"}, k)' # {} \/ Sound(k)'
    BY DEF SoundOrBroken
  <1>1. \A e \in Deployers \ {d} : /\ dpc'[e] = dpc[e] /\ fd'[e] = fd[e]
                                   /\ Content(e)' = Content(e)
    BY OthersStand DEF DInv
  <1>2. \A p : Writing(p, k)' = {e \in Deployers : dpc'[e] \in p /\ Content(e)' = k}
    BY DEF Writing
  <1>3. at' = at => Content(d)' = Content(d)
    BY DEF Content, Entry
  <1>4. Standing /\ Stored
    BY DEF DInv
  <1>5. CASE Writing({"broken"}, k) # {}
    <2>1. dpc[d] # "broken"
      BY DEF DeployStep, Load, SkipDisabled, SourceFails, Truncate, WriteFirst,
         WriteSecond,
         WriteFails, Validate, ValidateFails, RegisterFails, Save
    <2> QED
      BY <1>1, <1>2, <1>5, <2>1 DEF Writing
  <1>6. ASSUME Sound(k),
               UNCHANGED <<fd, stored, data, rows>>,
               dpc[d] \notin {"first", "second"}, dpc'[d] \notin {"first", "second"},
               dpc'[d] \in {"validate", "register"} => at' = at /\ dpc[d] \in {"validate",
                  "register"}
        PROVE  Sound(k)'
    <2>1. \A p \in {{"first"}, {"first", "second"}} : Writing(p, k)' = Writing(p, k)
      BY <1>1, <1>2, <1>6 DEF Writing
    <2>2. Writing({"first", "second", "validate", "register"}, k)'
            \subseteq Writing({"first", "second", "validate", "register"}, k)
      BY <1>1, <1>2, <1>3, <1>6 DEF Writing
    <2> QED
      BY <1>6, <2>1, <2>2 DEF Sound, Registered
  <1>7. ASSUME Sound(k),
     Load(d) \/ SkipDisabled(d) \/ SourceFails(d) \/ Validate(d) \/ RegisterFails(d)
        PROVE  Sound(k)'
    <2>1. /\ UNCHANGED <<fd, stored, data, rows>>
          /\ dpc[d] \notin {"first", "second"}
          /\ dpc'[d] \notin {"first", "second"}
          /\ dpc'[d] \in {"validate", "register"} => at' = at /\ dpc[d] \in {"validate", "register"}
      BY <1>4, <1>7 DEF Load, SkipDisabled, SourceFails, Validate, RegisterFails,
         Advance, DGoto, Standing
    <2> QED
      BY <1>6, <1>7, <2>1
  <1>8. ASSUME Sound(k), Save(d) PROVE Sound(k)'
    <2>1. /\ UNCHANGED <<fd, stored, data>> /\ dpc[d] = "register" /\ dpc'[d] \in {"done", "entry"}
          /\ rows' = [rows EXCEPT ![Entry(d).name] =
                [content |-> Content(d), route |-> RouteOf(Entry(d)), by |-> <<d, at[d]>>]]
      BY <1>4, <1>8 DEF Save, Advance, DGoto, Standing
    <2>2. \A p \in {{"first"}, {"first", "second"}} : Writing(p, k)' = Writing(p, k)
      BY <1>1, <1>2, <2>1 DEF Writing
    <2>3. Writing({"first", "second", "validate", "register"}, k)'
            \subseteq Writing({"first", "second", "validate", "register"}, k)
      BY <1>1, <1>2, <2>1 DEF Writing
    <2>4. Content(d) = k => stored[k] # None
      BY <1>8, <2>1 DEF Sound, Writing
    <2>5. \A n \in Names : rows'[n] = rows[n] \/ rows'[n].content = Content(d)
      BY <1>4, <2>1 DEF Stored
    <2>6. \A n \in Registered' : rows'[n].content = k => stored'[k] # None
      BY <1>8, <2>1, <2>4, <2>5 DEF Sound, Registered
    <2> QED
      BY <1>8, <2>1, <2>2, <2>3, <2>6 DEF Sound
  <1>9. CASE WriteFails(d) \/ ValidateFails(d)
    <2>1. dpc'[d] = "broken" /\ dpc[d] \in {"first", "second", "validate"} /\ at' = at
      BY <1>4, <1>9 DEF WriteFails, Abort, ValidateFails, DGoto, Standing
    <2>2. CASE Content(d) = k
      BY <1>2, <1>3, <2>1, <2>2
    <2>3. CASE Content(d) # k /\ Sound(k)
      <3>1. \A p : Writing(p, k)' = Writing(p, k)
        BY <1>1, <1>2, <1>3, <2>1, <2>3 DEF Writing
      <3>2. stored'[k] = stored[k] /\ UNCHANGED <<fd, data, rows>>
        BY <1>4, <1>9, <2>3 DEF WriteFails, ValidateFails, Stored
      <3> QED
        BY <2>3, <3>1, <3>2 DEF Sound, Registered
    <2> QED
      BY <1>5, <2>2, <2>3 DEF DInv, SoundOrBroken
  <1>10. ASSUME Sound(k), Truncate(d) PROVE Sound(k)'
    <2> DEFINE f == IF stored[Content(d)] = None THEN <<d, at[d]>> ELSE stored[Content(d)]
    <2>1. /\ f \in Files /\ ContentOf(f) = Content(d) /\ Content(d) \in Contents
          /\ stored[Content(d)] # None => f = stored[Content(d)]
      <3>1. at[d] \in 1..Len(Manifest[d])
        BY <1>4, <1>10 DEF Truncate, Standing, Busy
      <3> QED
        BY <1>4, <3>1, EntryIs DEF Stored, Content, Entry
    <2>2. /\ stored' = [stored EXCEPT ![Content(d)] = f] /\ fd' = [fd EXCEPT ![d] = f]
          /\ data' = [data EXCEPT ![f] = {}] /\ dpc[d] = "entry" /\ dpc'[d] = "first"
          /\ at' = at /\ rows' = rows
      BY <1>4, <1>10 DEF Truncate, DGoto, Standing
    <2> HIDE DEF f
    <2>3. f # None
      BY <2>1, NoneAssumption
    <2>4. CASE Content(d) = k
      <3>1. stored'[k] = f /\ fd'[d] = f
        BY <1>4, <2>2, <2>4 DEF Stored
      <3>2. d \in Writing({"first"}, k)' /\ d \in Writing({"first", "second"}, k)'
        BY <1>2, <1>3, <2>2, <2>4
      <3>3. \A e \in Writing({"first", "second"}, k)' : fd'[e] = stored'[k]
        <4>1. \A e \in Writing({"first", "second"}, k) : fd[e] = f
          BY <1>10, <2>1, <2>4 DEF Sound, Writing
        <4> QED
          BY <1>1, <1>2, <3>1, <4>1 DEF Writing
      <3> QED
        BY <2>3, <3>1, <3>2, <3>3 DEF Sound
    <2>5. CASE Content(d) # k
      <3>1. \A p : Writing(p, k)' = Writing(p, k)
        BY <1>1, <1>2, <1>3, <2>2, <2>5 DEF Writing
      <3>2. stored'[k] = stored[k]
        BY <1>4, <2>2, <2>5 DEF Stored
      <3>3. stored[k] # None => data'[stored[k]] = data[stored[k]]
        BY <1>4, <2>1, <2>2, <2>5 DEF Stored
      <3>4. d \notin Writing({"first", "second"}, k)
        BY <2>5 DEF Writing
      <3>5. \A e \in Writing({"first", "second"}, k) : fd'[e] = fd[e]
        BY <1>1, <3>4 DEF Writing
      <3> QED
        BY <1>10, <2>2, <3>1, <3>2, <3>3, <3>5 DEF Sound, Registered
    <2> QED
      BY <2>4, <2>5
  <1>11. ASSUME Sound(k), WriteFirst(d) \/ WriteSecond(d) PROVE Sound(k)'
    <2>1. /\ dpc[d] \in {"first", "second"} /\ fd[d] \in Files
          /\ dpc[d] = "first" => dpc'[d] = "second" /\ data' = [data EXCEPT ![fd[d]] = @ \cup {1}]
          /\ dpc[d] = "second" => dpc'[d] = "validate" /\ data' = [data EXCEPT ![fd[d]] = @ \cup {2}]
          /\ UNCHANGED <<at, fd, stored, rows>>
      BY <1>4, <1>11 DEF WriteFirst, WriteSecond, DGoto, Standing, Stored
    <2>2. \A f \in Files : data[f] \subseteq data'[f]
      BY <1>4, <2>1 DEF Stored
    <2>3. \A e \in Writing({"first", "second"}, k)' : e \in Writing({"first", "second"}, k)
      BY <1>1, <1>2, <1>3, <2>1 DEF Writing
    <2>4. /\ Writing({"first", "second", "validate", "register"}, k)'
               = Writing({"first", "second", "validate", "register"}, k)
          /\ stored'[k] = stored[k]
      BY <1>1, <1>2, <1>3, <2>1 DEF Writing
    <2>5. stored[k] # None => stored[k] \in Files
      BY <1>4 DEF Stored
    <2>6. \A e \in Writing({"first"}, k) : e # d => e \in Writing({"first"}, k)'
      BY <1>1, <1>2 DEF Writing
    <2>7. \A e \in Writing({"first", "second"}, k) : e # d => e \in Writing({"first", "second"}, k)'
      BY <1>1, <1>2 DEF Writing
    <2>8. d \in Writing({"first"}, k) => 1 \in data'[stored[k]] /\ d \in Writing({"first",
       "second"}, k)'
      <3> SUFFICES ASSUME d \in Writing({"first"}, k)
                   PROVE  1 \in data'[stored[k]] /\ d \in Writing({"first", "second"}, k)'
        OBVIOUS
      <3>1. dpc[d] = "first" /\ Content(d) = k /\ fd[d] = stored[k]
        BY <1>11 DEF Writing, Sound
      <3> QED
        BY <1>2, <1>3, <1>4, <2>1, <3>1 DEF Stored
    <2>9. d \in Writing({"first", "second"}, k) /\ dpc[d] = "second" => 2 \in data'[stored[k]]
      <3> SUFFICES ASSUME d \in Writing({"first", "second"}, k), dpc[d] = "second"
                   PROVE  2 \in data'[stored[k]]
        OBVIOUS
      <3>1. fd[d] = stored[k]
        BY <1>11 DEF Sound
      <3> QED
        BY <1>4, <2>1, <3>1 DEF Stored
    <2>10. stored[k] # None => 1 \in data'[stored[k]] \/ Writing({"first"}, k)' # {}
      BY <1>11, <2>2, <2>5, <2>6, <2>8 DEF Sound
    <2>11. stored[k] # None => 2 \in data'[stored[k]] \/ Writing({"first", "second"}, k)' # {}
      <3>1. d \in Writing({"first", "second"}, k) => dpc[d] = "second" \/ d \in Writing({"first"},
         k)
        BY DEF Writing
      <3> QED
        BY <1>11, <2>2, <2>5, <2>7, <2>8, <2>9, <3>1 DEF Sound
    <2>12. \A n \in Registered' : rows'[n].content = k => stored'[k] # None
      BY <1>11, <2>1, <2>4 DEF Sound, Registered
    <2> QED
      BY <1>11, <2>1, <2>3, <2>4, <2>10, <2>11, <2>12 DEF Sound
  <1> QED
    BY <1>5, <1>7, <1>8, <1>9, <1>10, <1>11 DEF DInv, SoundOrBroken, DeployStep

\* What a registered function needs is there.
LEMMA SoundIsStored == DInv => RegisteredIsStored
  <1> SUFFICES ASSUME DInv, NEW n \in Registered
               PROVE  \/ Intact(rows[n].content)
                      \/ \E d \in Deployers : Disturbs(d, rows[n].content)
    BY DEF RegisteredIsStored
  <1> DEFINE k == rows[n].content
  <1>1. k \in Contents
    BY DEF Registered, DInv, Stored, Rows
  <1>2. CASE Writing({"first", "second", "broken"}, k) # {}
    BY <1>2 DEF Writing, Disturbs
  <1>3. CASE Writing({"first", "second", "broken"}, k) = {}
    <2>1. Writing({"first"}, k) = {} /\ Writing({"first", "second"}, k) = {} /\ Writing({"broken"},
       k) = {}
      BY <1>3 DEF Writing
    <2>2. Sound(k) /\ stored[k] # None /\ stored[k] \in Files
      BY <1>1, <2>1 DEF DInv, SoundOrBroken, Sound, Stored
    <2>3. data[stored[k]] \in SUBSET Whole
      BY <2>2 DEF DInv, Stored
    <2>4. data[stored[k]] = Whole
      BY <2>1, <2>2, <2>3 DEF Sound, Whole
    <2> QED
      BY <2>2, <2>4 DEF Intact
  <1> QED
    BY <1>2, <1>3

-----------------------------------------------------------------------------
(* What a deployment has registered. *)

\* The rows of a deployer are those of its entries so far.
RowsOfEntries ==
  /\ \A n \in Registered : \A d \in Deployers : rows[n].by[1] = d =>
       LET i == rows[n].by[2] IN
       /\ i \in 1..(at[d] - 1)
       /\ Manifest[d][i].name = n /\ RouteOf(Manifest[d][i]) = rows[n].route
  /\ \A d \in Deployers : \A i \in 1..(at[d] - 1) :
       Manifest[d][i].enabled => Manifest[d][i].name \in Registered

LEMMA InitRows == DInit => RowsOfEntries
  <1> SUFFICES ASSUME DInit PROVE RowsOfEntries
    OBVIOUS
  <1>1. \A n \in Registered : rows[n].by[1] = None
    BY DEF DInit, Registered, OldFile
  <1>2. \A d \in Deployers : \A i \in 1..(at[d] - 1) : FALSE
    <2>1. \A d \in Deployers : at[d] = 1
      BY DEF DInit
    <2> QED
      BY <2>1
  <1> QED
    BY <1>1, <1>2, NoneAssumption DEF RowsOfEntries

\* Every step of a deployment keeps its rows.
LEMMA NextRows ==
  ASSUME DInv, RowsOfEntries, NEW d \in Deployers, DeployStep(d)
  PROVE  RowsOfEntries'
  <1>1. Standing /\ Stored
    BY DEF DInv
  <1>2. \A e \in Deployers : at[e] \in Nat
    BY <1>1 DEF Standing
  <1>3. CASE Save(d)
    <2> DEFINE name == Entry(d).name
               row == [content |-> Content(d), route |-> RouteOf(Entry(d)), by |-> <<d, at[d]>>]
    <2>1. /\ at' = [at EXCEPT ![d] = @ + 1] /\ rows' = [rows EXCEPT ![name] = row]
      BY <1>3 DEF Save, Advance
    <2>2. /\ at[d] \in 1..Len(Manifest[d]) /\ name \in Names
          /\ <<d, at[d]>> \in Files /\ RouteOf(Entry(d)) \in Names /\ Content(d) \in Contents
      BY <1>1, <1>3, EntryIs DEF Save, Standing, Busy, Entry, Content
    <2>3. row # None
      BY <2>2, NoneAssumption DEF Rows
    <2>4. row.by[1] = d /\ row.by[2] = at[d] /\ row.route = RouteOf(Manifest[d][at[d]])
          /\ name = Manifest[d][at[d]].name
      BY DEF Entry
    <2> HIDE DEF name, row
    <2>5. /\ \A n \in Names : rows'[n] = IF n = name THEN row ELSE rows[n]
          /\ \A e \in Deployers : at'[e] = IF e = d THEN at[e] + 1 ELSE at[e]
      BY <1>1, <2>1 DEF Stored, Standing
    <2>6. Registered' = Registered \cup {name}
      BY <2>2, <2>3, <2>5 DEF Registered
    <2>7. ASSUME NEW n \in Registered', NEW e \in Deployers, rows'[n].by[1] = e
          PROVE  LET i == rows'[n].by[2] IN
                 /\ i \in 1..(at'[e] - 1)
                 /\ Manifest[e][i].name = n /\ RouteOf(Manifest[e][i]) = rows'[n].route
      <3>1. CASE n = name
        <4>1. rows'[n] = row /\ e = d /\ at'[d] = at[d] + 1
          BY <2>2, <2>4, <2>5, <2>7, <3>1
        <4>2. at[d] \in 1..(at'[d] - 1)
          BY <1>2, <2>2, <4>1
        <4> QED
          BY <2>4, <3>1, <4>1, <4>2
      <3>2. CASE n # name
        <4>1. n \in Registered /\ n \in Names /\ rows'[n] = rows[n]
          BY <2>5, <2>6, <3>2 DEF Registered
        <4>2. LET i == rows[n].by[2] IN
              /\ i \in 1..(at[e] - 1)
              /\ Manifest[e][i].name = n /\ RouteOf(Manifest[e][i]) = rows[n].route
          BY <2>7, <4>1 DEF RowsOfEntries
        <4>3. \A i \in 1..(at[e] - 1) : i \in 1..(at'[e] - 1)
          BY <1>2, <2>5
        <4> QED
          BY <4>1, <4>2, <4>3
      <3> QED
        BY <3>1, <3>2
    <2>8. ASSUME NEW e \in Deployers, NEW i \in 1..(at'[e] - 1), Manifest[e][i].enabled
          PROVE  Manifest[e][i].name \in Registered'
      <3>1. i \in 1..(at[e] - 1) \/ (e = d /\ i = at[d])
        BY <1>2, <2>5
      <3> QED
        BY <2>4, <2>6, <2>8, <3>1 DEF RowsOfEntries
    <2> QED
      BY <2>7, <2>8 DEF RowsOfEntries
  <1>4. CASE SkipDisabled(d)
    <2>1. /\ \A e \in Deployers : at'[e] = IF e = d THEN at[e] + 1 ELSE at[e]
          /\ ~Manifest[d][at[d]].enabled /\ rows' = rows
      BY <1>1, <1>4 DEF SkipDisabled, Advance, Entry, Standing
    <2>2. \A e \in Deployers : \A i \in 1..(at[e] - 1) : i \in 1..(at'[e] - 1)
      BY <1>2, <2>1
    <2>3. \A e \in Deployers : \A i \in 1..(at'[e] - 1) :
            i \in 1..(at[e] - 1) \/ (e = d /\ i = at[d])
      BY <1>2, <2>1
    <2>4. Registered' = Registered
      BY <2>1 DEF Registered
    <2>5. \A n \in Registered' : \A e \in Deployers : rows'[n].by[1] = e =>
            LET i == rows'[n].by[2] IN
            /\ i \in 1..(at'[e] - 1)
            /\ Manifest[e][i].name = n /\ RouteOf(Manifest[e][i]) = rows'[n].route
      BY <2>1, <2>2, <2>4 DEF RowsOfEntries
    <2>6. \A e \in Deployers : \A i \in 1..(at'[e] - 1) :
            Manifest[e][i].enabled => Manifest[e][i].name \in Registered'
      BY <2>1, <2>3, <2>4 DEF RowsOfEntries
    <2> QED
      BY <2>5, <2>6 DEF RowsOfEntries
  <1>5. CASE ~(Save(d) \/ SkipDisabled(d))
    <2>1. UNCHANGED <<at, rows>>
      BY <1>5 DEF DeployStep, Load, SourceFails, Truncate, WriteFirst, WriteSecond,
         WriteFails, Validate, ValidateFails, RegisterFails
    <2> QED
      BY <2>1 DEF RowsOfEntries, Registered, RouteOf
  <1> QED
    BY <1>3, <1>4, <1>5

\* The entries of a manifest that is being deployed differ in names and routes.
LEMMA EntriesDiffer ==
  ASSUME NEW d \in Deployers, d \in Singles \/ Loadable(Manifest[d]),
         NEW i \in 1..Len(Manifest[d]), NEW j \in 1..Len(Manifest[d]), i # j
  PROVE  /\ Manifest[d][i].name # Manifest[d][j].name
         /\ RouteOf(Manifest[d][i]) # RouteOf(Manifest[d][j])
  <1>1. DOMAIN Manifest[d] = 1..Len(Manifest[d]) /\ Len(Manifest[d]) \in Nat
    BY DeployAssumption
  <1>2. CASE Loadable(Manifest[d])
    BY <1>1, <1>2 DEF Loadable
  <1>3. CASE d \in Singles
    <2>1. Len(Manifest[d]) = 1
      BY <1>3, DeployAssumption, Zenon
    <2> QED
      BY <2>1
  <1> QED
    BY <1>2, <1>3

LEMMA RowsArePrefix == DInv /\ RowsOfEntries => ManifestIsPrefix
  <1> SUFFICES ASSUME DInv, RowsOfEntries, NEW d \in Deployers
               PROVE  /\ \A n \in Registered :
                           rows[n].by[1] = d =>
                             /\ rows[n].by[2] < at[d]
                             /\ \A m \in Registered : m # n /\ rows[m].by[1] = d
                                                        => rows[m].route # rows[n].route
                      /\ \A i \in 1..(at[d] - 1) :
                           Manifest[d][i].enabled =>
                             /\ Manifest[d][i].name \in Registered
                             /\ rows[Manifest[d][i].name].by[1] = d
                                  => rows[Manifest[d][i].name].by[2] = i
    BY DEF ManifestIsPrefix
  <1>1. /\ at[d] \in Nat /\ at[d] \in 1..(Len(Manifest[d]) + 1) /\ Len(Manifest[d]) \in Nat
        /\ at[d] > 1 => d \in Singles \/ Loadable(Manifest[d])
    BY DeployAssumption DEF DInv, Standing
  <1>2. \A i \in 1..(at[d] - 1) : i \in 1..Len(Manifest[d]) /\ at[d] > 1 /\ i < at[d]
    BY <1>1
  <1>3. \A i, j \in 1..(at[d] - 1) : i # j => /\ Manifest[d][i].name # Manifest[d][j].name
                                              /\ RouteOf(Manifest[d][i]) # RouteOf(Manifest[d][j])
    BY <1>1, <1>2, EntriesDiffer
  <1>4. \A n \in Registered : rows[n].by[1] = d =>
          /\ rows[n].by[2] \in 1..(at[d] - 1)
          /\ Manifest[d][rows[n].by[2]].name = n
          /\ RouteOf(Manifest[d][rows[n].by[2]]) = rows[n].route
    BY DEF RowsOfEntries
  <1>5. \A i \in 1..(at[d] - 1) : Manifest[d][i].enabled => Manifest[d][i].name \in Registered
    BY DEF RowsOfEntries
  <1>6. ASSUME NEW n \in Registered, rows[n].by[1] = d
        PROVE  /\ rows[n].by[2] < at[d]
               /\ \A m \in Registered : m # n /\ rows[m].by[1] = d => rows[m].route # rows[n].route
    <2> DEFINE k == rows[n].by[2]
    <2>1. k \in 1..(at[d] - 1) /\ Manifest[d][k].name = n /\ RouteOf(Manifest[d][k]) = rows[n].route
      BY <1>4, <1>6
    <2>2. k < at[d]
      BY <1>2, <2>1
    <2>3. ASSUME NEW m \in Registered, m # n, rows[m].by[1] = d PROVE rows[m].route # rows[n].route
      <3> DEFINE l == rows[m].by[2]
      <3>1. l \in 1..(at[d] - 1) /\ Manifest[d][l].name = m /\ RouteOf(Manifest[d][l]) = rows[m].route
        BY <1>4, <2>3
      <3> HIDE DEF k, l
      <3> QED
        BY <1>3, <2>1, <2>3, <3>1
    <2> QED
      BY <2>2, <2>3 DEF k
  <1>7. ASSUME NEW i \in 1..(at[d] - 1), Manifest[d][i].enabled
        PROVE  /\ Manifest[d][i].name \in Registered
               /\ rows[Manifest[d][i].name].by[1] = d => rows[Manifest[d][i].name].by[2] = i
    <2> DEFINE n == Manifest[d][i].name
               k == rows[n].by[2]
    <2>1. n \in Registered
      BY <1>5, <1>7
    <2>2. ASSUME rows[n].by[1] = d PROVE k = i
      <3>1. k \in 1..(at[d] - 1) /\ Manifest[d][k].name = n
        BY <1>4, <2>1, <2>2
      <3> HIDE DEF k
      <3> QED
        BY <1>3, <1>7, <3>1
    <2> QED
      BY <2>1, <2>2
  <1> QED
    BY <1>6, <1>7

-----------------------------------------------------------------------------
\* Only deployers change what deployments share; the hosts add to the schema.
LEMMA HostsOnlyRead ==
  ASSUME [Next]_vars
  PROVE  (\E d \in Deployers : DeployStep(d)) \/ UNCHANGED <<dpc, at, fd, stored, data, rows>>
  <1> DEFINE Q == UNCHANGED <<dpc, at, fd, stored, data, rows>>
  <1> USE DEF dvars
  <1>1. ASSUME NEW x, Registry(x) PROVE Q
    BY <1>1 DEF Registry, Knock, FindsOpen, OpenDB, OpenFails, CreateTable, AddColumns, InitFails,
       Query
  <1>2. ASSUME NEW q \in Requests, Arrive(q) \/ Call(q) \/ RunJob(q) PROVE Q
    BY <1>2 DEF Arrive, Call, RunJob, BodyFails, Submitted, Refused, Answered
  <1>3. ASSUME NEW w \in Workers, Take(w) \/ Measure(w) PROVE Q
    BY <1>3 DEF Take, Measure
  <1>4. CASE MainStep \/ Quit \/ Signal \/ ListenFails
    BY <1>4 DEF MainStep, NewEngine, NewEngineFails, PreloadEnds, NewDispatcher,
       WarmupEnds,
       MeasuredAll, ShutdownDone, ShutdownTimesOut, CloseDispatcher, DispatcherStops, CloseEngine,
       Exit, Quit, Signal, ListenFails
  <1>5. CASE Finished \/ UNCHANGED vars
    BY <1>5 DEF Finished, vars
  <1>6. ASSUME NEW d \in Deployers, Deploying(d) PROVE DeployStep(d)
    BY <1>6 DEF Deploying
  <1> QED
    BY <1>1, <1>2, <1>3, <1>4, <1>5, <1>6 DEF Next

\* The store and the registry keep what deployments make of them.
LEMMA NextDeployed ==
  DInv /\ RowsOfEntries /\ [Next]_vars => DInv' /\ RowsOfEntries'
  <1> SUFFICES ASSUME DInv, RowsOfEntries, [Next]_vars PROVE DInv' /\ RowsOfEntries'
    OBVIOUS
  <1>1. ASSUME NEW d \in Deployers, DeployStep(d) PROVE DInv' /\ RowsOfEntries'
    BY <1>1, NextStanding, NextStored, NextSound, NextRows DEF DInv
  <1>2. CASE UNCHANGED <<dpc, at, fd, stored, data, rows>>
    <2>1. /\ Standing' /\ Stored'
          /\ \A p, k : Writing(p, k)' = Writing(p, k)
          /\ Registered' = Registered
      BY <1>2 DEF DInv, Standing, Stored, ContentOf, Writing, Content, Entry, Registered
    <2>2. SoundOrBroken'
      BY <1>2, <2>1 DEF DInv, SoundOrBroken, Sound
    <2>3. RowsOfEntries'
      BY <1>2, <2>1 DEF RowsOfEntries, RouteOf
    <2> QED
      BY <2>1, <2>2, <2>3 DEF DInv
  <1> QED
    BY <1>1, <1>2, HostsOnlyRead

LEMMA Deployed == Spec => [](DInv /\ RowsOfEntries)
  <1>1. Init => DInv /\ RowsOfEntries
    BY InitDInv, InitRows DEF Init
  <1> QED
    BY <1>1, NextDeployed, PTL DEF Spec

\* The module of a registered function is in the store and whole, except while
\* another deployment of its content is written or after one has failed.
THEOREM ModulesAreStored == Spec => []RegisteredIsStored
  BY Deployed, SoundIsStored, PTL

\* What a deployment has registered are its enabled entries so far, and no two of
\* its functions share a route.
THEOREM ManifestsArePrefixes == Spec => []ManifestIsPrefix
  BY Deployed, RowsArePrefix, PTL

-----------------------------------------------------------------------------
(* The benchmark's iterations. *)

\* The workers that measure iteration q.
On(q) == {w \in Workers : doing[w] = q}

Failing == {q \in Requests : measured[q] = 1 /\ IsError(code[q])}

BenchTypes ==
  /\ next \in Nat \ {0} /\ errors \in Nat
  /\ doing \in [Workers -> 0..Iterations] /\ returned \subseteq Workers
  /\ measured \in [Requests -> Nat]

\* An iteration that was taken is with one worker or measured, once.
EachOnce ==
  \A q \in Requests :
    /\ measured[q] <= 1
    /\ measured[q] = 1 => req[q] = "done"
    /\ q >= next => measured[q] = 0 /\ On(q) = {}
    /\ q < next => measured[q] = 1 \/ On(q) # {}
    /\ measured[q] = 1 => On(q) = {}
    /\ \A v, w \in On(q) : v = w

\* A worker returns when there is nothing to take, and the summary comes after all.
AllBeforeSummary ==
  /\ \A w \in returned : doing[w] = 0 /\ next > Iterations
  /\ next > 1 => Workers # {}
  /\ stage \in Early => next = 1
  /\ host = "bench" /\ next > 1 /\ stage # "measure" => \A q \in Requests : measured[q] = 1

ErrorsCounted == IsFiniteSet(Failing) /\ errors = Cardinality(Failing)

BInv == BenchTypes /\ EachOnce /\ AllBeforeSummary /\ ErrorsCounted

LEMMA InitBInv == Init => BInv
  <1> SUFFICES ASSUME Init PROVE BInv
    OBVIOUS
  <1>1. BenchTypes
    BY HostAssumption DEF Init, BenchTypes
  <1>2. EachOnce
    BY <1>1, HostAssumption DEF Init, EachOnce, On, Requests
  <1>3. AllBeforeSummary
    BY DEF Init, AllBeforeSummary
  <1>4. Failing = {}
    BY DEF Init, Failing
  <1>5. ErrorsCounted
    BY <1>4, FS_EmptySet DEF Init, ErrorsCounted
  <1> QED
    BY <1>1, <1>2, <1>3, <1>5 DEF BInv

\* A step of a request that is not done yet, or of nothing here.
LEMMA BenchKept ==
  ASSUME BInv, UNCHANGED <<next, doing, returned, measured, errors, host>>,
         \A q \in Requests : req[q] = "done" => req'[q] = "done" /\ code'[q] = code[q],
         stage' \in Early => stage \in Early,
         host = "bench" /\ next > 1 => stage' = "measure" \/ stage # "measure"
  PROVE  BInv'
  <1> USE DEF BInv
  <1>1. \A q \in Requests : On(q)' = On(q)
    BY DEF On
  <1>2. BenchTypes'
    BY DEF BenchTypes
  <1>3. EachOnce'
    BY <1>1 DEF EachOnce
  <1>4. AllBeforeSummary'
    BY DEF AllBeforeSummary
  <1>5. Failing' = Failing
    BY DEF Failing, IsError, EachOnce
  <1>6. ErrorsCounted'
    BY <1>5 DEF ErrorsCounted
  <1> QED
    BY <1>2, <1>3, <1>4, <1>6

\* A worker takes the next iteration, or finds that there is none.
LEMMA BenchTakes ==
  ASSUME BInv, IInv, NEW w \in Workers, Take(w)
  PROVE  BInv'
  <1> USE DEF BInv
  <1>1. /\ stage = "measure" /\ doing[w] = 0 /\ w \notin returned /\ next' = next + 1
        /\ UNCHANGED <<stage, host, code, measured, errors>>
        /\ next \in Nat \ {0} /\ Iterations \in Nat
    BY HostAssumption DEF Take, BenchTypes
  <1>2. CASE InRange(next)
    <2>1. /\ doing' = [doing EXCEPT ![w] = next] /\ req' = [req EXCEPT ![next] = "submit"]
          /\ UNCHANGED returned /\ next \in Requests
      BY <1>1, <1>2 DEF Take, InRange, Requests
    <2>2. BenchTypes'
      BY <1>1, <2>1 DEF BenchTypes, Requests
    <2>3. \A q \in Requests : On(q)' = IF q = next THEN {w} ELSE On(q)
      <3>1. \A v \in Workers : doing'[v] = IF v = w THEN next ELSE doing[v]
        BY <2>1 DEF BenchTypes
      <3>2. \A v \in Workers : doing[v] # next
        BY <1>1, <2>1 DEF EachOnce, On
      <3>3. \A q \in Requests : q # 0
        BY HostAssumption DEF Requests
      <3> QED
        BY <1>1, <3>1, <3>2, <3>3 DEF On
    <2>4. \A q \in Requests : req'[q] = IF q = next THEN "submit" ELSE req[q]
      BY <2>1 DEF IInv, RequestTypes
    <2>5. \A q \in Requests : q \in Nat /\ (q # next => (q >= next' <=> q >= next) /\ (q < next' <=> q < next))
      BY <1>1, HostAssumption DEF Requests
    <2>6. measured[next] = 0 /\ next < next'
      BY <1>1, <2>1 DEF EachOnce
    <2>7. EachOnce'
      <3>1. ASSUME NEW q \in Requests
            PROVE  /\ measured'[q] <= 1
                   /\ measured'[q] = 1 => req'[q] = "done"
                   /\ q >= next' => measured'[q] = 0 /\ On(q)' = {}
                   /\ q < next' => measured'[q] = 1 \/ On(q)' # {}
                   /\ measured'[q] = 1 => On(q)' = {}
                   /\ \A v, u \in On(q)' : v = u
        <4>1. CASE q = next
          BY <1>1, <2>3, <2>6, <4>1
        <4>2. CASE q # next
          BY <1>1, <2>3, <2>4, <2>5, <4>2 DEF EachOnce
        <4> QED
          BY <4>1, <4>2
      <3> QED
        BY <3>1 DEF EachOnce
    <2>8. AllBeforeSummary'
      BY <1>1, <1>2, <2>1, HostAssumption DEF AllBeforeSummary, InRange, Early
    <2>9. Failing' = Failing
      BY <1>1 DEF Failing, IsError
    <2> QED
      BY <1>1, <2>2, <2>7, <2>8, <2>9 DEF ErrorsCounted
  <1>3. CASE ~InRange(next)
    <2>1. returned' = returned \cup {w} /\ UNCHANGED <<doing, req>>
      BY <1>3 DEF Take
    <2>2. BenchTypes'
      BY <1>1, <2>1 DEF BenchTypes
    <2>3. \A q \in Requests : On(q)' = On(q) /\ q < next /\ q < next' /\ q \in Nat
      BY <1>1, <1>3, <2>1, HostAssumption DEF On, Requests, InRange
    <2>4. EachOnce'
      BY <1>1, <2>1, <2>3 DEF EachOnce
    <2>5. AllBeforeSummary'
      BY <1>1, <1>3, <2>1, HostAssumption DEF AllBeforeSummary, InRange, Early
    <2>6. Failing' = Failing
      BY <1>1 DEF Failing, IsError
    <2> QED
      BY <1>1, <2>2, <2>4, <2>5, <2>6 DEF ErrorsCounted
  <1> QED
    BY <1>2, <1>3

\* A worker writes the latency of its iteration and counts an error.
LEMMA BenchMeasures ==
  ASSUME BInv, NEW w \in Workers, Measure(w)
  PROVE  BInv'
  <1> USE DEF BInv
  <1> DEFINE q0 == doing[w]
  <1>1. /\ stage = "measure" /\ q0 # 0 /\ req[q0] = "done"
        /\ measured' = [measured EXCEPT ![q0] = @ + 1]
        /\ errors' = IF IsError(code[q0]) THEN errors + 1 ELSE errors
        /\ doing' = [doing EXCEPT ![w] = 0]
        /\ UNCHANGED <<stage, host, req, code, next, returned>>
    BY DEF Measure, rvars
  <1>2. q0 \in Requests /\ w \in On(q0)
    BY <1>1, HostAssumption DEF BenchTypes, Requests, On
  <1>3. measured[q0] = 0
    BY <1>2 DEF EachOnce, BenchTypes
  <1> HIDE DEF q0
  <1>4. \A q \in Requests : measured'[q] = IF q = q0 THEN 1 ELSE measured[q]
    BY <1>1, <1>2, <1>3 DEF BenchTypes
  <1>5. \A q \in Requests : On(q)' = IF q = q0 THEN {} ELSE On(q)
    <2>1. \A v \in Workers : doing'[v] = IF v = w THEN 0 ELSE doing[v]
      BY <1>1 DEF BenchTypes
    <2>2. doing[w] = q0
      BY DEF q0
    <2>3. \A q \in Requests : q # 0
      BY HostAssumption DEF Requests
    <2>4. \A v \in On(q0) : v = w
      BY <1>2 DEF EachOnce
    <2> QED
      BY <2>1, <2>2, <2>3, <2>4 DEF On
  <1>6. BenchTypes'
    BY <1>1, <1>2, HostAssumption DEF BenchTypes
  <1>7. EachOnce'
    <2>1. q0 < next
      BY <1>2, HostAssumption DEF EachOnce, BenchTypes, Requests
    <2>2. ASSUME NEW q \in Requests
          PROVE  /\ measured'[q] <= 1
                 /\ measured'[q] = 1 => req'[q] = "done"
                 /\ q >= next' => measured'[q] = 0 /\ On(q)' = {}
                 /\ q < next' => measured'[q] = 1 \/ On(q)' # {}
                 /\ measured'[q] = 1 => On(q)' = {}
                 /\ \A v, u \in On(q)' : v = u
      <3>1. CASE q = q0
        <4>1. q < next /\ ~(q >= next)
          BY <2>1, <3>1, HostAssumption DEF BenchTypes, Requests
        <4> QED
          BY <1>1, <1>4, <1>5, <3>1, <4>1
      <3>2. CASE q # q0
        BY <1>1, <1>4, <1>5, <3>2 DEF EachOnce
      <3> QED
        BY <3>1, <3>2
    <2> QED
      BY <2>2 DEF EachOnce
  <1>8. AllBeforeSummary'
    BY <1>1 DEF AllBeforeSummary, Early, BenchTypes
  <1>9. ErrorsCounted'
    <2>1. q0 \notin Failing
      BY <1>3 DEF Failing
    <2>2. Failing' = IF IsError(code[q0]) THEN Failing \cup {q0} ELSE Failing
      BY <1>1, <1>2, <1>3, <1>4 DEF Failing, IsError
    <2>3. IsFiniteSet(Failing \cup {q0}) /\ Cardinality(Failing \cup {q0}) = Cardinality(Failing) + 1
      BY <2>1, FS_AddElement DEF ErrorsCounted
    <2>4. IsFiniteSet(Failing') /\ errors' = Cardinality(Failing')
      BY <1>1, <2>2, <2>3 DEF ErrorsCounted
    <2> QED
      BY <2>4 DEF ErrorsCounted
  <1> QED
    BY <1>6, <1>7, <1>8, <1>9

\* Every step keeps the benchmark's account.
LEMMA NextBInv == BInv /\ IInv /\ [Next]_vars => BInv'
  <1> SUFFICES ASSUME BInv, IInv, [Next]_vars PROVE BInv'
    OBVIOUS
  <1> USE DEF svars, rvars, dbvars, bvars
  <1>1. /\ req \in [Requests -> {"none", "lookup", "submit", "wait", "done"}]
        /\ code \in [Requests -> Outcomes \cup {None}]
    BY DEF IInv, RequestTypes
  <1>2. ASSUME UNCHANGED <<next, doing, returned, measured, errors, host, stage, req,
     code>> PROVE BInv'
    BY <1>2, BenchKept
  <1>3. ASSUME NEW q \in Requests, req[q] # "done",
               UNCHANGED <<next, doing, returned, measured, errors, host, stage>>,
               req' = req \/ \E l : req' = [req EXCEPT ![q] = l],
               code' = code \/ \E c : code' = [code EXCEPT ![q] = c]
        PROVE  BInv'
    <2>1. \A p \in Requests : req[p] = "done" => req'[p] = "done" /\ code'[p] = code[p]
      BY <1>1, <1>3
    <2> QED
      BY <1>3, <2>1, BenchKept
  <1>4. ASSUME UNCHANGED <<next, doing, returned, measured, errors, host, req, code>>,
               stage' \in Early => stage \in Early,
               stage = "measure" => stage' = "measure"
        PROVE  BInv'
    <2>1. host = "bench" /\ next > 1 => stage' = "measure" \/ stage # "measure"
      BY <1>4
    <2> QED
      BY <1>4, <2>1, BenchKept
  <1>5. ASSUME NEW x \in {Main} \cup Requests, Registry(x) PROVE BInv'
    <2>1. CASE Knock(x) \/ FindsOpen(x) \/ OpenDB(x) \/ CreateTable(x) \/ AddColumns(x)
      BY <1>2, <2>1 DEF Knock, FindsOpen, OpenDB, CreateTable, AddColumns
    <2>2. CASE x = Main /\ (OpenFails(x) \/ InitFails(x) \/ Query(x))
      <3>1. stage = "list" /\ UNCHANGED <<next, doing, returned, measured, errors, host, req, code>>
        BY <2>2 DEF OpenFails, Enters, InitFails, Query, Asks, Failed
      <3> QED
        BY <1>4, <3>1 DEF Early
    <2>3. CASE x # Main /\ (OpenFails(x) \/ InitFails(x) \/ Query(x))
      <3>1. /\ x \in Requests /\ req[x] = "lookup"
            /\ UNCHANGED <<next, doing, returned, measured, errors, host, stage>>
        BY <1>5, <2>3 DEF OpenFails, Enters, InitFails, Query, Asks, Failed, Reply
      <3>2. \/ req' = [req EXCEPT ![x] = "done"] /\ code' = [code EXCEPT ![x] = "404"]
            \/ req' = [req EXCEPT ![x] = "submit"] /\ code' = code
        BY <2>3 DEF OpenFails, InitFails, Query, Failed, Reply
      <3> QED
        BY <1>3, <3>1, <3>2
    <2> QED
      BY <1>5, <2>1, <2>2, <2>3 DEF Registry
  <1>6. ASSUME NEW q \in Requests, Arrive(q) \/ Call(q) PROVE BInv'
    BY <1>3, <1>6 DEF Arrive, Call, BodyFails, Submitted, Refused, Answered, Reply
  <1>7. ASSUME NEW q \in Requests, RunJob(q) PROVE BInv'
    BY <1>2, <1>7 DEF RunJob
  <1>8. ASSUME NEW w \in Workers, Take(w) PROVE BInv'
    BY <1>8, BenchTakes
  <1>9. ASSUME NEW w \in Workers, Measure(w) PROVE BInv'
    BY <1>9, BenchMeasures
  <1>10. CASE MainStep \/ Quit \/ Signal \/ ListenFails
    <2>1. UNCHANGED <<next, doing, returned, measured, errors, host, req, code>>
      BY <1>10 DEF MainStep, NewEngine, NewEngineFails, PreloadEnds, NewDispatcher,
         WarmupEnds,
         MeasuredAll, ShutdownDone, ShutdownTimesOut, CloseDispatcher, DispatcherStops, CloseEngine,
         Exit, Quit, Signal, ListenFails
    <2>2. stage' \in Early => stage \in Early
      BY <1>10 DEF MainStep, NewEngine, NewEngineFails, PreloadEnds, NewDispatcher,
         WarmupEnds,
         MeasuredAll, ShutdownDone, ShutdownTimesOut, CloseDispatcher, DispatcherStops, CloseEngine,
         Exit, Quit, Signal, ListenFails, Goto, Early
    <2>3. CASE stage = "measure"
      <3>1. MeasuredAll
        BY <1>10, <2>3 DEF MainStep, NewEngine, NewEngineFails, PreloadEnds,
           NewDispatcher, WarmupEnds,
           ShutdownDone, ShutdownTimesOut, CloseDispatcher, DispatcherStops, Drained, CloseEngine,
           Exit, Quit, Signal, ListenFails, Goto
      <3>2. returned = Workers /\ stage' = "closing"
        BY <3>1 DEF MeasuredAll, AllReturned, Goto
      <3>3. ASSUME next > 1, NEW q \in Requests PROVE measured[q] = 1
        <4>1. next > Iterations /\ On(q) = {}
          <5>1. PICK w \in Workers : w \in returned
            BY <3>2, <3>3 DEF BInv, AllBeforeSummary
          <5>2. \A v \in Workers : doing[v] = 0
            BY <3>2 DEF BInv, AllBeforeSummary
          <5>3. q # 0
            BY HostAssumption DEF Requests
          <5> QED
            BY <5>1, <5>2, <5>3 DEF BInv, AllBeforeSummary, On
        <4>2. q < next
          BY <4>1, HostAssumption DEF Requests, BInv, BenchTypes
        <4> QED
          BY <4>1, <4>2 DEF BInv, EachOnce
      <3>4. \A q \in Requests : On(q)' = On(q)
        BY <2>1 DEF On
      <3>5. Failing' = Failing
        BY <2>1 DEF Failing, IsError
      <3>6. BenchTypes' /\ EachOnce' /\ ErrorsCounted'
        BY <2>1, <3>4, <3>5 DEF BInv, BenchTypes, EachOnce, ErrorsCounted
      <3>7. AllBeforeSummary'
        BY <2>1, <3>2, <3>3 DEF BInv, AllBeforeSummary, Early
      <3> QED
        BY <3>6, <3>7 DEF BInv
    <2> QED
      BY <1>4, <2>1, <2>2, <2>3
  <1>11. ASSUME NEW d \in Deployers, Deploying(d) PROVE BInv'
    BY <1>2, <1>11 DEF Deploying
  <1>12. CASE Finished \/ UNCHANGED vars
    BY <1>2, <1>12 DEF Finished, vars
  <1> QED
    BY <1>5, <1>6, <1>7, <1>8, <1>9, <1>10, <1>11, <1>12 DEF Next

\* Every iteration of a benchmark is measured once, all before the summary, and
\* the errors are those of the iterations that failed.
THEOREM EachMeasuredOnce == Spec => []MeasuredOnce
  <1>1. BInv => MeasuredOnce
    BY DEF BInv, EachOnce, AllBeforeSummary, ErrorsCounted, Failing, MeasuredOnce
  <1>2. Spec => []BInv
    BY Invariance, InitBInv, NextBInv, PTL DEF Spec
  <1> QED
    BY <1>1, <1>2, PTL

-----------------------------------------------------------------------------
(* The registry's handle. *)

Ready == handle /\ init = None /\ schema = "new"

\* A host that lists the functions at start-up opens the registry alone.
ReadyInTime ==
  /\ stage = "list" => Listing
  /\ Listing =>
       /\ stage = "start" => init = None
       /\ stage = "list" => \/ init = None
                            \/ /\ init \in [who : {Main}, step : {"create", "columns"}]
                               /\ handle /\ Main \notin knocking
       /\ stage \in {"dispatch", "serving"} => Ready
       /\ (\E q \in Requests : req[q] # "none") => Ready

\* A request of a host that read the registry at start-up finds the handle set, no
\* initialisation under way, and all columns: what can still fail is the query itself
\* (db.go:40-66, 187-246; serve.go:56-61; app.go:57-61).
NoEarlyRequest == Listing /\ (\E q \in Requests : req[q] # "none") => Ready

\* A step of anybody else leaves the registry's handle alone.
LEMMA ReadyKept ==
  ASSUME ReadyInTime, UNCHANGED <<host, dbvars>>,
         schema = "new" => schema' = "new",
         stage' = "start" => stage = "start",
         stage' = "list" => stage = "list" \/ (stage = "start" /\ Listing),
         stage' \in {"dispatch", "serving"} => ~Listing \/ stage \in {"dispatch", "serving"},
         \A q \in Requests : req'[q] # "none" => req[q] # "none" \/ stage = "serving" \/ ~Listing
  PROVE  ReadyInTime'
  BY DEF ReadyInTime, Ready, Listing, dbvars

\* Main lists the functions.
LEMMA ReadyMain ==
  ASSUME ReadyInTime, IInv, Registry(Main)
  PROVE  ReadyInTime'
  <1> USE DEF dvars, dbvars
  <1>1. stage = "list" /\ Listing /\ \A q \in Requests : req[q] = "none"
    BY DEF Registry, Knock, FindsOpen, OpenDB, OpenFails, CreateTable, AddColumns, InitFails,
       Query, Enters, Asks, ReadyInTime, IInv, JobsInTime, NoRequest, Early
  <1>2. UNCHANGED <<host, req>>
    BY DEF Registry, Knock, FindsOpen, OpenDB, OpenFails, CreateTable, AddColumns, InitFails,
       Query, Failed, rvars
  <1>3. Listing'
    BY <1>1, <1>2 DEF Listing
  <1>4. ASSUME stage' = "engine" PROVE ReadyInTime'
    BY <1>1, <1>2, <1>3, <1>4 DEF ReadyInTime
  <1>5. ASSUME stage' = "list",
               \/ init' = None
               \/ /\ init' \in [who : {Main}, step : {"create", "columns"}]
                  /\ handle' /\ Main \notin knocking'
        PROVE  ReadyInTime'
    BY <1>1, <1>2, <1>3, <1>5 DEF ReadyInTime
  <1>6. CASE Knock(Main) \/ FindsOpen(Main)
    <2>1. init = None /\ init' = init /\ stage' = stage
      BY <1>1, <1>6 DEF Knock, FindsOpen, Enters, ReadyInTime
    <2> QED
      BY <1>1, <1>5, <2>1
  <1>7. CASE OpenDB(Main)
    BY <1>1, <1>5, <1>7 DEF OpenDB, Enters
  <1>8. CASE CreateTable(Main)
    <2>1. init \in [who : {Main}, step : {"create", "columns"}] /\ handle /\ Main \notin knocking
      BY <1>1, <1>8 DEF CreateTable, Holds, ReadyInTime
    <2> QED
      BY <1>1, <1>5, <1>8, <2>1 DEF CreateTable
  <1>9. CASE AddColumns(Main)
    BY <1>1, <1>5, <1>9 DEF AddColumns
  <1>10. CASE OpenFails(Main) \/ InitFails(Main)
    BY <1>4, <1>10 DEF OpenFails, InitFails, Failed
  <1>11. CASE Query(Main)
    <2>1. \/ stage' = "engine"
          \/ stage' = "dispatch" /\ schema = "new" /\ handle /\ ~Holds(Main)
      BY <1>11 DEF Query, Failed, Readable
    <2>2. UNCHANGED <<handle, init, schema>>
      BY <1>11 DEF Query
    <2>3. stage' = "dispatch" => Ready'
      BY <1>1, <2>1, <2>2 DEF ReadyInTime, Ready, Holds
    <2> QED
      BY <1>1, <1>2, <1>3, <1>4, <2>1, <2>3 DEF ReadyInTime
  <1> QED
    BY <1>6, <1>7, <1>8, <1>9, <1>10, <1>11 DEF Registry

\* A request looks its function up.
LEMMA ReadyRequest ==
  ASSUME ReadyInTime, IInv, NEW q \in Requests, Registry(q)
  PROVE  ReadyInTime'
  <1> USE DEF dvars, dbvars
  <1>1. q # Main /\ req[q] = "lookup" /\ UNCHANGED <<host, stage>>
    BY HostAssumption DEF Registry, Knock, FindsOpen, OpenDB, OpenFails, CreateTable, AddColumns,
       InitFails, Query, Enters, Asks, Failed, Main, Requests
  <1>2. \A p \in Requests : req'[p] # "none" => req[p] # "none"
    BY <1>1 DEF Registry, Knock, FindsOpen, OpenDB, OpenFails, CreateTable, AddColumns,
       InitFails, Query, Failed, Reply, rvars, IInv, RequestTypes
  <1>3. CASE ~Listing
    BY <1>1, <1>3 DEF ReadyInTime, Listing
  <1>4. CASE Listing
    <2>1. Ready /\ stage # "list"
      BY <1>1, <1>4 DEF ReadyInTime, IInv, JobsInTime, NoRequest, Early
    <2>2. Ready'
      BY <2>1 DEF Registry, Knock, FindsOpen, OpenDB, OpenFails, CreateTable, AddColumns,
         InitFails, Query, Enters, Holds, Ready
    <2>3. stage # "start"
      BY <1>1 DEF IInv, JobsInTime, NoRequest, Early
    <2> QED
      BY <1>1, <1>4, <2>1, <2>2, <2>3 DEF ReadyInTime, Listing
  <1> QED
    BY <1>3, <1>4

\* Every step keeps the handle ready.
LEMMA NextReady == ReadyInTime /\ IInv /\ [Next]_vars => ReadyInTime'
  <1> SUFFICES ASSUME ReadyInTime, IInv, [Next]_vars PROVE ReadyInTime'
    OBVIOUS
  <1>1. ASSUME UNCHANGED <<host, stage, dbvars, schema, req>> PROVE ReadyInTime'
    BY <1>1, ReadyKept
  <1>2. ASSUME NEW q \in Requests, Arrive(q) PROVE ReadyInTime'
    BY <1>2, ReadyKept DEF Arrive, dvars
  <1>3. ASSUME NEW q \in Requests, Call(q) PROVE ReadyInTime'
    <2>1. /\ UNCHANGED <<host, stage, dbvars, schema>>
          /\ req[q] # "none" /\ \E l : req' = [req EXCEPT ![q] = l]
      BY <1>3 DEF Call, BodyFails, Submitted, Refused, Answered, Reply, dvars
    <2>2. \A p \in Requests : req'[p] # "none" => req[p] # "none"
      BY <2>1 DEF IInv, RequestTypes
    <2> QED
      BY <2>1, <2>2, ReadyKept
  <1>4. ASSUME NEW q \in Requests, RunJob(q) PROVE ReadyInTime'
    BY <1>1, <1>4 DEF RunJob, rvars, dvars
  <1>5. ASSUME NEW w \in Workers, Take(w) \/ Measure(w) PROVE ReadyInTime'
    <2>1. UNCHANGED <<host, stage, dbvars, schema>> /\ stage = "measure"
      BY <1>5 DEF Take, Measure, dvars
    <2>2. ~Listing
      BY <2>1 DEF IInv, Stages, Listing
    <2> QED
      BY <2>1, <2>2, ReadyKept
  <1>6. CASE MainStep \/ Quit \/ Signal \/ ListenFails
    <2>1. UNCHANGED <<host, dbvars, schema, req>>
      BY <1>6 DEF MainStep, NewEngine, NewEngineFails, PreloadEnds, NewDispatcher,
         WarmupEnds,
         MeasuredAll, ShutdownDone, ShutdownTimesOut, CloseDispatcher, DispatcherStops, CloseEngine,
         Exit, Quit, Signal, ListenFails, rvars, dvars
    <2>2. /\ stage' # "start"
          /\ stage' = "list" => stage = "start" /\ Listing
          /\ stage' \in {"dispatch", "serving"} => ~Listing \/ stage = "dispatch"
      BY <1>6 DEF MainStep, NewEngine, NewEngineFails, PreloadEnds, NewDispatcher,
         WarmupEnds,
         MeasuredAll, ShutdownDone, ShutdownTimesOut, CloseDispatcher, DispatcherStops, Drained,
         CloseEngine, Exit, Quit, Signal, ListenFails, Goto, IInv, Stages, Listing
    <2> QED
      BY <2>1, <2>2, ReadyKept
  <1>7. ASSUME NEW d \in Deployers, Deploying(d) PROVE ReadyInTime'
    <2>1. UNCHANGED <<host, stage, dbvars, req>> /\ (schema = "new" => schema' = "new")
      BY <1>7 DEF Deploying, DeployStep, Load, SkipDisabled, SourceFails, Truncate,
         WriteFirst, rvars,
         WriteSecond, WriteFails, Validate, ValidateFails, RegisterFails, Save
    <2> QED
      BY <2>1, ReadyKept
  <1>8. CASE Finished \/ UNCHANGED vars
    BY <1>1, <1>8 DEF Finished, vars, rvars, dvars
  <1> QED
    BY <1>2, <1>3, <1>4, <1>5, <1>6, <1>7, <1>8, ReadyMain, ReadyRequest DEF Next

\* A host starts outside the registry.
LEMMA InitReady == Init => ReadyInTime
  BY DEF Init, ReadyInTime

\* The look-ups of a host that listed the functions at start-up never meet the
\* initialisation of the registry, their own or another's.
THEOREM ListedIsReady == Spec => []NoEarlyRequest
  <1>1. ReadyInTime => NoEarlyRequest
    BY DEF ReadyInTime, NoEarlyRequest
  <1> QED
    BY Invariance, InitReady, NextReady, <1>1, PTL DEF Spec

-----------------------------------------------------------------------------
(* Types. *)

Kept == [who : {Main} \cup Requests, step : {"create", "columns"}]

\* What the other invariants do not say of the types.
HostTypes ==
  /\ host \in {"serve", "preload", "desktop", "bench", "none"}
  /\ eng \in {"none", "open", "closed"} /\ {cut, handle} \subseteq BOOLEAN
  /\ init \in Kept \cup {None} /\ (init # None => handle)
  /\ knocking \subseteq {Main} \cup Requests
  /\ schema \in {"none", "old", "new"}
  /\ Registered # {} => schema # "none"

\* Beyond the last iteration the index grows once for each worker that returns.
IndexBounded == next <= Iterations + 1 + Cardinality(returned)

\* The registry's handle and schema, while a host asks.
LEMMA RegistryTyped ==
  ASSUME HostTypes, NEW x \in {Main} \cup Requests, Registry(x)
  PROVE  HostTypes'
  <1>1. UNCHANGED <<host, eng, cut, rows>>
    BY DEF Registry, Knock, FindsOpen, OpenDB, OpenFails, CreateTable, AddColumns, InitFails,
       Query, dvars
  <1>2. Registered' = Registered
    BY <1>1 DEF Registered
  <1>2k. knocking' \subseteq {Main} \cup Requests
    BY DEF HostTypes, Registry, Knock, FindsOpen, OpenDB, OpenFails, CreateTable, AddColumns,
       InitFails, Query, Enters, dbvars
  <1>3. CASE OpenDB(x)
    <2>1. init' \in Kept /\ handle' = TRUE /\ schema' = schema
      BY <1>3 DEF OpenDB, Kept, dvars
    <2> QED
      BY <1>1, <1>2, <1>2k, <2>1 DEF HostTypes
  <1>4. CASE CreateTable(x)
    <2>1. init # None /\ init' = [init EXCEPT !.step = "columns"] /\ handle' = handle
      BY <1>4 DEF CreateTable, Holds
    <2>2. init' \in Kept
      BY <2>1 DEF HostTypes, Kept
    <2>3. schema' \in {"old", "new"}
      BY <1>4 DEF CreateTable, HostTypes
    <2> QED
      BY <1>1, <1>2, <1>2k, <2>1, <2>2, <2>3 DEF HostTypes
  <1>5. CASE AddColumns(x)
    BY <1>1, <1>2, <1>2k, <1>5 DEF AddColumns, HostTypes
  <1>6. CASE Knock(x) \/ FindsOpen(x) \/ OpenFails(x) \/ InitFails(x) \/ Query(x)
    <2>1. handle' = handle /\ schema' = schema /\ init' \in {init, None}
      BY <1>6 DEF Knock, FindsOpen, OpenFails, InitFails, Unlock, Query, dbvars, dvars
    <2> QED
      BY <1>1, <1>2, <1>2k, <2>1 DEF HostTypes
  <1> QED
    BY <1>3, <1>4, <1>5, <1>6 DEF Registry

\* Every step keeps these types.
LEMMA NextHostTypes == HostTypes /\ [Next]_vars => HostTypes'
  <1> SUFFICES ASSUME HostTypes, [Next]_vars PROVE HostTypes'
    OBVIOUS
  <1> USE DEF dbvars, dvars
  <1>1. ASSUME UNCHANGED <<host, dbvars, schema, rows>>, eng' \in {"none", "open", "closed"},
               cut' \in BOOLEAN
        PROVE  HostTypes'
    BY <1>1 DEF HostTypes, Registered
  <1>2. eng \in {"none", "open", "closed"} /\ cut \in BOOLEAN
    BY DEF HostTypes
  <1>3. ASSUME NEW x \in {Main} \cup Requests, Registry(x) PROVE HostTypes'
    BY <1>3, RegistryTyped
  <1>4. ASSUME NEW q \in Requests, Arrive(q) \/ Call(q) \/ RunJob(q) PROVE HostTypes'
    BY <1>1, <1>2, <1>4 DEF Arrive, Call, BodyFails, Submitted, Refused, Answered, RunJob
  <1>5. ASSUME NEW w \in Workers, Take(w) \/ Measure(w) PROVE HostTypes'
    BY <1>1, <1>2, <1>5 DEF Take, Measure
  <1>6. CASE MainStep \/ Quit \/ Signal \/ ListenFails
    BY <1>1, <1>2, <1>6
       DEF MainStep, NewEngine, NewEngineFails, PreloadEnds, NewDispatcher, WarmupEnds,
           MeasuredAll, ShutdownDone, ShutdownTimesOut, CloseDispatcher, DispatcherStops,
           CloseEngine, Exit, Quit, Signal, ListenFails
  <1>7. ASSUME NEW d \in Deployers, Deploying(d) PROVE HostTypes'
    <2>1. UNCHANGED <<host, eng, cut, dbvars>> /\ DeployStep(d)
      BY <1>7 DEF Deploying
    <2>2. CASE Save(d)
      BY <2>1, <2>2 DEF Save, HostTypes
    <2>3. CASE UNCHANGED <<rows, schema>>
      BY <1>1, <1>2, <2>1, <2>3
    <2> QED
      BY <2>1, <2>2, <2>3
         DEF DeployStep, Load, SkipDisabled, SourceFails, Truncate, WriteFirst, WriteSecond,
             WriteFails, Validate, ValidateFails, RegisterFails
  <1>8. CASE Finished \/ UNCHANGED vars
    BY <1>1, <1>2, <1>8 DEF Finished, vars
  <1> QED
    BY <1>3, <1>4, <1>5, <1>6, <1>7, <1>8 DEF Next

\* Every step keeps the index within its bound.
LEMMA NextIndex == IndexBounded /\ BInv /\ [Next]_vars => IndexBounded'
  <1> SUFFICES ASSUME IndexBounded, BInv, [Next]_vars PROVE IndexBounded'
    OBVIOUS
  <1>1. ASSUME UNCHANGED <<next, returned>> PROVE IndexBounded'
    BY <1>1 DEF IndexBounded
  <1>2. ASSUME NEW w \in Workers, Take(w) PROVE IndexBounded'
    <2>0. IsFiniteSet(Workers) /\ returned \subseteq Workers
      BY HostAssumption DEF BInv, BenchTypes
    <2>f. IsFiniteSet(returned)
      BY <2>0, FS_Subset
    <2>1. /\ Cardinality(returned) \in Nat
          /\ Cardinality(returned \cup {w}) = IF w \in returned THEN Cardinality(returned)
                                                 ELSE Cardinality(returned) + 1
      BY <2>f, FS_AddElement, FS_CardinalityType
    <2>2. next \in Nat /\ Iterations \in Nat /\ w \notin returned /\ next' = next + 1
      BY <1>2, HostAssumption DEF Take, BInv, BenchTypes
    <2>3. CASE InRange(next)
      BY <1>2, <2>1, <2>2, <2>3 DEF Take, InRange, IndexBounded
    <2>4. CASE ~InRange(next)
      BY <1>2, <2>1, <2>2, <2>4 DEF Take, IndexBounded
    <2> QED
      BY <2>3, <2>4
  <1>3. CASE \E w \in Workers : Measure(w)
    BY <1>1, <1>3 DEF Measure
  <1>4. CASE MainStep \/ Quit \/ Signal \/ ListenFails
    BY <1>1, <1>4
       DEF MainStep, NewEngine, NewEngineFails, PreloadEnds, NewDispatcher, WarmupEnds,
           MeasuredAll, ShutdownDone, ShutdownTimesOut, CloseDispatcher, DispatcherStops,
           CloseEngine, Exit, Quit, Signal, ListenFails, bvars
  <1>5. ASSUME NEW x \in {Main} \cup Requests, Registry(x) PROVE IndexBounded'
    BY <1>1, <1>5
       DEF Registry, Knock, FindsOpen, OpenDB, OpenFails, CreateTable, AddColumns, InitFails,
          Query, bvars
  <1>6. ASSUME NEW q \in Requests, Arrive(q) \/ Call(q) \/ RunJob(q) PROVE IndexBounded'
    BY <1>1, <1>6 DEF Arrive, Call, BodyFails, Submitted, Refused, Answered, RunJob, bvars
  <1>7. CASE (\E d \in Deployers : Deploying(d)) \/ Finished \/ UNCHANGED vars
    BY <1>1, <1>7 DEF Deploying, Finished, vars, bvars
  <1> QED
    BY <1>2, <1>3, <1>4, <1>5, <1>6, <1>7 DEF Next

\* The invariants together give every variable its type.
LEMMA Typed == IInv /\ DInv /\ BInv /\ HostTypes /\ IndexBounded => TypeOK
  <1> SUFFICES ASSUME IInv, DInv, BInv, HostTypes, IndexBounded PROVE TypeOK
    OBVIOUS
  <1>1. DTypeOK
    <2>1. \A n \in Registered : rows[n] \in Rows
      BY DEF Registered, DInv, Stored
    <2> QED
      BY <2>1 DEF DTypeOK, DInv, Standing, Stored, HostTypes, Busy
  <1>2. next \in 1..(Iterations + 1 + Cardinality(Workers))
    <2>1. Cardinality(returned) \in Nat /\ Cardinality(Workers) \in Nat
          /\ Cardinality(returned) <= Cardinality(Workers)
      BY HostAssumption, FS_Subset, FS_CardinalityType DEF BInv, BenchTypes
    <2> QED
      BY <2>1, HostAssumption DEF BInv, BenchTypes, IndexBounded
  <1>3. errors \in 0..Iterations
    <2>1. Failing \subseteq 1..Iterations
      BY DEF Failing, Requests
    <2>2. IsFiniteSet(1..Iterations) /\ Cardinality(1..Iterations) = Iterations
      BY HostAssumption, FS_Interval
    <2>3. Cardinality(Failing) \in Nat /\ Cardinality(Failing) <= Iterations
      BY <2>1, <2>2, FS_Subset, FS_CardinalityType
    <2> QED
      BY <2>3, HostAssumption DEF BInv, ErrorsCounted
  <1>4. init # None => handle /\ init.who \in {Main} \cup Requests /\ init.step \in {"create",
     "columns"}
    BY DEF HostTypes, Kept
  <1> QED
    BY <1>1, <1>2, <1>3, <1>4
       DEF TypeOK, HostTypes, IInv, RequestTypes, Stages, Early, Middle, Late, BInv, BenchTypes

\* Every variable of the hosts, the registry and the deployments keeps its type.
THEOREM TypeCorrect == Spec => []TypeOK
  <1>1. Init => HostTypes
    BY DEF Init, DInit, HostTypes, Registered
  <1>2. Init => IndexBounded
    BY FS_EmptySet, HostAssumption DEF Init, IndexBounded
  <1> QED
    BY Invariance, Deployed, InitBInv, NextBInv, NextHostTypes, NextIndex, Typed, <1>1, <1>2, PTL
       DEF Spec

-----------------------------------------------------------------------------
(* What a caller may conclude from an answer. *)

\* Where request q and its job are, and what its outcome says of the job.
Told(q) ==
  /\ code[q] = None <=> req[q] # "done"
  /\ req[q] \in {"none", "lookup", "submit"} => status[q] = "new"
  /\ req[q] = "wait" => status[q] \in {"admitted", "ran"}
  /\ code[q] \in {"200", "502"} => status[q] = "ran"
  /\ code[q] \in {"400", "404", "429"} => status[q] \in {"new", "refused"}
  /\ code[q] = "503" => status[q] \in {"refused", "ran"}

AnswersInv ==
  /\ \A q \in Requests : Told(q)
  /\ stopped => \A q \in Requests : status[q] # "admitted"

\* The iterations of a benchmark that have begun are those that a worker took.
Taken ==
  host = "bench" => /\ stage # "serving"
                    /\ \A q \in Requests : req[q] # "lookup" /\ (q < next <=> req[q] # "none")

\* A request that is told of a result has had its job run. One that is told that it
\* was malformed, unknown or too much never has its function run, then or later:
\* it may be sent again. One that is told that the host is closed may not: its job may
\* have run, but does not run any more (serve.go:163-232; dispatcher.go:142-165).
AnswersAreTrue ==
  \A q \in Requests :
    /\ code[q] \in {"200", "502"} => status[q] = "ran"
    /\ code[q] \in {"400", "404", "429"} => status[q] \in {"new", "refused"}
    /\ code[q] = "503" => status[q] \in {"refused", "ran"}

\* A request has one answer.
AnsweredOnce == [][\A q \in Requests : code[q] # None => code'[q] = code[q]]_vars

\* The job of a request that was told to try again is never admitted afterwards.
NeverRunAfterwards ==
  [][\A q \in Requests :
       code[q] \in {"400", "404", "429"} => status'[q] \in {"new", "refused"}]_vars

\* An iteration begins when it is taken.
LEMMA NextTaken == Taken /\ BInv /\ IInv /\ [Next]_vars => Taken'
  <1> SUFFICES ASSUME Taken, BInv, IInv, [Next]_vars PROVE Taken'
    OBVIOUS
  <1>0. req \in [Requests -> {"none", "lookup", "submit", "wait", "done"}]
    BY DEF IInv, RequestTypes
  <1>1. ASSUME UNCHANGED <<host, next>>, stage' = "serving" => stage = "serving" \/ host # "bench",
               \A q \in Requests : \/ req'[q] = req[q]
                                   \/ req[q] # "none" /\ req'[q] \notin {"none", "lookup"}
                                   \/ host # "bench"
        PROVE  Taken'
    BY <1>1, <1>0 DEF Taken
  <1>2. ASSUME NEW x \in {Main} \cup Requests, Registry(x) PROVE Taken'
    <2>1. /\ UNCHANGED <<host, next>> /\ stage' \in {stage, "dispatch", "engine"}
          /\ \/ req' = req
             \/ x \in Requests /\ req[x] = "lookup"
      BY <1>2 DEF Registry, Knock, FindsOpen, OpenDB, OpenFails, CreateTable, AddColumns,
         InitFails, Query,
         Enters, Failed, Reply, Asks, bvars, rvars
    <2>2. req' = req \/ host # "bench"
      BY <2>1 DEF Taken
    <2> QED
      BY <1>1, <2>1, <2>2
  <1>3. ASSUME NEW q \in Requests, Arrive(q) PROVE Taken'
    BY <1>3 DEF Arrive, bvars, Taken
  <1>4. ASSUME NEW q \in Requests, Call(q) PROVE Taken'
    <2>1. /\ UNCHANGED <<host, stage, next>> /\ req[q] # "none"
          /\ \E l \in {"wait", "done"} : req' = [req EXCEPT ![q] = l]
      BY <1>4 DEF Call, BodyFails, Submitted, Refused, Answered, Reply, bvars
    <2> QED
      BY <1>0, <1>1, <2>1
  <1>5. ASSUME NEW q \in Requests, RunJob(q) PROVE Taken'
    BY <1>1, <1>5, <1>0 DEF RunJob, rvars, bvars
  <1>6. ASSUME NEW w \in Workers, Take(w) PROVE Taken'
    <2>1. /\ host' = host /\ stage' = "measure" /\ next' = next + 1 /\ next \in Nat
          /\ IF next <= Iterations THEN req' = [req EXCEPT ![next] = "submit"] ELSE req' = req
      BY <1>6 DEF Take, InRange, BInv, BenchTypes
    <2>2. Iterations \in Nat /\ \A q \in Requests : q \in 1..Iterations
      BY HostAssumption DEF Requests
    <2>3. \A q \in Requests : req'[q] = IF q = next THEN "submit" ELSE req[q]
      BY <1>0, <2>1, <2>2
    <2>4. \A q \in Requests : q < next' <=> q < next \/ q = next
      BY <2>1, <2>2
    <2> QED
      BY <2>1, <2>3, <2>4 DEF Taken
  <1>7. ASSUME NEW w \in Workers, Measure(w) PROVE Taken'
    BY <1>0, <1>1, <1>7 DEF Measure, rvars
  <1>8. CASE MainStep \/ Quit \/ Signal \/ ListenFails
    <2>1. UNCHANGED <<host, next, req>>
      BY <1>8 DEF MainStep, NewEngine, NewEngineFails, PreloadEnds, NewDispatcher,
         WarmupEnds, MeasuredAll, ShutdownDone, ShutdownTimesOut, CloseDispatcher,
         DispatcherStops, CloseEngine, Exit, Quit, Signal, ListenFails, rvars, bvars
    <2>2. stage' = "serving" => host # "bench"
      BY <1>8 DEF MainStep, NewEngine, NewEngineFails, PreloadEnds, NewDispatcher,
         WarmupEnds, MeasuredAll, ShutdownDone, ShutdownTimesOut, CloseDispatcher,
         DispatcherStops, CloseEngine, Exit, Quit, Signal, ListenFails, Goto, Listing
    <2> QED
      BY <1>0, <1>1, <2>1, <2>2
  <1>9. ASSUME NEW d \in Deployers, Deploying(d) PROVE Taken'
    BY <1>0, <1>1, <1>9 DEF Deploying, rvars, bvars
  <1>10. CASE Finished \/ UNCHANGED vars
    BY <1>0, <1>1, <1>10 DEF Finished, vars, rvars, bvars
  <1> QED
    BY <1>2, <1>3, <1>4, <1>5, <1>6, <1>7, <1>8, <1>9, <1>10 DEF Next

\* A step that leaves requests and dispatcher alone changes no answer.
LEMMA AnswersKept ==
  ASSUME AnswersInv, UNCHANGED <<rvars, svars>>
  PROVE  AnswersInv' /\ \A q \in Requests : code'[q] = code[q]
  BY DEF AnswersInv, Told, rvars, svars

\* A request moves on: its function is looked up, or its job admitted.
LEMMA RequestMoves ==
  ASSUME AnswersInv, IInv, NEW q \in Requests, req[q] # "done",
         NEW l \in {"lookup", "submit", "wait"}, req' = [req EXCEPT ![q] = l],
         NEW s \in {"new", "admitted"}, status' = [status EXCEPT ![q] = s],
         UNCHANGED <<code, open, stopped>>,
         l = "wait" <=> s = "admitted", s = "admitted" => open
  PROVE  AnswersInv' /\ \A p \in Requests : code[p] # None => code'[p] = code[p]
  <1>1. /\ \A p \in Requests : req'[p] = IF p = q THEN l ELSE req[p]
        /\ \A p \in Requests : status'[p] = IF p = q THEN s ELSE status[p]
        /\ code[q] = None
    BY DEF IInv, RequestTypes, AnswersInv, Told
  <1>2. ASSUME NEW p \in Requests PROVE Told(p)'
    BY <1>1, HostAssumption DEF Told, AnswersInv, Outcomes
  <1>3. stopped' => \A p \in Requests : status'[p] # "admitted"
    BY <1>1 DEF AnswersInv, IInv, Stages
  <1> QED
    BY <1>2, <1>3 DEF AnswersInv

\* A request is answered with what has become of its job.
LEMMA RequestEnds ==
  ASSUME AnswersInv, IInv, NEW q \in Requests, req[q] # "done",
         NEW c \in Outcomes, Reply(q, c),
         NEW s \in {"new", "refused", "admitted", "ran"}, status' = [status EXCEPT ![q] = s],
         UNCHANGED <<open, stopped>>,
         s = "admitted" => status[q] = "admitted",
         c \in {"200", "502"} => s = "ran",
         c \in {"400", "404", "429"} => s \in {"new", "refused"},
         c = "503" => s \in {"refused", "ran"}
  PROVE  AnswersInv' /\ \A p \in Requests : code[p] # None => code'[p] = code[p]
  <1>1. /\ \A p \in Requests : req'[p] = IF p = q THEN "done" ELSE req[p]
        /\ \A p \in Requests : status'[p] = IF p = q THEN s ELSE status[p]
        /\ \A p \in Requests : code'[p] = IF p = q THEN c ELSE code[p]
        /\ code[q] = None
    BY DEF IInv, RequestTypes, AnswersInv, Told, Reply
  <1>2. ASSUME NEW p \in Requests PROVE Told(p)'
    <2>1. CASE p = q
      BY <1>1, <2>1, HostAssumption DEF Told
    <2>2. CASE p # q
      BY <1>1, <2>2 DEF Told, AnswersInv
    <2> QED
      BY <2>1, <2>2
  <1>3. stopped' => \A p \in Requests : status'[p] # "admitted"
    BY <1>1 DEF AnswersInv
  <1>4. \A p \in Requests : code[p] # None => code'[p] = code[p]
    BY <1>1
  <1> QED
    BY <1>2, <1>3, <1>4 DEF AnswersInv

\* A query of the registry answers only a request that has no job.
LEMMA AnswersRegistry ==
  ASSUME AnswersInv, IInv, NEW x \in {Main} \cup Requests, Registry(x)
  PROVE  AnswersInv' /\ \A q \in Requests : code[q] # None => code'[q] = code[q]
  <1>1. UNCHANGED svars
    BY DEF Registry, Knock, FindsOpen, OpenDB, OpenFails, CreateTable, AddColumns, InitFails, Query
  <1>2. CASE UNCHANGED rvars
    BY <1>1, <1>2, AnswersKept
  <1>3. CASE x # Main /\ (OpenFails(x) \/ InitFails(x) \/ Query(x))
    <2>1. x \in Requests /\ req[x] = "lookup" /\ status[x] = "new"
      BY <1>3 DEF OpenFails, Enters, InitFails, Query, Asks, AnswersInv, Told
    <2>2. status' = [status EXCEPT ![x] = "new"] /\ UNCHANGED <<open, stopped>>
      BY <1>1, <2>1 DEF svars, IInv, RequestTypes
    <2>3. CASE Reply(x, "404")
      BY <2>1, <2>2, <2>3, RequestEnds DEF Outcomes
    <2>4. CASE req' = [req EXCEPT ![x] = "submit"] /\ code' = code
      BY <2>1, <2>2, <2>4, RequestMoves
    <2> QED
      BY <1>3, <2>3, <2>4 DEF OpenFails, InitFails, Query, Failed
  <1> QED
    BY <1>2, <1>3 DEF Registry, Knock, FindsOpen, OpenDB, OpenFails, CreateTable, AddColumns,
       InitFails, Query,
       Failed, rvars

\* A submission is answered by what the dispatcher made of the job.
LEMMA AnswersCall ==
  ASSUME AnswersInv, IInv, NEW q \in Requests, Call(q)
  PROVE  AnswersInv' /\ \A p \in Requests : code[p] # None => code'[p] = code[p]
  <1> USE HostAssumption DEF svars
  <1>1. /\ status[q] \in {"new", "refused", "admitted", "ran"}
        /\ status = [status EXCEPT ![q] = status[q]]
        /\ open \in BOOLEAN
    BY DEF IInv, RequestTypes
  <1>2. Told(q) /\ (stopped => status[q] # "admitted")
    BY DEF AnswersInv
  <1>3. CASE BodyFails(q)
    <2>1. /\ req[q] = "submit" /\ status[q] = "new" /\ status' = [status EXCEPT ![q] = "new"]
          /\ Reply(q, "400") /\ UNCHANGED <<open, stopped>>
      BY <1>1, <1>2, <1>3 DEF BodyFails, Told
    <2> QED
      BY <2>1, RequestEnds DEF Outcomes
  <1>4. CASE Submitted(q)
    <2>1. /\ req[q] = "submit" /\ open /\ status' = [status EXCEPT ![q] = "admitted"]
          /\ req' = [req EXCEPT ![q] = "wait"] /\ UNCHANGED <<code, open, stopped>>
      BY <1>4 DEF Submitted, Svc!Admit
    <2> QED
      BY <2>1, RequestMoves
  <1>5. CASE Refused(q)
    <2>1. /\ req[q] = "submit" /\ status' = [status EXCEPT ![q] = "refused"]
          /\ UNCHANGED <<open, stopped>>
      BY <1>5 DEF Refused, Svc!Refuse
    <2>2. PICK c \in {"500", "429", "503"} : Reply(q, c)
      BY <1>5 DEF Refused
    <2> QED
      BY <2>1, <2>2, RequestEnds DEF Outcomes
  <1>6. CASE Answered(q)
    <2>1. /\ req[q] = "wait" /\ status' = [status EXCEPT ![q] = status[q]]
          /\ UNCHANGED <<open, stopped>>
      BY <1>1, <1>6 DEF Answered
    <2>2. PICK c \in {"200", "502", "500", "503"} :
            /\ Reply(q, c)
            /\ c \in {"200", "502"} => status[q] = "ran"
            /\ c = "503" => stopped
      BY <1>6 DEF Answered
    <2>3. status[q] \in {"admitted", "ran"} /\ (c = "503" => status[q] = "ran")
      BY <1>2, <2>1, <2>2 DEF Told
    <2> QED
      BY <1>1, <2>1, <2>2, <2>3, RequestEnds DEF Outcomes
  <1> QED
    BY <1>3, <1>4, <1>5, <1>6 DEF Call

\* Every step keeps what callers were told, and changes no answer.
LEMMA NextAnswers ==
  AnswersInv /\ Taken /\ BInv /\ IInv /\ [Next]_vars =>
    AnswersInv' /\ \A q \in Requests : code[q] # None => code'[q] = code[q]
  <1> DEFINE Goal == AnswersInv' /\ \A q \in Requests : code[q] # None => code'[q] = code[q]
  <1> SUFFICES ASSUME AnswersInv, Taken, BInv, IInv, [Next]_vars PROVE Goal
    OBVIOUS
  <1> HIDE DEF Goal
  <1>0. ASSUME UNCHANGED <<rvars, svars>> PROVE Goal
    BY <1>0, AnswersKept DEF Goal
  <1>1. ASSUME NEW x \in {Main} \cup Requests, Registry(x) PROVE Goal
    BY <1>1, AnswersRegistry DEF Goal
  <1>2. ASSUME NEW q \in Requests, Call(q) PROVE Goal
    BY <1>2, AnswersCall DEF Goal
  <1>3. ASSUME NEW q \in Requests, RunJob(q) PROVE Goal
    <2>1. /\ ~stopped /\ status[q] = "admitted" /\ status' = [status EXCEPT ![q] = "ran"]
          /\ UNCHANGED <<req, code, open, stopped>>
      BY <1>3 DEF RunJob, Svc!Run, rvars
    <2>2. \A p \in Requests : status'[p] = IF p = q THEN "ran" ELSE status[p]
      BY <2>1 DEF IInv, RequestTypes
    <2> QED
      BY <2>1, <2>2 DEF Goal, AnswersInv, Told
  <1>4. ASSUME NEW q \in Requests, NEW l \in {"lookup", "submit"}, req[q] = "none",
               req' = [req EXCEPT ![q] = l], UNCHANGED <<code, svars>>
        PROVE  Goal
    <2>1. status[q] = "new" /\ status' = [status EXCEPT ![q] = "new"]
      BY <1>4 DEF AnswersInv, Told, IInv, RequestTypes, svars
    <2> QED
      BY <1>4, <2>1, RequestMoves DEF Goal, svars
  <1>5. ASSUME NEW q \in Requests, Arrive(q) PROVE Goal
    BY <1>4, <1>5 DEF Arrive
  <1>6. ASSUME NEW w \in Workers, Take(w) PROVE Goal
    <2>1. host = "bench" /\ next \in Nat \ {0} /\ Iterations \in Nat /\ UNCHANGED <<code, svars>>
      BY <1>6, HostAssumption DEF Take, IInv, Stages, BInv, BenchTypes
    <2>2. CASE InRange(next)
      <3>1. next \in Requests /\ req' = [req EXCEPT ![next] = "submit"]
        BY <1>6, <2>1, <2>2 DEF Take, InRange, Requests
      <3>2. req[next] = "none"
        BY <2>1, <3>1, <1>6 DEF Taken
      <3> QED
        BY <1>4, <2>1, <3>1, <3>2
    <2>3. CASE ~InRange(next)
      BY <1>0, <1>6, <2>1, <2>3 DEF Take, rvars
    <2> QED
      BY <2>2, <2>3
  <1>7. ASSUME NEW w \in Workers, Measure(w) PROVE Goal
    BY <1>0, <1>7 DEF Measure
  <1>8. CASE MainStep \/ Quit \/ Signal \/ ListenFails
    <2>1. UNCHANGED <<rvars, svars>> \/ CloseDispatcher \/ DispatcherStops
      BY <1>8 DEF MainStep, NewEngine, NewEngineFails, PreloadEnds, NewDispatcher,
         WarmupEnds, MeasuredAll, ShutdownDone, ShutdownTimesOut, CloseEngine, Exit, Quit,
         Signal, ListenFails
    <2>2. CASE CloseDispatcher
      <3>1. open /\ ~stopped /\ UNCHANGED <<req, code, status, stopped>>
        BY <2>2 DEF CloseDispatcher, Svc!StopAdmission, rvars, IInv, Stages
      <3> QED
        BY <3>1 DEF Goal, AnswersInv, Told
    <2>3. CASE DispatcherStops
      <3>1. /\ \A q \in Requests : status[q] # "admitted"
            /\ UNCHANGED <<req, code, status>>
        BY <2>3 DEF DispatcherStops, Drained, Svc!Stop, Svc!Admitted, rvars
      <3> QED
        BY <3>1 DEF Goal, AnswersInv, Told
    <2> QED
      BY <1>0, <2>1, <2>2, <2>3
  <1>9. ASSUME NEW d \in Deployers, Deploying(d) PROVE Goal
    BY <1>0, <1>9 DEF Deploying
  <1>10. CASE Finished \/ UNCHANGED vars
    BY <1>0, <1>10 DEF Finished, vars
  <1> QED
    BY <1>1, <1>2, <1>3, <1>5, <1>6, <1>7, <1>8, <1>9, <1>10 DEF Next

\* A host starts with nobody told anything.
LEMMA InitAnswers == Init => AnswersInv /\ Taken
  <1> SUFFICES ASSUME Init PROVE AnswersInv /\ Taken
    OBVIOUS
  <1>1. \A q \in Requests : req[q] = "none" /\ code[q] = None /\ status[q] = "new"
    BY DEF Init, Svc!SInit
  <1>2. ~stopped /\ stage # "serving"
    BY Zenon DEF Init, Svc!SInit
  <1>3. next = 1 /\ \A q \in Requests : ~(q < 1)
    BY HostAssumption DEF Init, Requests
  <1> QED
    BY <1>1, <1>2, <1>3, HostAssumption DEF AnswersInv, Taken, Told, Outcomes

\* What callers were told is so in every state.
LEMMA Answers == Spec => [](AnswersInv /\ Taken)
  BY Invariance, InitBInv, NextBInv, InitAnswers, NextTaken, NextAnswers, PTL DEF Spec

\* A caller may believe its answer.
THEOREM AnswersBelievable == Spec => []AnswersAreTrue
  <1>1. AnswersInv => AnswersAreTrue
    BY DEF AnswersInv, Told, AnswersAreTrue
  <1> QED
    BY Answers, <1>1, PTL

\* No request is answered twice, or answered and then answered otherwise.
THEOREM OneAnswer == Spec => AnsweredOnce
  <1>1. AnswersInv /\ Taken /\ BInv /\ IInv /\ [Next]_vars =>
          [\A q \in Requests : code[q] # None => code'[q] = code[q]]_vars
    BY NextAnswers
  <1> QED
    BY Invariance, InitBInv, NextBInv, Answers, <1>1, PTL DEF Spec, AnsweredOnce

\* A request that was told to try again never has its function run for the first
\* attempt, and so runs it once however often it is sent until it is accepted.
THEOREM SafeToSendAgain == Spec => NeverRunAfterwards
  <1>1. /\ AnswersInv /\ AnswersInv'
        /\ \A q \in Requests : code[q] # None => code'[q] = code[q]
        => \A q \in Requests :
             code[q] \in {"400", "404", "429"} => status'[q] \in {"new", "refused"}
    BY HostAssumption DEF AnswersInv, Told, Outcomes
  <1>2. AnswersInv /\ AnswersInv' /\ Taken /\ BInv /\ IInv /\ [Next]_vars =>
          [\A q \in Requests :
             code[q] \in {"400", "404", "429"} => status'[q] \in {"new", "refused"}]_vars
    BY <1>1, NextAnswers
  <1> QED
    BY Invariance, InitBInv, NextBInv, Answers, <1>2, PTL DEF Spec, NeverRunAfterwards

-----------------------------------------------------------------------------
(* No host comes to a stop on its way up, while it measures, or on its way down. *)

\* Whether a step waits for nobody: of Main outside the engine, of a call that is not
\* cancelled, and of a worker of the benchmark. (The guards of the steps: ENABLED is
\* out of the prover's reach.)
MainMoves ==
  \/ stage \in {"start", "shutdown", "exiting"}
  \/ stage = "dispatch" /\ ~Listing
  \/ stage = "list" /\ (init = None \/ Holds(Main))
  \/ stage = "measure" /\ AllReturned
  \/ stage = "closing" /\ open
  \/ stage = "draining" /\ ~open /\ ~stopped /\ Svc!Admitted = {}

CallMoves(q) ==
  /\ Alive
  /\ \/ req[q] = "submit" /\ status[q] = "new"
     \/ req[q] = "wait" /\ (status[q] = "ran" \/ stopped)

WorkerMoves(w) ==
  /\ stage = "measure" /\ w \notin returned
  /\ doing[w] # 0 => req[doing[w]] = "done" \/ CallMoves(doing[w])

\* Nothing but the engine can hold up a host that is neither serving nor gone: Main
\* can go on, or it is in the engine, or drains jobs that the engine has, or every
\* worker of the benchmark for which it waits can go on or has a job that the engine
\* has (serve.go:54-128; bench.go:170-205, 324-350; app.go:37-75;
\* dispatcher.go:207-216).
HostMoves ==
  stage \notin {"serving", "exited"} =>
    \/ MainMoves \/ InEngine
    \/ stage = "draining" /\ Svc!Admitted # {}
    \/ stage = "measure" /\ \A w \in Workers \ returned :
                               WorkerMoves(w) \/ status[doing[w]] = "admitted"

\* A dispatcher that drains is closed, and has stopped only when it has drained.
Draining ==
  /\ stage = "draining" => ~open
  /\ stopped => stage \in Late

\* The dispatcher is closed before it drains, and stops when it has drained.
LEMMA NextDraining == Draining /\ IInv /\ [Next]_vars => Draining'
  <1> SUFFICES ASSUME Draining, IInv, [Next]_vars PROVE Draining'
    OBVIOUS
  <1> USE DEF svars
  <1>1. ASSUME UNCHANGED <<stage, open, stopped>> PROVE Draining'
    BY <1>1 DEF Draining
  <1>2. ASSUME UNCHANGED <<open, stopped>>, stage \notin Late, stage' # "draining" PROVE Draining'
    BY <1>2 DEF Draining
  <1>3. CASE Registry(Main)
    <2>1. UNCHANGED <<open, stopped>> /\ stage = "list" /\ stage' \in {"list", "dispatch", "engine"}
      BY <1>3 DEF Registry, Knock, FindsOpen, OpenDB, OpenFails, CreateTable, AddColumns,
         InitFails, Query,
         Enters, Failed, Asks
    <2> QED
      BY <2>1, <1>2 DEF Late
  <1>4. ASSUME NEW q \in Requests, Registry(q) PROVE Draining'
    <2>1. UNCHANGED <<stage, open, stopped>>
      BY <1>4, HostAssumption DEF Registry, Knock, FindsOpen, OpenDB, OpenFails, CreateTable,
         AddColumns,
         InitFails, Query, Failed, Main, Requests
    <2> QED
      BY <1>1, <2>1
  <1>5. ASSUME NEW q \in Requests, Arrive(q) \/ Call(q) \/ RunJob(q) PROVE Draining'
    BY <1>1, <1>5 DEF Arrive, Call, BodyFails, Submitted, Refused, Answered, RunJob,
       Svc!Admit, Svc!Refuse, Svc!Run
  <1>6. ASSUME NEW w \in Workers, Take(w) \/ Measure(w) PROVE Draining'
    BY <1>1, <1>6 DEF Take, Measure
  <1>7. CASE \/ NewEngine \/ NewEngineFails \/ PreloadEnds \/ NewDispatcher \/ WarmupEnds
             \/ MeasuredAll \/ Quit \/ Signal \/ ListenFails \/ ShutdownDone \/ ShutdownTimesOut
    BY <1>2, <1>7 DEF NewEngine, NewEngineFails, PreloadEnds, NewDispatcher, WarmupEnds,
       MeasuredAll, Quit, Signal, ListenFails, ShutdownDone, ShutdownTimesOut, Goto, Late
  <1>8. CASE CloseDispatcher \/ DispatcherStops
    BY <1>8 DEF CloseDispatcher, DispatcherStops, Drained, Goto, Svc!StopAdmission, Svc!Stop,
       Draining, Late
  <1>9. CASE CloseEngine \/ Exit
    BY <1>9 DEF CloseEngine, Exit, Goto, Draining, Late
  <1>10. ASSUME NEW d \in Deployers, Deploying(d) PROVE Draining'
    BY <1>1, <1>10 DEF Deploying
  <1>11. CASE Finished \/ UNCHANGED vars
    BY <1>1, <1>11 DEF Finished, vars
  <1> QED
    BY <1>3, <1>4, <1>5, <1>6, <1>7, <1>8, <1>9, <1>10, <1>11 DEF Next, MainStep

\* A worker of the benchmark that has not returned can go on, or the engine has its job.
LEMMA MeasuringMoves ==
  ASSUME IInv, BInv, AnswersInv, Taken, stage = "measure", NEW w \in Workers, w \notin returned
  PROVE  WorkerMoves(w) \/ status[doing[w]] = "admitted"
  <1>1. CASE doing[w] = 0
    BY <1>1 DEF WorkerMoves
  <1>2. CASE doing[w] # 0
    <2>1. PICK q : q = doing[w]
      OBVIOUS
    <2>2. q \in Requests
      BY <1>2, <2>1, HostAssumption DEF BInv, BenchTypes, Requests
    <2>3. host = "bench" /\ ~stopped
      BY DEF IInv, Stages, Late
    <2>4. w \in On(q)
      BY <2>1 DEF On
    <2>5. q < next
      BY <2>2, <2>4, HostAssumption DEF BInv, EachOnce, BenchTypes, Requests
    <2>6. req[q] \in {"submit", "wait", "done"}
      BY <2>2, <2>3, <2>5 DEF Taken, IInv, RequestTypes
    <2>7. Told(q)
      BY <2>2 DEF AnswersInv
    <2>8. CASE req[q] = "done"
      BY <2>1, <2>8 DEF WorkerMoves
    <2>9. CASE req[q] = "submit"
      BY <2>1, <2>7, <2>9 DEF WorkerMoves, CallMoves, Told, Alive
    <2>10. CASE req[q] = "wait"
      BY <2>1, <2>2, <2>3, <2>7, <2>10 DEF WorkerMoves, CallMoves, Told, Alive
    <2> QED
      BY <2>6, <2>8, <2>9, <2>10
  <1> QED
    BY <1>1, <1>2

\* Wherever Main stands, it can go on or waits for the engine or for somebody who can.
LEMMA SomeoneMoves ==
  ASSUME IInv, BInv, ReadyInTime, AnswersInv, Taken, Draining
  PROVE  HostMoves
  <1>1. CASE stage = "list"
    BY <1>1 DEF MainMoves, HostMoves, ReadyInTime, Holds
  <1>2. CASE stage = "measure"
    <2>1. \A w \in Workers \ returned : WorkerMoves(w) \/ status[doing[w]] = "admitted"
      BY <1>2, MeasuringMoves
    <2> QED
      BY <1>2, <2>1 DEF HostMoves
  <1>3. CASE stage = "closing"
    BY <1>3 DEF MainMoves, HostMoves, IInv, Stages, Late
  <1>4. CASE stage = "draining"
    <2>1. ~open /\ ~stopped
      BY <1>4 DEF Draining, Late
    <2> QED
      BY <1>4, <2>1 DEF MainMoves, HostMoves
  <1>5. CASE stage \in {"start", "dispatch", "shutdown", "exiting", "preload", "warmup", "engine"}
    <2>1. CASE stage \in {"start", "shutdown", "exiting"}
      BY <2>1 DEF MainMoves, HostMoves
    <2>2. CASE stage \in {"preload", "warmup", "engine"}
      BY <2>2 DEF HostMoves, InEngine
    <2>3. CASE stage = "dispatch"
      BY <2>3 DEF MainMoves, HostMoves, InEngine
    <2> QED
      BY <1>5, <2>1, <2>2, <2>3
  <1>6. CASE stage \in {"serving", "exited"}
    BY <1>6 DEF HostMoves
  <1> QED
    BY <1>1, <1>2, <1>3, <1>4, <1>5, <1>6 DEF IInv, Stages, Early, Middle, Late

\* The registry's lock, the wait for the workers of a benchmark and the wait for the
\* dispatcher do not block a host that starts, measures or ends: only the engine can.
THEOREM HostNeverStuck == Spec => []HostMoves
  <1>1. Init => Draining
    BY Zenon DEF Init, Draining, Svc!SInit
  <1>2. IInv /\ BInv /\ ReadyInTime /\ AnswersInv /\ Taken /\ Draining => HostMoves
    BY SomeoneMoves
  <1> QED
    BY Invariance, InitBInv, NextBInv, InitReady, NextReady, Answers, NextDraining, <1>1, <1>2, PTL
       DEF Spec
=============================================================================

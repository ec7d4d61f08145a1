-------------------------------- MODULE Host --------------------------------
(***************************************************************************)
(* The programs that own an engine and a dispatcher: the gateway           *)
(* (internal/cli/serve.go), the benchmark (bench.go) and the desktop       *)
(* application (gui/app.go), from start-up to exit, with the lazily opened *)
(* function registry (internal/state/db.go) and with deployments, which    *)
(* go on next to them (Deploy). The dispatcher is what Dispatcher is shown *)
(* to implement, JobService; the engine is open or closed.                 *)
(*                                                                         *)
(* A definition marked (slip) is not part of the model but a plausible     *)
(* mistake in the one after it.                                            *)
(***************************************************************************)
EXTENDS Deploy, FiniteSets

CONSTANTS
  Iterations, \* bound: the requests of a gateway's or desktop's life; a benchmark's --iterations
  Capacity,   \* jobs the dispatcher can hold
  Workers,    \* the benchmark's --concurrency
  Wanted,     \* Wanted[q]: the function that request q names
  ByRoute,    \* the requests that reach a gateway by route, not by name
  Alongside   \* bound: the deployers that run next to a host

Requests == 1..Iterations
Outcomes == {"200", "400", "404", "429", "500", "502", "503"}
Main == 0   \* the goroutine that starts and ends the host

ASSUME HostAssumption ==
  /\ Iterations \in Nat \ {0} /\ Capacity \in Nat \ {0}
  /\ Wanted \in [Requests -> Names] /\ ByRoute \subseteq Requests
  /\ Alongside \subseteq Deployers /\ None \notin Workers \cup Outcomes
  /\ IsFiniteSet(Workers)

VARIABLES
  host,     \* "serve", "preload" (serve --preload), "desktop", "bench", or "none": only deployments
  stage,    \* where Main stands
  eng,      \* the engine: "none", "open", "closed"
  cut,      \* the gateway gave its handlers up: grace period over, or listener broken
  handle,   \* the registry's db is not nil
  init,     \* who holds dbMu in initDB, and at which step, or None
  knocking, \* who found no handle and waits for dbMu
  req, code, \* phase and outcome of request q
  next,     \* the benchmark's shared index
  doing,    \* doing[w]: the iteration worker w measures, or 0
  returned, \* the workers that have returned
  measured, \* measured[q]: the latencies written for iteration q
  errors,   \* the benchmark's error count
  status, open, stopped \* the dispatcher, see JobService

Svc == INSTANCE JobService WITH Jobs <- Requests

svars == <<status, open, stopped>>
rvars == <<req, code>>
bvars == <<next, doing, returned, measured, errors>>
dbvars == <<handle, init, knocking>>
vars == <<host, stage, eng, cut, dbvars, rvars, bvars, svars, dvars>>

Gateway == host \in {"serve", "preload"}
Listing == host \in {"preload", "desktop"}
Alive == stage # "exited"
Active == {q \in Requests : req[q] \notin {"none", "done"}}

Init ==
  /\ DInit
  /\ host \in {"serve", "preload", "desktop", "bench", "none"}
  /\ stage = IF host = "none" THEN "exited" ELSE "start"
  /\ eng = "none" /\ cut = FALSE
  /\ handle = FALSE /\ init = None /\ knocking = {}
  /\ req = [q \in Requests |-> "none"] /\ code = [q \in Requests |-> None]
  /\ next = 1 /\ doing = [w \in Workers |-> 0] /\ returned = {}
  /\ measured = [q \in Requests |-> 0] /\ errors = 0
  /\ Svc!SInit

Goto(from, to) == stage = from /\ stage' = to

\* The handler of q (the benchmark: its call) returns with outcome c.
Reply(q, c) ==
  /\ req' = [req EXCEPT ![q] = "done"]
  /\ code' = [code EXCEPT ![q] = c]

-----------------------------------------------------------------------------
(* The registry: GetDB and initDB, then one query. *)

\* x is in a query: ListFunctions of Main, GetFunction or GetFunctionByRoute.
Asks(x) == IF x = Main THEN stage = "list" ELSE Alive /\ req[x] = "lookup"

Holds(x) == init # None /\ init.who = x

\* The query of x returns an error: the host does not start, the gateway answers
\* 404 whatever the error is.
Failed(x) ==
  IF x = Main THEN stage' = "engine" /\ UNCHANGED rvars
              ELSE Reply(x, "404") /\ UNCHANGED stage

\* GetDB reads `db` without the lock, and calls initDB when it is nil.
Knock(x) ==
  /\ Asks(x) /\ ~handle /\ x \notin knocking
  /\ knocking' = knocking \cup {x}
  /\ UNCHANGED <<host, stage, eng, cut, handle, init, rvars, bvars, svars, dvars>>

\* x is given dbMu.
Enters(x) ==
  /\ Asks(x) /\ x \in knocking /\ init = None
  /\ knocking' = knocking \ {x}

\* Somebody else was there: initDB returns no error, whatever became of the schema.
FindsOpen(x) ==
  /\ Enters(x) /\ handle
  /\ UNCHANGED <<host, stage, eng, cut, handle, init, rvars, bvars, svars, dvars>>

\* `db` is set before the table exists.
OpenDB(x) ==
  /\ Enters(x) /\ ~handle
  /\ handle' = TRUE
  /\ init' = [who |-> x, step |-> "create"]
  /\ UNCHANGED <<host, stage, eng, cut, rvars, bvars, svars, dvars>>

OpenFails(x) ==
  /\ Enters(x) /\ ~handle
  /\ Failed(x)
  /\ UNCHANGED <<host, eng, cut, handle, init, bvars, svars, dvars>>

CreateTable(x) ==
  /\ Asks(x) /\ Holds(x) /\ init.step = "create"
  /\ schema' = IF schema = "none" THEN "old" ELSE schema
  /\ init' = [init EXCEPT !.step = "columns"]
  /\ UNCHANGED <<host, stage, eng, cut, handle, knocking, rvars, bvars, svars,
                 dpc, at, fd, stored, data, rows>>

AddColumns(x) ==
  /\ Asks(x) /\ Holds(x) /\ init.step = "columns"
  /\ schema' = "new"
  /\ init' = None
  /\ UNCHANGED <<host, stage, eng, cut, handle, knocking, rvars, bvars, svars,
                 dpc, at, fd, stored, data, rows>>

\* (slip) the early returns do not unlock.
KeepLock == UNCHANGED init

Unlock == init' = None

\* A busy database, or columns that another process added meanwhile. `db` stays set.
InitFails(x) ==
  /\ Asks(x) /\ Holds(x)
  /\ Unlock
  /\ Failed(x)
  /\ UNCHANGED <<host, eng, cut, handle, knocking, bvars, svars, dvars>>

Matches(q) == {n \in Registered :
                 IF Gateway /\ q \in ByRoute THEN rows[n].route = Wanted[q] ELSE n = Wanted[q]}

\* Every query names the later columns.
Readable == schema = "new"

\* A query fails without the row, without the columns, or for a reason of its own.
Query(x) ==
  /\ Asks(x) /\ handle /\ ~Holds(x) /\ x \notin knocking
  /\ \/ Failed(x)
     \/ Readable /\ x = Main /\ stage' = "dispatch" /\ UNCHANGED rvars
     \/ /\ Readable /\ x # Main /\ Matches(x) # {}
        /\ req' = [req EXCEPT ![x] = "submit"]
        /\ UNCHANGED <<stage, code>>
  /\ UNCHANGED <<host, eng, cut, dbvars, bvars, svars, dvars>>

Registry(x) ==
  \/ Knock(x) \/ FindsOpen(x) \/ OpenDB(x) \/ OpenFails(x)
  \/ CreateTable(x) \/ AddColumns(x) \/ InitFails(x) \/ Query(x)

-----------------------------------------------------------------------------
(* A request: invokeFunction of the gateway, InvokeFunction of the desktop,*)
(* and a call that the benchmark measures.                                 *)

\* The gateway's listener, or the desktop's window, is open.
Arrive(q) ==
  /\ stage = "serving"
  /\ req[q] = "none"
  /\ req' = [req EXCEPT ![q] = "lookup"]
  /\ UNCHANGED <<host, stage, eng, cut, dbvars, code, bvars, svars, dvars>>

BodyFails(q) ==
  /\ Alive /\ Gateway /\ req[q] = "submit"
  /\ Reply(q, "400")
  /\ UNCHANGED <<host, stage, eng, cut, dbvars, bvars, svars, dvars>>

Submitted(q) ==
  /\ Alive /\ req[q] = "submit"
  /\ Svc!Admit(q)
  /\ req' = [req EXCEPT ![q] = "wait"]
  /\ UNCHANGED <<host, stage, eng, cut, dbvars, code, bvars, dvars>>

\* Load or a limit, a caller that is gone, a closed dispatcher.
Refused(q) ==
  /\ Alive /\ req[q] = "submit"
  /\ Svc!Refuse(q)
  /\ \E c \in {"500", IF open THEN "429" ELSE "503"} : Reply(q, c)
  /\ UNCHANGED <<host, stage, eng, cut, dbvars, bvars, dvars>>

\* The job's result, the caller's cancellation, or the end of the dispatcher.
Answered(q) ==
  /\ Alive /\ req[q] = "wait"
  /\ \/ status[q] = "ran" /\ \E c \in {"200", "502"} : Reply(q, c)
     \/ Reply(q, "500")
     \/ stopped /\ Reply(q, "503")
  /\ UNCHANGED <<host, stage, eng, cut, dbvars, bvars, svars, dvars>>

RunJob(q) ==
  /\ Alive
  /\ Svc!Run(q)
  /\ UNCHANGED <<host, stage, eng, cut, dbvars, rvars, bvars, dvars>>

Call(q) == BodyFails(q) \/ Submitted(q) \/ Refused(q) \/ Answered(q)

-----------------------------------------------------------------------------
(* The benchmark's runMeasured. *)

\* (slip)
InRangeTooFar(i) == i <= Iterations + 1

InRange(i) == i <= Iterations

Take(w) ==
  /\ stage = "measure" /\ doing[w] = 0 /\ w \notin returned
  /\ next' = next + 1
  /\ IF InRange(next)
     THEN /\ doing' = [doing EXCEPT ![w] = next]
          /\ req' = [req EXCEPT ![next] = "submit"]
          /\ UNCHANGED returned
     ELSE returned' = returned \cup {w} /\ UNCHANGED <<doing, req>>
  /\ UNCHANGED <<host, stage, eng, cut, dbvars, code, measured, errors, svars, dvars>>

\* A guest that exits with a code other than 0 is no error.
IsError(c) == c \notin {"200", "502"}

Measure(w) ==
  /\ stage = "measure" /\ doing[w] # 0 /\ req[doing[w]] = "done"
  /\ measured' = [measured EXCEPT ![doing[w]] = @ + 1]
  /\ errors' = IF IsError(code[doing[w]]) THEN errors + 1 ELSE errors
  /\ doing' = [doing EXCEPT ![w] = 0]
  /\ UNCHANGED <<host, stage, eng, cut, dbvars, rvars, next, returned, svars, dvars>>

\* (slip) the summary is made when the last iteration has been taken.
AllTaken == next > Iterations

AllReturned == returned = Workers

MeasuredAll ==
  /\ AllReturned
  /\ Goto("measure", "closing")
  /\ UNCHANGED <<host, eng, cut, dbvars, rvars, bvars, svars, dvars>>

-----------------------------------------------------------------------------
(* Main. *)

NewEngine ==
  /\ eng' = "open"
  /\ Goto("start", IF Listing THEN "list" ELSE IF host = "bench" THEN "preload" ELSE "dispatch")
  /\ UNCHANGED <<host, cut, dbvars, rvars, bvars, svars, dvars>>

NewEngineFails ==
  /\ Goto("start", "exited")
  /\ UNCHANGED <<host, eng, cut, dbvars, rvars, bvars, svars, dvars>>

\* The benchmark, unlike the others, stops when its module cannot be preloaded.
PreloadEnds ==
  /\ Goto("preload", "dispatch") \/ Goto("preload", "engine")
  /\ UNCHANGED <<host, eng, cut, dbvars, rvars, bvars, svars, dvars>>

NewDispatcher ==
  /\ \/ Goto("dispatch", IF host = "bench" THEN "warmup" ELSE "serving")
     \/ Goto("dispatch", "engine")
  /\ UNCHANGED <<host, eng, cut, dbvars, rvars, bvars, svars, dvars>>

\* One call after another; the first that fails ends the benchmark.
WarmupEnds ==
  /\ Goto("warmup", "measure") \/ Goto("warmup", "closing")
  /\ UNCHANGED <<host, eng, cut, dbvars, rvars, bvars, svars, dvars>>

Quit ==
  /\ host = "desktop" /\ Goto("serving", "closing")
  /\ UNCHANGED <<host, eng, cut, dbvars, rvars, bvars, svars, dvars>>

Signal ==
  /\ Gateway /\ Goto("serving", "shutdown")
  /\ UNCHANGED <<host, eng, cut, dbvars, rvars, bvars, svars, dvars>>

ListenFails ==
  /\ Gateway /\ Goto("serving", "closing")
  /\ cut' = TRUE
  /\ UNCHANGED <<host, eng, dbvars, rvars, bvars, svars, dvars>>

\* (slip) the server is closed without waiting for its handlers.
NobodyWaited == TRUE

HandlersReturned == Active = {}

ShutdownDone ==
  /\ HandlersReturned
  /\ Goto("shutdown", "closing")
  /\ UNCHANGED <<host, eng, cut, dbvars, rvars, bvars, svars, dvars>>

\* (slip) the grace period has no end.
NoTimeout == FALSE

GraceOver == stage = "shutdown"

ShutdownTimesOut ==
  /\ GraceOver
  /\ Goto("shutdown", "closing")
  /\ cut' = TRUE
  /\ UNCHANGED <<host, eng, dbvars, rvars, bvars, svars, dvars>>

CloseDispatcher ==
  /\ Goto("closing", "draining")
  /\ Svc!StopAdmission
  /\ UNCHANGED <<host, eng, cut, dbvars, rvars, bvars, dvars>>

\* (slip) Close returns when it has closed the queue.
NotAwaited == stage = "draining" /\ UNCHANGED svars

Drained == stage = "draining" /\ Svc!Stop

DispatcherStops ==
  /\ Drained
  /\ stage' = "engine"
  /\ UNCHANGED <<host, eng, cut, dbvars, rvars, bvars, dvars>>

CloseEngine ==
  /\ Goto("engine", "exiting")
  /\ eng' = "closed"
  /\ UNCHANGED <<host, cut, dbvars, rvars, bvars, svars, dvars>>

\* Whatever still runs ends with the process.
Exit ==
  /\ Goto("exiting", "exited")
  /\ UNCHANGED <<host, eng, cut, dbvars, rvars, bvars, svars, dvars>>

MainStep ==
  \/ NewEngine \/ NewEngineFails \/ PreloadEnds \/ NewDispatcher \/ WarmupEnds \/ MeasuredAll
  \/ ShutdownDone \/ ShutdownTimesOut \/ CloseDispatcher \/ DispatcherStops \/ CloseEngine \/ Exit

-----------------------------------------------------------------------------
\* The desktop's Preload after a deployment is left out: it changes the engine only.
Deploying(d) ==
  /\ host = "none" \/ d \in Alongside
  /\ DeployStep(d)
  /\ UNCHANGED <<host, stage, eng, cut, dbvars, rvars, bvars, svars>>

Finished ==
  /\ ~Alive
  /\ \A d \in IF host = "none" THEN Deployers ELSE Alongside : Ended(d)
  /\ UNCHANGED vars

Next ==
  \/ MainStep \/ Quit \/ Signal \/ ListenFails \/ Registry(Main)
  \/ \E q \in Requests : Arrive(q) \/ Registry(q) \/ Call(q) \/ RunJob(q)
  \/ \E w \in Workers : Take(w) \/ Measure(w)
  \/ \E d \in Deployers : Deploying(d)
  \/ Finished

\* Main is in the engine: in a Preload, which a host that lists the functions runs on
\* its way through "dispatch", in a call of the warm-up, or in engine.Close.
InEngine ==
  \/ stage \in {"preload", "warmup", "engine"}
  \/ stage = "dispatch" /\ Listing

\* The benchmark's call of q waits for nobody.
Due(q) == host = "bench" /\ (req[q] = "wait" => status[q] = "ran" \/ stopped)

(***************************************************************************)
(* Fairness. Main, the benchmark's workers and the handlers are scheduled, *)
(* and the database answers, be it with an error. Nothing is asked of the  *)
(* engine: its pool store can block for ever, whatever timeout a job has   *)
(* (InstancePool, Engine), so that a job need not end, nor engine.Close.   *)
(* After its look-up a handler may hang on its client; nobody has to ask,  *)
(* to signal or to quit; and a deployment may stop anywhere.               *)
(***************************************************************************)
Fairness ==
  /\ WF_vars(~InEngine /\ MainStep)
  /\ \A x \in {Main} \cup Requests : WF_vars(Registry(x))
  /\ \A q \in Requests : WF_vars(Due(q) /\ Call(q))
  /\ \A w \in Workers : WF_vars(Take(w) \/ Measure(w))

Spec == Init /\ [][Next]_vars /\ Fairness

-----------------------------------------------------------------------------
(* Properties. *)

TypeOK ==
  /\ DTypeOK
  /\ host \in {"serve", "preload", "desktop", "bench", "none"}
  /\ stage \in {"start", "list", "preload", "dispatch", "warmup", "measure", "serving",
                "shutdown", "closing", "draining", "engine", "exiting", "exited"}
  /\ eng \in {"none", "open", "closed"} /\ {cut, handle} \subseteq BOOLEAN
  /\ knocking \subseteq {Main} \cup Requests
  /\ init # None => handle /\ init.who \in {Main} \cup Requests /\ init.step \in {"create",
     "columns"}
  /\ req \in [Requests -> {"none", "lookup", "submit", "wait", "done"}]
  /\ code \in [Requests -> Outcomes \cup {None}]
  /\ next \in 1..(Iterations + 1 + Cardinality(Workers))
  /\ doing \in [Workers -> 0..Iterations] /\ returned \subseteq Workers
  /\ measured \in [Requests -> Nat] /\ errors \in 0..Iterations
  /\ status \in [Requests -> {"new", "refused", "admitted", "ran"}]
  /\ {open, stopped} \subseteq BOOLEAN

\* An accepted job never meets a closed engine, whatever the host and however it
\* ends, with or without the handlers' consent (serve.go:64, 90, 112-128;
\* app.go:49-56).
ServedOnOpenEngine == Svc!Admitted # {} => eng = "open"

\* A gateway that ends within its grace period has answered every request that
\* reached it, and told none that the dispatcher is closed (serve.go:112-128, 219).
GracefulEndAnswersAll ==
  Gateway /\ ~cut =>
    /\ stage \in {"closing", "draining", "engine", "exiting", "exited"} => Active = {}
    /\ \A q \in Requests : code[q] # "503"

\* A look-up ends, whoever opens the registry first and wherever that fails: nobody
\* waits for ever for dbMu, in a gateway whose first requests come together as in
\* a host that lists the functions first (db.go:32-68, 239-246).
LookupsEnd == \A x \in {Main} \cup Requests : Asks(x) ~> ~Asks(x)

\* The benchmark's summary counts every iteration once, and the iterations that
\* failed, whatever the number of workers (bench.go:324-350).
MeasuredOnce ==
  /\ \A q \in Requests : measured[q] <= 1
  /\ errors = Cardinality({q \in Requests : measured[q] = 1 /\ IsError(code[q])})
  /\ host = "bench" /\ next > 1 /\ stage \notin {"start", "measure"} =>
       \A q \in Requests : measured[q] = 1

\* A gateway that is told to stop, a desktop that is left and a benchmark that
\* measures end, also when a handler hangs on its client; or they wait for ever in
\* the engine, for a job that was accepted or in engine.Close (serve.go:53, 79,
\* 118-128; app.go:38-45; bench.go:178, 198, 324-350; dispatcher.go:207-216).
HostExits ==
  stage \in {"measure", "shutdown", "closing"} ~>
    \/ stage = "exited"
    \/ [](stage \in {"measure", "draining"} /\ Svc!Admitted # {})
    \/ [](stage = "engine")
=============================================================================

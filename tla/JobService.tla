----------------------------- MODULE JobService -----------------------------
(***************************************************************************)
(* What a client of the dispatcher may rely on, with no queue, workers,    *)
(* locks or limits: a service that admits a bounded number of jobs, runs   *)
(* each admitted job exactly once whatever becomes of its caller, runs no  *)
(* job it refused, and stops only when nothing it admitted is left to run. *)
(* Dispatcher implements it (DispatcherProps!Service).                     *)
(***************************************************************************)
EXTENDS Naturals, FiniteSets

CONSTANTS Jobs, Capacity

VARIABLES
  status,   \* status[j]: "new", then "refused", or "admitted" and then "ran"
  open,     \* the service admits jobs
  stopped   \* the service has no worker left

svars == <<status, open, stopped>>

Admitted == {j \in Jobs : status[j] = "admitted"}

SInit ==
  /\ status = [j \in Jobs |-> "new"]
  /\ open = TRUE
  /\ stopped = FALSE

Admit(j) ==
  /\ open
  /\ status[j] = "new"
  /\ Cardinality(Admitted) < Capacity
  /\ status' = [status EXCEPT ![j] = "admitted"]
  /\ UNCHANGED <<open, stopped>>

\* Load, a limit, a cancelled caller or a closed service: the job never runs.
Refuse(j) ==
  /\ status[j] = "new"
  /\ status' = [status EXCEPT ![j] = "refused"]
  /\ UNCHANGED <<open, stopped>>

Run(j) ==
  /\ ~stopped
  /\ status[j] = "admitted"
  /\ status' = [status EXCEPT ![j] = "ran"]
  /\ UNCHANGED <<open, stopped>>

StopAdmission ==
  /\ open
  /\ open' = FALSE
  /\ UNCHANGED <<status, stopped>>

Stop ==
  /\ ~open /\ ~stopped
  /\ Admitted = {}
  /\ stopped' = TRUE
  /\ UNCHANGED <<status, open>>

SNext ==
  \/ \E j \in Jobs : Admit(j) \/ Refuse(j) \/ Run(j)
  \/ StopAdmission
  \/ Stop

SSafe == SInit /\ [][SNext]_svars

\* Every admitted job runs, and a closed service comes to a stop.
SSpec ==
  /\ SSafe
  /\ \A j \in Jobs : WF_svars(Run(j))
  /\ WF_svars(Stop)
=============================================================================

------------------------------ MODULE Rollout ------------------------------
(***************************************************************************)
(* JobWorker and Migrate together: api and worker processes migrate each   *)
(* time they start, on the schema that the others are using.  A process    *)
(* that migrates drops jobs_notify and creates it again in a second        *)
(* statement; a job committed in between notifies nobody.                  *)
(***************************************************************************)
EXTENDS JobWorker, Migrate

CONSTANTS
  Apis          \* api processes

ASSUME RolloutAssumption ==
  /\ Apis \cap Workers = {}
  /\ Procs = Apis \cup Workers
  /\ MaxDeaths >= MaxFaults

VARIABLES
  silent        \* history: jobs committed while there was no trigger

allVars == <<vars, schemaVars, silent>>

RolloutInit ==
  /\ Init
  /\ SchemaInit
  /\ silent = {}

Serves(p) == at[p] = Up

Migrates(p) ==
  /\ Step(p)
  /\ UNCHANGED <<vars, silent>>

(* cmd/worker: Run starts after Migrate. *)
Starts(w) ==
  /\ Serves(w)
  /\ Start(w)
  /\ UNCHANGED <<schemaVars, silent>>

Ends(w) ==
  /\ Exit(w) \/ Crash(w)
  /\ Die(w)
  /\ UNCHANGED silent

(* A process that runs no Run goroutine is killed: an api, or a worker in  *)
(* Migrate.                                                                *)
Killed(p) ==
  /\ p \in Workers => pc[p] = "down"
  /\ Fault("crash")
  /\ Die(p)
  /\ UNCHANGED <<storeVars, procVars, history, silent>>

(* An api process commits a ticket with its job. *)
Commits(j) ==
  /\ \E a \in Apis : Serves(a)
  /\ IF trigger
       THEN Submit(j) /\ UNCHANGED silent
       ELSE /\ InsertSilently(j)
            /\ silent' = silent \cup {j}
            /\ UNCHANGED <<procVars, budget, history>>
  /\ UNCHANGED schemaVars

Runs(w) ==
  /\ Work(w) \/ Wake(w) \/ Poll(w) \/ Deliver(w) \/ LoseListen(w) \/ Stop(w)
  /\ UNCHANGED <<schemaVars, silent>>

RolloutNext ==
  \/ \E p \in Procs : Migrates(p) \/ Killed(p)
  \/ \E w \in Workers : Starts(w) \/ Runs(w) \/ Ends(w)
  \/ \E j \in Jobs : Commits(j) \/ (RetryDue(j) /\ UNCHANGED <<schemaVars, silent>>)

RolloutSpec == RolloutInit /\ [][RolloutNext]_allVars

(* The fairness of the two specifications. *)
RolloutFairness ==
  /\ \A p \in Procs : WF_allVars(Migrates(p))
  /\ \A w \in Workers :
       /\ WF_allVars(Starts(w))
       /\ WF_allVars(Work(w) /\ Runs(w))
       /\ WF_allVars(Wake(w) /\ Runs(w))
       /\ WF_allVars(Deliver(w) /\ Runs(w))
       /\ WF_allVars(Poll(w) /\ Runs(w))
       /\ SF_allVars(Exit(w) /\ Ends(w))
  /\ \A j \in Jobs : WF_allVars(RetryDue(j) /\ UNCHANGED <<schemaVars, silent>>)

RolloutFairSpec == RolloutSpec /\ RolloutFairness

-----------------------------------------------------------------------------
(* Migrations of other processes lose a wake-up only for a job committed   *)
(* between DROP TRIGGER and CREATE TRIGGER: to every other new job the     *)
(* worker that goes to sleep has a notification (store.go:79-82).          *)
WakeupUnlessSilent ==
  budget = MaxFaults => \A w \in Workers, j \in Jobs \ silent : Woken(w, j)

(* While every process serves, no job can go unannounced any more, whoever *)
(* dropped the trigger and wherever it died.                               *)
SilentOnlyInRollout ==
  [][silent' # silent => \E p \in Procs : ~Serves(p)]_allVars

(* The poll finds the unannounced jobs too, and migrations that make each  *)
(* other fail end.                                                         *)
SilentIsClaimed ==
  \A j \in Jobs : (j \in silent /\ status[j] = "pending") ~> (status[j] # "pending")

-----------------------------------------------------------------------------
(* The inductive invariant: Migrate's, what of JobWorker's does not need    *)
(* the trigger, and the order of a worker's start: Run after Migrate.      *)

RunsMigrated == \A w \in Workers : pc[w] # "down" => Serves(w)

RolloutInv == SchemaInv /\ Safe /\ WakeupUnlessSilent /\ RunsMigrated

=============================================================================

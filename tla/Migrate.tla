------------------------------ MODULE Migrate ------------------------------
(***************************************************************************)
(* store.Migrate: every api and worker process executes the same list of   *)
(* statements when it starts, each statement in a transaction of its own,  *)
(* on one Postgres and without a lock that covers the list.                *)
(*                                                                         *)
(* at[p] is the statement process p is at: 0 when there is no process,     *)
(* 1 .. Builds for the tables, indexes, column and function, Drop and Make *)
(* for the trigger, Up once Migrate has returned nil.                      *)
(*                                                                         *)
(* CREATE ... IF NOT EXISTS and CREATE OR REPLACE FUNCTION look first and  *)
(* write later; Postgres refuses the second of two sessions that write the *)
(* same catalog row ("duplicate key value", "tuple concurrently updated"). *)
(* ALTER TABLE and the statements on the trigger lock the table first.     *)
(***************************************************************************)
EXTENDS Naturals

CONSTANTS
  Procs,        \* api and worker processes
  Builds,       \* how many statements come before the trigger's two
  Serial,       \* those that lock their table first: ALTER TABLE
  Replaced,     \* those that write even if the object is there: OR REPLACE
  MaxDeaths     \* bound: how many processes die

ASSUME MigrateAssumption ==
  /\ Procs # {}
  /\ Builds \in Nat
  /\ Serial \subseteq 1 .. Builds
  /\ MaxDeaths \in Nat

VARIABLES
  at,           \* where each process is
  flight,       \* processes whose statement has looked and not yet written
  beaten,       \* those of them another session has written before
  built,        \* statements whose object is in the catalog
  trigger,      \* jobs_notify exists
  alone,        \* history: processes nobody has migrated beside
  deaths        \* processes killed so far

schemaVars == <<at, flight, beaten, built, trigger, alone, deaths>>

Drop == Builds + 1
Make == Builds + 2
Up   == Builds + 3

SchemaInit ==
  /\ at = [p \in Procs |-> 0]
  /\ flight = {} /\ beaten = {}
  /\ built = {}
  /\ trigger = FALSE
  /\ alone = {}
  /\ deaths = 0

Migrating == {p \in Procs : at[p] \in 1 .. Make}

-----------------------------------------------------------------------------
Begin(p) ==
  /\ at[p] = 0
  /\ at' = [at EXCEPT ![p] = 1]
  /\ alone' = IF Migrating = {} THEN alone \cup {p} ELSE alone \ (Migrating \cup {p})
  /\ UNCHANGED <<flight, beaten, built, trigger, deaths>>

(* Mutant: a first table that is there stands for the whole schema. *)
SkipAll(p) ==
  /\ at[p] \in 1 .. Builds \ (Serial \cup Replaced)
  /\ p \notin flight
  /\ at[p] \in built
  /\ at' = [at EXCEPT ![p] = Drop]
  /\ UNCHANGED <<flight, beaten, built, trigger, alone, deaths>>

(* "already exists, skipping" *)
Skip(p) ==
  /\ at[p] \in 1 .. Builds \ (Serial \cup Replaced)
  /\ p \notin flight
  /\ at[p] \in built
  /\ at' = [at EXCEPT ![p] = @ + 1]
  /\ UNCHANGED <<flight, beaten, built, trigger, alone, deaths>>

Look(p) ==
  /\ at[p] \in 1 .. Builds \ Serial
  /\ p \notin flight
  /\ at[p] \in built => at[p] \in Replaced
  /\ flight' = flight \cup {p}
  /\ UNCHANGED <<at, beaten, built, trigger, alone, deaths>>

Write(p) ==
  /\ p \in flight \ beaten
  /\ built' = built \cup {at[p]}
  /\ beaten' = beaten \cup {q \in flight \ {p} : at[q] = at[p]}
  /\ flight' = flight \ {p}
  /\ at' = [at EXCEPT ![p] = @ + 1]
  /\ UNCHANGED <<trigger, alone, deaths>>

Alter(p) ==
  /\ at[p] \in Serial
  /\ built' = built \cup {at[p]}
  /\ at' = [at EXCEPT ![p] = @ + 1]
  /\ UNCHANGED <<flight, beaten, trigger, alone, deaths>>

(* Mutant: the statement is missing from the list. *)
DropNothing(p) ==
  /\ at[p] = Drop
  /\ at' = [at EXCEPT ![p] = Make]
  /\ UNCHANGED <<flight, beaten, built, trigger, alone, deaths>>

DropTrigger(p) ==
  /\ at[p] = Drop
  /\ trigger' = FALSE
  /\ at' = [at EXCEPT ![p] = Make]
  /\ UNCHANGED <<flight, beaten, built, alone, deaths>>

(* Mutant: the error of the statement is not returned. *)
CreateTriggerOrNot(p) ==
  /\ at[p] = Make
  /\ trigger' \in {trigger, TRUE}
  /\ at' = [at EXCEPT ![p] = Up]
  /\ UNCHANGED <<flight, beaten, built, alone, deaths>>

CreateTrigger(p) ==
  /\ at[p] = Make
  /\ ~trigger
  /\ trigger' = TRUE
  /\ at' = [at EXCEPT ![p] = Up]
  /\ UNCHANGED <<flight, beaten, built, alone, deaths>>

(* The process ends; Postgres rolls back its statement. *)
Down(p) ==
  /\ at' = [at EXCEPT ![p] = 0]
  /\ flight' = flight \ {p}
  /\ beaten' = beaten \ {p}

(* "migration failed": main exits with 1, and is started again. *)
Fails(p) ==
  /\ p \in beaten \/ (at[p] = Make /\ trigger)
  /\ Down(p)
  /\ UNCHANGED <<built, trigger, alone, deaths>>

(* Killed, or stopped by a database error, wherever it is. *)
Die(p) ==
  /\ at[p] # 0
  /\ deaths < MaxDeaths
  /\ deaths' = deaths + 1
  /\ Down(p)
  /\ UNCHANGED <<built, trigger, alone>>

Step(p) ==
  \/ Begin(p) \/ Skip(p) \/ Look(p) \/ Write(p) \/ Alter(p)
  \/ DropTrigger(p) \/ CreateTrigger(p) \/ Fails(p)

SchemaNext == \E p \in Procs : Step(p) \/ Die(p)

SchemaSpec == SchemaInit /\ [][SchemaNext]_schemaVars

(* Statements return, and a process that has ended is started again. *)
SchemaFairSpec == SchemaSpec /\ \A p \in Procs : WF_schemaVars(Step(p))

-----------------------------------------------------------------------------
(* A statement finds what those before it have built, and a process that   *)
(* serves has the whole schema, whoever built it.                          *)
SchemaReady ==
  \A p \in Procs, i \in 1 .. Builds : at[p] > i => i \in built

(* Once every process serves the trigger is there: a process that dropped  *)
(* it does not serve before it, or another, has created it again.          *)
TriggerBack == (\A p \in Procs : at[p] = Up) => trigger

(* "Migrations idempotentes" (cmd/worker/main.go): a process that migrates *)
(* while no other does never fails, however often the schema was migrated, *)
(* and wherever a process died in the middle of it.                        *)
AloneNeverFails ==
  \A p \in alone \cap Migrating : p \notin beaten /\ ~(at[p] = Make /\ trigger)

(* Processes that start together may make each other fail; with restarts   *)
(* each of them gets through, because a process that fails has lost        *)
(* against one that went on.                                               *)
EveryProcessStarts == \A p \in Procs : (at[p] = 0) ~> (at[p] = Up)

-----------------------------------------------------------------------------
(* The inductive invariant. *)

(* Every variable has its type. *)
SchemaTypeOK ==
  /\ at \in [Procs -> 0 .. Up]
  /\ flight \subseteq Procs
  /\ beaten \subseteq flight
  /\ built \subseteq 1 .. Builds
  /\ trigger \in BOOLEAN
  /\ alone \subseteq Procs
  /\ deaths \in 0 .. MaxDeaths

InFlight == \A p \in flight : at[p] \in 1 .. Builds \ Serial

AloneIsAlone == \A p \in alone, q \in Migrating : p \in Migrating => q = p

SchemaInv ==
  /\ SchemaTypeOK /\ InFlight /\ AloneIsAlone
  /\ SchemaReady /\ TriggerBack /\ AloneNeverFails

=============================================================================

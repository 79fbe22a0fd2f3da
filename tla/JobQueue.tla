----------------------------- MODULE JobQueue ------------------------------
(***************************************************************************)
(* What the jobs table and its workers promise together, without workers,  *)
(* locks, sessions or faults: at most MaxAttempts attempts per job, at     *)
(* most one POST per attempt, one outcome.  A job whose worker is gone is  *)
(* "stranded", and stays so: no code takes a 'running' row back.           *)
(***************************************************************************)
EXTENDS Naturals

CONSTANTS
  Jobs,
  MaxAttempts,  \* attempts per job
  MayStub       \* some worker may finish a job without sending anything

VARIABLES
  phase,        \* where the job is
  tried,        \* attempts started
  sent,         \* POSTs sent
  accepted      \* jobs whose POST was accepted

vars == <<phase, tried, sent, accepted>>

Phases == {"none", "queued", "held", "stranded", "done", "failed"}

QueueInit ==
  /\ phase = [j \in Jobs |-> "none"]
  /\ tried = [j \in Jobs |-> 0]
  /\ sent = [j \in Jobs |-> 0]
  /\ accepted = {}

Move(j, from, to) ==
  /\ phase[j] = from
  /\ phase' = [phase EXCEPT ![j] = to]

Enqueue(j) ==
  /\ Move(j, "none", "queued")
  /\ UNCHANGED <<tried, sent, accepted>>

(* An attempt starts, and may be lost at once. *)
Take(j) ==
  /\ tried[j] < MaxAttempts
  /\ Move(j, "queued", "held") \/ Move(j, "queued", "stranded")
  /\ tried' = [tried EXCEPT ![j] = @ + 1]
  /\ UNCHANGED <<sent, accepted>>

Send(j) ==
  /\ phase[j] = "held"
  /\ j \notin accepted
  /\ sent[j] < tried[j]
  /\ sent' = [sent EXCEPT ![j] = @ + 1]
  /\ UNCHANGED <<phase, tried, accepted>>

Accept(j) ==
  /\ phase[j] = "held"
  /\ sent[j] > 0
  /\ accepted' = accepted \cup {j}
  /\ UNCHANGED <<phase, tried, sent>>

Finish(j) ==
  /\ j \in accepted \/ MayStub
  /\ Move(j, "held", "done")
  /\ UNCHANGED <<tried, sent, accepted>>

Retry(j) ==
  /\ j \notin accepted
  /\ tried[j] < MaxAttempts
  /\ Move(j, "held", "queued")
  /\ UNCHANGED <<tried, sent, accepted>>

GiveUp(j) ==
  /\ j \notin accepted
  /\ tried[j] = MaxAttempts
  /\ Move(j, "held", "failed")
  /\ UNCHANGED <<tried, sent, accepted>>

Strand(j) ==
  /\ Move(j, "held", "stranded")
  /\ UNCHANGED <<tried, sent, accepted>>

QueueNext ==
  \E j \in Jobs :
    \/ Enqueue(j) \/ Take(j) \/ Send(j) \/ Accept(j) \/ Finish(j)
    \/ Retry(j) \/ GiveUp(j) \/ Strand(j)

QueueSpec == QueueInit /\ [][QueueNext]_vars

=============================================================================

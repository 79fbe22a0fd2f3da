------------------------------ MODULE JobStore ------------------------------
(***************************************************************************)
(* The jobs table of internal/store (jobs.go, the schema of store.go) and  *)
(* the NOTIFY trigger that goes with it, as Postgres executes them.        *)
(*                                                                         *)
(* One operator per SQL statement.  A statement that only touches one row  *)
(* by id is one step.  ClaimNextJob is two: the sub-select takes the row   *)
(* lock (FOR UPDATE SKIP LOCKED), and the commit publishes the new row, so *)
(* that another session can look at the table while the row is locked, and *)
(* so that the statement can still be rolled back.                         *)
(*                                                                         *)
(* Time is abstracted: delayed[j] says that run_after is in the future.    *)
(***************************************************************************)
EXTENDS Naturals

CONSTANTS
  Jobs,         \* ids handed out by the BIGSERIAL of jobs.id
  Workers,      \* worker processes, named by the id they write in locked_by
  NoJob,        \* no row
  NoWorker,     \* NULL in locked_by
  MaxAttempts   \* jobs.max_attempts (5 by default in the schema)

ASSUME JobStoreAssumption ==
  /\ Jobs \subseteq Nat
  /\ NoJob \notin Jobs
  /\ NoWorker \notin Workers
  /\ MaxAttempts \in Nat \ {0}

VARIABLES
  status,       \* jobs.status, or "absent" while the row is not committed
  attempts,     \* jobs.attempts
  delayed,      \* run_after > now()
  lockedBy,     \* jobs.locked_by
  rowLock,      \* row locked by the claim statement a worker has in flight
  listening,    \* workers whose LISTEN session is alive
  inbox         \* notifications sent to a session and not yet read

storeVars == <<status, attempts, delayed, lockedBy, rowLock, listening, inbox>>

Statuses == {"absent", "pending", "running", "done", "failed"}

StoreTypeOK ==
  /\ status \in [Jobs -> Statuses]
  /\ attempts \in [Jobs -> Nat]
  /\ delayed \in [Jobs -> BOOLEAN]
  /\ lockedBy \in [Jobs -> Workers \cup {NoWorker}]
  /\ rowLock \in [Workers -> Jobs \cup {NoJob}]
  /\ listening \subseteq Workers
  /\ inbox \in [Workers -> Nat]

StoreInit ==
  /\ status = [j \in Jobs |-> "absent"]
  /\ attempts = [j \in Jobs |-> 0]
  /\ delayed = [j \in Jobs |-> FALSE]
  /\ lockedBy = [j \in Jobs |-> NoWorker]
  /\ rowLock = [w \in Workers |-> NoJob]
  /\ listening = {}
  /\ inbox = [w \in Workers |-> 0]

-----------------------------------------------------------------------------
(* The rows ClaimNextJob's sub-select may return: pending, due, and not    *)
(* skipped because another claim holds their lock.                         *)

Due(j) == status[j] = "pending" /\ ~delayed[j]

Locked(j) == \E w \in Workers : rowLock[w] = j

(* Mutant: the sub-select without FOR UPDATE. *)
CandidateUnlocked(j) == Due(j)

(* Mutant: the sub-select without its status condition. *)
CandidateAnyStatus(j) == status[j] \in {"pending", "running"} /\ ~Locked(j)

Candidate(j) == Due(j) /\ ~Locked(j)

-----------------------------------------------------------------------------
(* INSERT INTO jobs, committed.  The AFTER INSERT trigger calls pg_notify, *)
(* which Postgres delivers at commit to every session that listens.  Ids   *)
(* are drawn before the commit, so rows may appear out of id order.        *)

(* The same while the table has no trigger; used as a mutant of Insert too. *)
InsertSilently(j) ==
  /\ status[j] = "absent"
  /\ status' = [status EXCEPT ![j] = "pending"]
  /\ UNCHANGED <<attempts, delayed, lockedBy, rowLock, listening, inbox>>

Insert(j) ==
  /\ status[j] = "absent"
  /\ status' = [status EXCEPT ![j] = "pending"]
  /\ inbox' = [w \in Workers |->
                 IF w \in listening THEN inbox[w] + 1 ELSE inbox[w]]
  /\ UNCHANGED <<attempts, delayed, lockedBy, rowLock, listening>>

(* The clock passes run_after. *)
BackoffElapses(j) ==
  /\ status[j] = "pending"
  /\ delayed[j]
  /\ delayed' = [delayed EXCEPT ![j] = FALSE]
  /\ UNCHANGED <<status, attempts, lockedBy, rowLock, listening, inbox>>

-----------------------------------------------------------------------------
(* ClaimNextJob: ORDER BY id ... FOR UPDATE SKIP LOCKED LIMIT 1.           *)

ClaimLock(w) ==
  /\ \E j \in Jobs :
       /\ Candidate(j)
       /\ \A k \in Jobs : Candidate(k) => j <= k
       /\ rowLock' = [rowLock EXCEPT ![w] = j]
  /\ UNCHANGED <<status, attempts, delayed, lockedBy, listening, inbox>>

(* The UPDATE commits and releases the row. *)
ClaimCommit(w) ==
  LET j == rowLock[w] IN
  /\ status' = [status EXCEPT ![j] = "running"]
  /\ attempts' = [attempts EXCEPT ![j] = @ + 1]
  /\ lockedBy' = [lockedBy EXCEPT ![j] = w]
  /\ rowLock' = [rowLock EXCEPT ![w] = NoJob]
  /\ UNCHANGED <<delayed, listening, inbox>>

(* The statement fails and releases the row. *)
ClaimRollback(w) ==
  /\ rowLock' = [rowLock EXCEPT ![w] = NoJob]
  /\ UNCHANGED <<status, attempts, delayed, lockedBy, listening, inbox>>

-----------------------------------------------------------------------------
(* CompleteJob: WHERE id = $1, whatever the row's state.                   *)

CompleteJob(j) ==
  /\ status' = [status EXCEPT ![j] = "done"]
  /\ UNCHANGED <<attempts, delayed, lockedBy, rowLock, listening, inbox>>

(* FailJob, with the attempts the caller read when it claimed the job.     *)

RetryJob(j) ==
  /\ status' = [status EXCEPT ![j] = "pending"]
  /\ delayed' = [delayed EXCEPT ![j] = TRUE]
  /\ lockedBy' = [lockedBy EXCEPT ![j] = NoWorker]
  /\ UNCHANGED <<attempts, rowLock, listening, inbox>>

(* Mutant: the last failure only records last_error. *)
GiveUpJobSilently(j) == UNCHANGED storeVars

GiveUpJob(j) ==
  /\ status' = [status EXCEPT ![j] = "failed"]
  /\ UNCHANGED <<attempts, delayed, lockedBy, rowLock, listening, inbox>>

(* Mutant: one retry too many. *)
FailJobOffByOne(j, tries) ==
  \/ tries <= MaxAttempts /\ RetryJob(j)
  \/ tries > MaxAttempts /\ GiveUpJob(j)

FailJob(j, tries) ==
  \/ tries < MaxAttempts /\ RetryJob(j)
  \/ tries >= MaxAttempts /\ GiveUpJob(j)

-----------------------------------------------------------------------------
(* LISTEN, and the end of a listening session: what it has not read is     *)
(* lost with it.                                                           *)

Listen(w) ==
  /\ listening' = listening \cup {w}
  /\ UNCHANGED <<status, attempts, delayed, lockedBy, rowLock, inbox>>

DropSession(w) ==
  /\ listening' = listening \ {w}
  /\ inbox' = [inbox EXCEPT ![w] = 0]

=============================================================================

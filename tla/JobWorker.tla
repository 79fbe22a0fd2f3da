----------------------------- MODULE JobWorker -----------------------------
(***************************************************************************)
(* internal/jobworker: worker processes that claim rows of the jobs table, *)
(* POST the webhook, and record the outcome, with the goroutine that turns *)
(* notifications into wake-ups.                                            *)
(*                                                                         *)
(* A worker is one Run goroutine.  pc names the call it is about to make   *)
(* or is waiting in:                                                       *)
(*   down      no process                                                  *)
(*   claim     in drain, about to call ClaimNextJob                        *)
(*   claiming  the claim statement holds its row lock                      *)
(*   run       in execute, before the POST                                 *)
(*   posted    the request has left, no response yet                       *)
(*   settle    about to call CompleteJob or FailJob                        *)
(*   depth     in publishDepth, after a drain                              *)
(*   select    in Run's select                                             *)
(* Every other actor is the environment: the API that inserts jobs, the    *)
(* endpoint that answers, the clock, and the faults.                       *)
(***************************************************************************)
EXTENDS JobStore

CONSTANTS
  Unknown,      \* jobs execute always refuses: bad kind, payload or ticket
  Stubbed,      \* workers started with an empty WEBHOOK_URL
  FaultKinds,   \* the faults that may happen
  MaxFaults     \* bound: how many of them

ASSUME JobWorkerAssumption ==
  /\ Unknown \subseteq Jobs
  /\ Stubbed \subseteq Workers
  /\ FaultKinds \subseteq {"crash", "stop", "db", "listen"}
  /\ MaxFaults \in Nat

VARIABLES
  pc,
  job,          \* the job drain passed to process
  tries,        \* the Attempts it was claimed with (model.Job, in memory)
  outcome,      \* what execute returned
  token,        \* notifCh holds its one element
  listener,     \* workers whose listenLoop goroutine runs
  stopping,     \* workers whose ctx is cancelled
  budget,       \* faults that may still happen
  posts,        \* history: POSTs sent for a job, by all workers
  acked         \* history: jobs a worker has seen accepted by the endpoint

procVars == <<pc, job, tries, outcome, token, listener, stopping>>
history  == <<posts, acked>>
vars     == <<storeVars, procVars, budget, history>>

PCs == {"down", "claim", "claiming", "run", "posted", "settle", "depth", "select"}

(* Every variable has its type. *)
TypeOK ==
  /\ StoreTypeOK
  /\ pc \in [Workers -> PCs]
  /\ job \in [Workers -> Jobs \cup {NoJob}]
  /\ tries \in [Workers -> Nat]
  /\ outcome \in [Workers -> {"ok", "error"}]
  /\ token \in [Workers -> BOOLEAN]
  /\ listener \subseteq Workers
  /\ stopping \subseteq Workers
  /\ budget \in Nat
  /\ posts \in [Jobs -> Nat]
  /\ acked \subseteq Jobs

Init ==
  /\ StoreInit
  /\ pc = [w \in Workers |-> "down"]
  /\ job = [w \in Workers |-> NoJob]
  /\ tries = [w \in Workers |-> 0]
  /\ outcome = [w \in Workers |-> "ok"]
  /\ token = [w \in Workers |-> FALSE]
  /\ listener = {}
  /\ stopping = {}
  /\ budget = MaxFaults
  /\ posts = [j \in Jobs |-> 0]
  /\ acked = {}

-----------------------------------------------------------------------------
Goto(w, l) == pc' = [pc EXCEPT ![w] = l]

Fault(kind) ==
  /\ kind \in FaultKinds
  /\ budget > 0
  /\ budget' = budget - 1

(* A database call fails: for free once ctx is cancelled, else by a fault. *)
CallFails(w) ==
  \/ w \in stopping /\ UNCHANGED budget
  \/ w \notin stopping /\ Fault("db")

(* process returns, and its locals with it. *)
Forget(w) ==
  /\ job' = [job EXCEPT ![w] = NoJob]
  /\ tries' = [tries EXCEPT ![w] = 0]
  /\ outcome' = [outcome EXCEPT ![w] = "ok"]

(* drain returns on an error.  The first drain of Run, before listenLoop   *)
(* starts, is followed by a publishDepth.                                  *)
DrainReturns(w) == Goto(w, IF w \in listener THEN "select" ELSE "depth")

-----------------------------------------------------------------------------
(* Run: LISTEN first, then the initial drain. *)

(* Mutant: the first drain happens before the LISTEN statement. *)
StartThenListen(w) ==
  /\ pc[w] = "down"
  /\ Goto(w, "claim")
  /\ UNCHANGED <<storeVars, job, tries, outcome, token, listener, stopping,
                 budget, history>>

Start(w) ==
  /\ pc[w] = "down"
  /\ Listen(w)
  /\ Goto(w, "claim")
  /\ UNCHANGED <<job, tries, outcome, token, listener, stopping, budget,
                 history>>

(* drain: ErrNotFound, publishDepth, return. *)
ClaimNone(w) ==
  /\ pc[w] = "claim"
  /\ w \notin stopping
  /\ \A j \in Jobs : ~Candidate(j)
  /\ Goto(w, "depth")
  /\ UNCHANGED <<storeVars, job, tries, outcome, token, listener, stopping,
                 budget, history>>

(* publishDepth: a failed count is only logged.  After the first drain Run *)
(* creates notifCh and starts listenLoop; what the session received        *)
(* meanwhile waits for it.                                                 *)
PublishDepth(w) ==
  /\ pc[w] = "depth"
  /\ Goto(w, "select")
  /\ listener' = listener \cup {w}
  /\ UNCHANGED <<storeVars, job, tries, outcome, token, stopping, budget,
                 history>>

(* Mutant: drain goes on after an error, as it does after a job. *)
ClaimErrorContinues(w) ==
  /\ pc[w] = "claim"
  /\ CallFails(w)
  /\ UNCHANGED <<storeVars, procVars, history>>

(* drain: the call fails before it reaches the table. *)
ClaimError(w) ==
  /\ pc[w] = "claim"
  /\ CallFails(w)
  /\ DrainReturns(w)
  /\ UNCHANGED <<storeVars, job, tries, outcome, token, listener, stopping,
                 history>>

ClaimSent(w) ==
  /\ pc[w] = "claim"
  /\ w \notin stopping
  /\ ClaimLock(w)
  /\ Goto(w, "claiming")
  /\ UNCHANGED <<job, tries, outcome, token, listener, stopping, budget,
                 history>>

(* Mutant: Attempts scanned before the increment. *)
ClaimedStale(w) ==
  /\ pc[w] = "claiming"
  /\ ClaimCommit(w)
  /\ job' = [job EXCEPT ![w] = rowLock[w]]
  /\ tries' = [tries EXCEPT ![w] = attempts[rowLock[w]]]
  /\ Goto(w, "run")
  /\ UNCHANGED <<outcome, token, listener, stopping, budget, history>>

(* The statement commits and RETURNING is scanned into the job. *)
Claimed(w) ==
  /\ pc[w] = "claiming"
  /\ ClaimCommit(w)
  /\ job' = [job EXCEPT ![w] = rowLock[w]]
  /\ tries' = [tries EXCEPT ![w] = attempts[rowLock[w]] + 1]
  /\ Goto(w, "run")
  /\ UNCHANGED <<outcome, token, listener, stopping, budget, history>>

(* The statement commits, but its reply is lost: drain sees an error, and  *)
(* the row stays 'running' with nobody to run it.                          *)
ClaimReplyLost(w) ==
  /\ pc[w] = "claiming"
  /\ CallFails(w)
  /\ ClaimCommit(w)
  /\ DrainReturns(w)
  /\ UNCHANGED <<job, tries, outcome, token, listener, stopping, history>>

ClaimFails(w) ==
  /\ pc[w] = "claiming"
  /\ CallFails(w)
  /\ ClaimRollback(w)
  /\ DrainReturns(w)
  /\ UNCHANGED <<job, tries, outcome, token, listener, stopping, history>>

-----------------------------------------------------------------------------
(* process and execute.                                                    *)

Executed(w, result) ==
  /\ outcome' = [outcome EXCEPT ![w] = result]
  /\ Goto(w, "settle")
  /\ UNCHANGED <<storeVars, job, tries, token, listener, stopping>>

(* Unknown kind, undecodable payload, missing ticket. *)
ExecuteRefuses(w) ==
  /\ pc[w] = "run"
  /\ job[w] \in Unknown
  /\ Executed(w, "error")
  /\ UNCHANGED <<budget, history>>

(* GetTicket fails, or HTTP.Do does before the request has left. *)
ExecuteFails(w) ==
  /\ pc[w] = "run"
  /\ CallFails(w)
  /\ Executed(w, "error")
  /\ UNCHANGED history

(* runWebhook without a URL only logs. *)
WebhookStub(w) ==
  /\ pc[w] = "run"
  /\ w \notin stopping
  /\ w \in Stubbed
  /\ job[w] \notin Unknown
  /\ Executed(w, "ok")
  /\ UNCHANGED <<budget, history>>

Post(w) ==
  /\ pc[w] = "run"
  /\ w \notin stopping
  /\ w \notin Stubbed
  /\ job[w] \notin Unknown
  /\ posts' = [posts EXCEPT ![job[w]] = @ + 1]
  /\ Goto(w, "posted")
  /\ UNCHANGED <<storeVars, job, tries, outcome, token, listener, stopping,
                 budget, acked>>

(* A response below 300. *)
PostAccepted(w) ==
  /\ pc[w] = "posted"
  /\ acked' = acked \cup {job[w]}
  /\ Executed(w, "ok")
  /\ UNCHANGED <<budget, posts>>

(* A response of 300 or more, the 5 s client timeout, a cancelled request: *)
(* in the last two the endpoint may have taken the request all the same.   *)
PostFails(w) ==
  /\ pc[w] = "posted"
  /\ Executed(w, "error")
  /\ UNCHANGED <<budget, history>>

(* Mutant: process completes a job whatever execute returned. *)
SettleIgnoringError(w) ==
  /\ pc[w] = "settle"
  /\ w \notin stopping
  /\ CompleteJob(job[w])
  /\ Forget(w)
  /\ Goto(w, "claim")
  /\ UNCHANGED <<token, listener, stopping, budget, history>>

(* Mutant: process fails a job whatever execute returned. *)
SettleAlwaysFails(w) ==
  /\ pc[w] = "settle"
  /\ w \notin stopping
  /\ FailJob(job[w], tries[w])
  /\ Forget(w)
  /\ Goto(w, "claim")
  /\ UNCHANGED <<token, listener, stopping, budget, history>>

(* CompleteJob or FailJob is applied, and drain goes round its loop. *)
Settle(w) ==
  /\ pc[w] = "settle"
  /\ w \notin stopping
  /\ \/ outcome[w] = "ok" /\ CompleteJob(job[w])
     \/ outcome[w] = "error" /\ FailJob(job[w], tries[w])
  /\ Forget(w)
  /\ Goto(w, "claim")
  /\ UNCHANGED <<token, listener, stopping, budget, history>>

(* The call fails.  process only logs "mark done" or "mark fail". *)
SettleLost(w) ==
  /\ pc[w] = "settle"
  /\ CallFails(w)
  /\ Forget(w)
  /\ Goto(w, "claim")
  /\ UNCHANGED <<storeVars, token, listener, stopping, history>>

-----------------------------------------------------------------------------
(* Run's select.  Go chooses among the ready cases at random. *)

Wake(w) ==
  /\ pc[w] = "select"
  /\ token[w]
  /\ token' = [token EXCEPT ![w] = FALSE]
  /\ Goto(w, "claim")
  /\ UNCHANGED <<storeVars, job, tries, outcome, listener, stopping, budget,
                 history>>

(* Mutant: the poll only publishes the depth. *)
PollDepthOnly(w) ==
  /\ pc[w] = "select"
  /\ Goto(w, "depth")
  /\ UNCHANGED <<storeVars, job, tries, outcome, token, listener, stopping,
                 budget, history>>

Poll(w) ==
  /\ pc[w] = "select"
  /\ Goto(w, "claim")
  /\ UNCHANGED <<storeVars, job, tries, outcome, token, listener, stopping,
                 budget, history>>

ProcessEnds(w) ==
  /\ Goto(w, "down")
  /\ DropSession(w)
  /\ Forget(w)
  /\ token' = [token EXCEPT ![w] = FALSE]
  /\ listener' = listener \ {w}
  /\ stopping' = stopping \ {w}
  /\ UNCHANGED <<status, attempts, delayed, lockedBy, history>>

Exit(w) ==
  /\ pc[w] = "select"
  /\ w \in stopping
  /\ ProcessEnds(w)
  /\ UNCHANGED <<rowLock, budget>>

(* listenLoop: one notification read, one non-blocking send. *)

(* Mutant: an unbuffered notifCh, so that the send needs Run in its select. *)
DeliverUnbuffered(w) ==
  /\ w \in listener
  /\ w \notin stopping
  /\ inbox[w] > 0
  /\ inbox' = [inbox EXCEPT ![w] = @ - 1]
  /\ token' = [token EXCEPT ![w] = @ \/ pc[w] = "select"]
  /\ UNCHANGED <<status, attempts, delayed, lockedBy, rowLock, listening, pc,
                 job, tries, outcome, listener, stopping, budget, history>>

Deliver(w) ==
  /\ w \in listener
  /\ w \notin stopping
  /\ inbox[w] > 0
  /\ inbox' = [inbox EXCEPT ![w] = @ - 1]
  /\ token' = [token EXCEPT ![w] = TRUE]
  /\ UNCHANGED <<status, attempts, delayed, lockedBy, rowLock, listening, pc,
                 job, tries, outcome, listener, stopping, budget, history>>

-----------------------------------------------------------------------------
(* Faults. *)

(* The LISTEN connection breaks.  listenLoop then waits on a dead          *)
(* connection, a second at a time, until the process ends.                 *)
LoseListen(w) ==
  /\ w \in listening
  /\ Fault("listen")
  /\ DropSession(w)
  /\ UNCHANGED <<status, attempts, delayed, lockedBy, rowLock, procVars, history>>

(* SIGTERM: signal.NotifyContext cancels ctx. *)
Stop(w) ==
  /\ pc[w] # "down"
  /\ w \notin stopping
  /\ Fault("stop")
  /\ stopping' = stopping \cup {w}
  /\ UNCHANGED <<storeVars, pc, job, tries, outcome, token, listener, history>>

(* Mutant: the lock is a mark in the row, which nobody takes away. *)
CrashKeepsLock(w) ==
  /\ pc[w] # "down"
  /\ Fault("crash")
  /\ ProcessEnds(w)
  /\ UNCHANGED rowLock

(* The process dies, wherever it is; Postgres rolls an open claim back. *)
Crash(w) ==
  /\ pc[w] # "down"
  /\ Fault("crash")
  /\ ProcessEnds(w)
  /\ rowLock' = [rowLock EXCEPT ![w] = NoJob]

-----------------------------------------------------------------------------
(* The API commits a job; the clock reaches a run_after. *)

Submit(j) == Insert(j) /\ UNCHANGED <<procVars, budget, history>>

RetryDue(j) == BackoffElapses(j) /\ UNCHANGED <<procVars, budget, history>>

(* The steps of Run, drain and process, in the order of the code. *)
Work(w) ==
  \/ ClaimNone(w) \/ PublishDepth(w) \/ ClaimError(w) \/ ClaimSent(w)
  \/ Claimed(w) \/ ClaimReplyLost(w) \/ ClaimFails(w)
  \/ ExecuteRefuses(w) \/ ExecuteFails(w) \/ WebhookStub(w)
  \/ Post(w) \/ PostAccepted(w) \/ PostFails(w)
  \/ Settle(w) \/ SettleLost(w)

Next ==
  \/ \E w \in Workers :
       \/ Start(w) \/ Work(w) \/ Wake(w) \/ Poll(w) \/ Exit(w) \/ Deliver(w)
       \/ LoseListen(w) \/ Stop(w) \/ Crash(w)
  \/ \E j \in Jobs : Submit(j) \/ RetryDue(j)

Spec == Init /\ [][Next]_vars

(* Goroutines run, a dead worker is started again, the clock advances, and *)
(* a select that keeps finding ctx.Done ready ends up choosing it.         *)
WokenFairness ==
  /\ \A w \in Workers :
       /\ WF_vars(Start(w))
       /\ WF_vars(Work(w))
       /\ WF_vars(Wake(w))
       /\ WF_vars(Deliver(w))
       /\ SF_vars(Exit(w))
  /\ \A j \in Jobs : WF_vars(RetryDue(j))

(* The poll ticker too. *)
Fairness == WokenFairness /\ \A w \in Workers : WF_vars(Poll(w))

FairSpec  == Spec /\ Fairness
WokenSpec == Spec /\ WokenFairness

-----------------------------------------------------------------------------
(* Safety. *)

Holds(w, j) == job[w] = j /\ j # NoJob

Held(j) == \E w \in Workers : Holds(w, j)

(* A job is executed by at most one worker at a time, the one the row      *)
(* names, with the attempt number the row has: what ClaimNextJob's lock    *)
(* and status change give the unconditional UPDATEs of CompleteJob and     *)
(* FailJob.                                                                *)
ExclusiveProcessing ==
  \A w \in Workers, j \in Jobs : Holds(w, j) =>
    /\ status[j] = "running"
    /\ lockedBy[j] = w
    /\ tries[w] = attempts[j]
    /\ \A v \in Workers : Holds(v, j) => v = w

(* FailJob's budget: a pending row always has an attempt left, a failed    *)
(* one has none, and the endpoint never receives more POSTs for a job than *)
(* the attempts that were counted, however workers crash and restart.      *)
AttemptsBounded ==
  \A j \in Jobs :
    /\ status[j] = "pending" => attempts[j] < MaxAttempts
    /\ status[j] = "failed" => attempts[j] = MaxAttempts
    /\ posts[j] <= attempts[j]
    /\ attempts[j] <= MaxAttempts

(* A job the endpoint accepted and whose response the worker read is never *)
(* put back in the queue nor marked failed.                                *)
AckedNeverRetried == \A j \in acked : status[j] \in {"running", "done"}

(* 'done' means delivered, unless the worker that ran it had no URL.       *)
DoneMeansDelivered ==
  \A j \in Jobs :
    status[j] = "done" => (j \in acked \/ lockedBy[j] \in Stubbed) /\ j \notin Unknown

(* A worker asleep, or about to be, on a job nobody has tried yet will be   *)
(* woken for it, or finds it under another worker's claim.                 *)
Woken(w, j) ==
  pc[w] \in {"depth", "select"} /\ status[j] = "pending" /\ attempts[j] = 0
    => token[w] \/ inbox[w] > 0 \/ Locked(j)

(* Without faults no wake-up is lost: once a drain has found nothing, a    *)
(* job nobody has tried yet is either under another worker's claim, or the *)
(* worker that goes to sleep has its notification.  (A retried job has none: FailJob *)
(* is an UPDATE and the trigger is on INSERT; the poll takes it.)          *)
NoLostWakeup == budget = MaxFaults => \A w \in Workers, j \in Jobs : Woken(w, j)

(* The history of a row is never rewritten: a finished job keeps its state *)
(* for ever, attempts only grow, and a job leaves 'running' for 'pending'  *)
(* only through the worker that holds it.                                  *)
RowHistory ==
  [][\A j \in Jobs :
       /\ status[j] \in {"done", "failed"} => status'[j] = status[j]
       /\ attempts'[j] \in {attempts[j], attempts[j] + 1}
       /\ status[j] = "running" /\ status'[j] # "running" => Held(j)]_vars

-----------------------------------------------------------------------------
(* The inductive invariant: what each place in the code may assume. *)

(* A worker holds a job exactly while it is in process, and the row agrees. *)
Holding ==
  \A w \in Workers :
    /\ job[w] # NoJob <=> pc[w] \in {"run", "posted", "settle"}
    /\ job[w] # NoJob =>
         /\ status[job[w]] = "running"
         /\ lockedBy[job[w]] = w
         /\ tries[w] = attempts[job[w]]

(* A claim in flight locks one due row, alone. *)
RowLocks ==
  \A w \in Workers :
    /\ rowLock[w] # NoJob <=> pc[w] = "claiming"
    /\ rowLock[w] # NoJob =>
         /\ Due(rowLock[w])
         /\ \A v \in Workers : rowLock[v] = rowLock[w] => v = w

(* An attempt is counted before its POST, and a POST before its response. *)
Counts ==
  /\ \A j \in Jobs :
       /\ status[j] = "absent" => attempts[j] = 0
       /\ status[j] \in {"absent", "pending"} => attempts[j] < MaxAttempts
       /\ status[j] = "running" => attempts[j] > 0
       /\ status[j] = "failed" => attempts[j] = MaxAttempts
       /\ attempts[j] <= MaxAttempts
       /\ posts[j] <= attempts[j]
       /\ delayed[j] => attempts[j] > 0
  /\ \A w \in Workers :
       /\ pc[w] = "run" => posts[job[w]] < attempts[job[w]]
       /\ pc[w] = "posted" => posts[job[w]] > 0

(* What a worker knows of its job before it settles it. *)
Acks ==
  /\ AckedNeverRetried
  /\ DoneMeansDelivered
  /\ \A w \in Workers :
       /\ pc[w] \in {"run", "posted"} => job[w] \notin acked
       /\ pc[w] = "posted" => job[w] \notin Unknown
       /\ pc[w] = "settle" /\ outcome[w] = "error" => job[w] \notin acked
       /\ pc[w] = "settle" /\ outcome[w] = "ok" =>
            /\ job[w] \in acked \/ w \in Stubbed
            /\ job[w] \notin Unknown

(* Until the first fault every live worker listens and none is cancelled. *)
Undisturbed ==
  /\ budget <= MaxFaults
  /\ budget = MaxFaults =>
       /\ stopping = {}
       /\ \A w \in Workers : pc[w] # "down" => w \in listening

(* What holds whether or not the trigger announces a job. *)
Safe == TypeOK /\ Holding /\ RowLocks /\ Counts /\ Acks /\ Undisturbed

IInv == Safe /\ NoLostWakeup

-----------------------------------------------------------------------------
(* Refinement: what JobQueue.tla promises. *)

Phase(j) ==
  CASE status[j] = "absent"  -> "none"
    [] status[j] = "pending" -> "queued"
    [] status[j] = "running" -> IF Held(j) THEN "held" ELSE "stranded"
    [] OTHER                 -> status[j]

Queue == INSTANCE JobQueue WITH
  phase <- [j \in Jobs |-> Phase(j)], tried <- attempts, sent <- posts,
  accepted <- acked, MayStub <- (Stubbed # {})

(* The workers, the table and the faults implement the queue: no schedule  *)
(* revives a stranded or finished job, sends twice in one attempt or after *)
(* an acceptance, or gives up with attempts left.                          *)
ImplementsQueue == Queue!QueueSpec

-----------------------------------------------------------------------------
(* Liveness. *)

Settled(j) == status[j] \in {"done", "failed"}

(* The poll ticker ticks.  Without that assumption FairSpec is WokenSpec.   *)
PollTicks == \A w \in Workers : WF_vars(Poll(w))

(* A pending job is claimed, whatever the faults, thanks to the poll. *)
PendingIsClaimed ==
  PollTicks => \A j \in Jobs : (status[j] = "pending") ~> (status[j] # "pending")

(* The first claim needs no poll: LISTEN/NOTIFY is enough, until a fault. *)
FreshClaimedByNotify ==
  \A j \in Jobs :
    (status[j] = "pending" /\ attempts[j] = 0) ~> (attempts[j] > 0 \/ budget < MaxFaults)

(* While no fault happens every job ends 'done' or 'failed'. *)
SettlesUnlessFault ==
  PollTicks =>
    \A j \in Jobs : (status[j] = "pending") ~> (Settled(j) \/ budget < MaxFaults)

(* Every job ends 'done' or 'failed', as worker_test.go has it. *)
EveryJobSettles == \A j \in Jobs : (status[j] = "pending") ~> Settled(j)

(* A cancelled worker ends. *)
StopEnds == \A w \in Workers : (w \in stopping) ~> (pc[w] = "down")

=============================================================================

------------------------------- MODULE Retry -------------------------------
(***************************************************************************)
(* When a job that fails is tried again: FailJob's backoff, run_after and  *)
(* the poll ticker of Run, in seconds.  One job, one worker, no fault; the *)
(* notification of the insert may be lost.                                 *)
(***************************************************************************)
EXTENDS Durations

CONSTANTS
  MaxAttempts,  \* jobs.max_attempts
  PollEvery,    \* Worker.PollEvery, 5 s
  Timeout       \* of the webhook client, 5 s

ASSUME RetryAssumption ==
  /\ MaxAttempts \in 1 .. 34        \* 2^34 seconds do not fit in a Duration
  /\ PollEvery \in Nat \ {0}
  /\ Timeout \in Nat

VARIABLES
  status,       \* jobs.status
  attempts,
  wait,         \* run_after - now(), in seconds; not counted below two polls
  tick,         \* seconds to the next tick of pollTicker
  ready,        \* a tick or a notification waits for the select
  busy,         \* seconds execute has taken
  pause         \* history: seconds since FailJob, when the job was claimed again

vars == <<status, attempts, wait, tick, ready, busy, pause>>

Init ==
  /\ status = "pending"
  /\ attempts = 0
  /\ wait = 0
  /\ tick \in 1 .. PollEvery
  /\ ready \in BOOLEAN
  /\ busy = 0
  /\ pause = 0

(* The delay FailJob adds to now(), in seconds. *)
Delay == [a \in 1 .. MaxAttempts - 1 |->
            CHOOSE s \in 0 .. Base - 1 : Seconds(Of(s)) = Backoff(a)]

(* Run's select takes the tick, and drains: the job is due, or it is not. *)
Drain ==
  /\ ready
  /\ status # "running"
  /\ ready' = FALSE
  /\ IF status = "pending" /\ wait <= 0
       THEN /\ status' = "running"
            /\ attempts' = attempts + 1
            /\ busy' = 0
            /\ pause' = IF attempts = 0 THEN 0 ELSE Delay[attempts] - wait
       ELSE UNCHANGED <<status, attempts, busy, pause>>
  /\ UNCHANGED <<wait, tick>>

(* CompleteJob, or FailJob; the claim that follows finds nothing due. *)
Settle ==
  /\ status = "running"
  /\ \/ status' = "done" /\ UNCHANGED wait
     \/ attempts < MaxAttempts /\ status' = "pending" /\ wait' = Delay[attempts]
     \/ attempts >= MaxAttempts /\ status' = "failed" /\ UNCHANGED wait
  /\ UNCHANGED <<attempts, tick, ready, busy, pause>>

(* A second passes; the select does not let a tick wait, the client does   *)
(* not let a request last.                                                 *)
Tick ==
  /\ status \in {"pending", "running"}
  /\ ~(ready /\ status = "pending")
  /\ status = "running" => busy < Timeout
  /\ busy' = IF status = "running" THEN busy + 1 ELSE busy
  /\ wait' = IF status = "pending" /\ wait > -2 * PollEvery THEN wait - 1 ELSE wait
  /\ tick' = IF tick = 1 THEN PollEvery ELSE tick - 1
  /\ ready' = (ready \/ tick = 1)
  /\ UNCHANGED <<status, attempts, pause>>

Next == Drain \/ Settle \/ Tick

Spec == Init /\ [][Next]_vars

-----------------------------------------------------------------------------
(* A failed job is tried again no sooner than the doubling, capped delay   *)
(* says, and no later than one poll after it ("poll de sécurité pour les   *)
(* jobs retardés", worker.go:55); the first try is at most one poll late.  *)
PacedRetries ==
  /\ status = "pending" => wait >= -PollEvery
  /\ status = "running" /\ attempts > 1 =>
       pause \in Meant(attempts - 1) .. Meant(attempts - 1) + PollEvery

-----------------------------------------------------------------------------
(* The inductive invariant. *)

(* Every variable has its type. *)
TypeOK ==
  /\ status \in {"pending", "running", "done", "failed"}
  /\ attempts \in 0 .. MaxAttempts
  /\ wait \in Int
  /\ tick \in 1 .. PollEvery
  /\ ready \in BOOLEAN
  /\ busy \in 0 .. Timeout
  /\ pause \in Int

(* A pending job has a try left, and a running one counts its own. *)
Tries ==
  /\ status = "pending" => attempts < MaxAttempts
  /\ status = "running" => attempts > 0

(* A pending job that is overdue has been so for less than a poll, and     *)
(* since the last tick if none is waiting.                                 *)
Overdue ==
  status = "pending" => wait >= (IF ready THEN 0 ELSE tick) - PollEvery

IInv == TypeOK /\ Tries /\ Overdue /\ PacedRetries

=============================================================================

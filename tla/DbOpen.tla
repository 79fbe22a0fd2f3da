------------------------------- MODULE DbOpen -------------------------------
(***************************************************************************)
(* dbutil.Open, which api, worker and audit-purge call before anything     *)
(* else: ping Postgres until it answers or a deadline has passed.          *)
(*                                                                         *)
(* Time is in half seconds, the pause between two pings.  A ping whose     *)
(* context is done fails at once; one that Postgres does not answer fails  *)
(* at once when the connection is refused, and otherwise hangs until its   *)
(* context is done.                                                        *)
(***************************************************************************)
EXTENDS Naturals

CONSTANTS
  PingLimit,    \* the context all pings share: 10 s
  Deadline,     \* 30 s
  Readies       \* when Postgres may become ready

ASSUME DbOpenAssumption ==
  /\ Deadline \in Nat
  /\ PingLimit \in 0 .. Deadline
  /\ Readies \subseteq Nat

VARIABLES
  now,
  pc,           \* "ping", "sleep", "opened" or "failed"
  readyAt,      \* Postgres answers pings from then on
  cancelled,    \* the caller's context is done: SIGTERM
  hung          \* history: a ping has hung

vars == <<now, pc, readyAt, cancelled, hung>>

Init ==
  /\ now = 0
  /\ pc \in {"ping", "failed"}       \* "failed": ParseConfig refuses the DSN
  /\ readyAt \in Readies
  /\ cancelled = FALSE
  /\ hung = FALSE

PingDone == cancelled \/ now >= PingLimit

PingAnswered ==
  /\ pc = "ping"
  /\ ~PingDone
  /\ readyAt <= now
  /\ pc' = "opened"
  /\ UNCHANGED <<now, readyAt, cancelled, hung>>

(* The ping has failed: give up after the deadline, else sleep. *)
GiveUpOrSleep == pc' = IF now > Deadline THEN "failed" ELSE "sleep"

PingFails ==
  /\ pc = "ping"
  /\ PingDone \/ readyAt > now
  /\ GiveUpOrSleep
  /\ UNCHANGED <<now, readyAt, cancelled, hung>>

(* Packets are dropped: the ping lasts as long as its context. *)
PingHangs ==
  /\ pc = "ping"
  /\ ~PingDone
  /\ readyAt > now \/ hung
  /\ now' = now + 1
  /\ hung' = TRUE
  /\ UNCHANGED <<pc, readyAt, cancelled>>

(* Mutant: a minute instead of half a second. *)
SleepLong ==
  /\ pc = "sleep"
  /\ now' = now + 120
  /\ pc' = "ping"
  /\ UNCHANGED <<readyAt, cancelled, hung>>

(* time.Sleep, which no context ends. *)
Sleep ==
  /\ pc = "sleep"
  /\ now' = now + 1
  /\ pc' = "ping"
  /\ UNCHANGED <<readyAt, cancelled, hung>>

Cancel ==
  /\ pc \in {"ping", "sleep"}
  /\ ~cancelled
  /\ cancelled' = TRUE
  /\ UNCHANGED <<now, pc, readyAt, hung>>

(* The loop. *)
Looks == PingAnswered \/ PingFails \/ PingHangs \/ Sleep

Next == Looks \/ Cancel

Spec == Init /\ [][Next]_vars

-----------------------------------------------------------------------------
(* Open returns half a second after the deadline at the latest, whatever   *)
(* Postgres and the network do; a SIGTERM meanwhile does not make it       *)
(* return sooner (dbutil.go:32-40).                                        *)
EndsByDeadline ==
  /\ now <= Deadline + 1
  /\ pc = "failed" /\ now > 0 => now > Deadline

(* Open fails only if Postgres was not ready before the pings' context was *)
(* done, if a ping hung, or on a signal.  (dbutil.go:11 has it wait for    *)
(* the whole deadline; after PingLimit no ping can succeed any more.)      *)
FailsOnlyIfLate ==
  pc = "failed" /\ now > 0 /\ ~cancelled /\ ~hung => readyAt >= PingLimit

-----------------------------------------------------------------------------
(* The inductive invariant. *)

(* Every variable has its type. *)
TypeOK ==
  /\ now \in Nat
  /\ pc \in {"ping", "sleep", "opened", "failed"}
  /\ readyAt \in Nat
  /\ cancelled \in BOOLEAN
  /\ hung \in BOOLEAN

(* A sleep starts before the deadline, and is the last thing before a ping. *)
Timely ==
  /\ pc = "sleep" => now <= Deadline
  /\ now <= Deadline + 1

(* Without a hang there was a ping at every tick, and none was answered. *)
PingedAtEachTick ==
  ~cancelled /\ ~hung =>
    /\ pc = "ping" => readyAt >= now \/ readyAt >= PingLimit
    /\ pc = "sleep" => readyAt > now \/ readyAt >= PingLimit

IInv == TypeOK /\ Timely /\ PingedAtEachTick /\ EndsByDeadline /\ FailsOnlyIfLate

=============================================================================

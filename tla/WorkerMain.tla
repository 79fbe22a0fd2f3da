---------------------------- MODULE WorkerMain -----------------------------
(***************************************************************************)
(* cmd/worker: one process from start to exit.  Four goroutines: main,     *)
(* Run, the listenLoop Run starts, and the metrics server, around one      *)
(* connection pool and one context that SIGTERM cancels.                   *)
(*                                                                         *)
(* held says who has a connection out of the pool: Run for LISTEN, Run for *)
(* a query, the /readyz probe.  pool.Close waits for all of them.          *)
(***************************************************************************)
EXTENDS FiniteSets

VARIABLES
  main,         \* open, migrate, select, shutdown, close, closing, exited
  ctx,          \* "live" or "cancelled"
  pool,         \* "none", "open", "closed" (closing refuses new connections)
  held,         \* uses of connections: "listen", "query", "probe"
  run,          \* none, acquire, listen, drain, query, work, select, unwind, returned
  listener,     \* none, wait, sleep, done
  server,       \* none, serving, failed, closed
  workerErr,    \* what Run sent: "none", "nil", "error"
  code          \* exit code main is heading for: "none", "0", "1"

vars == <<main, ctx, pool, held, run, listener, server, workerErr, code>>

(* Every variable has its type. *)
TypeOK ==
  /\ main \in {"open", "migrate", "select", "shutdown", "close", "closing", "exited"}
  /\ ctx \in {"live", "cancelled"}
  /\ pool \in {"none", "open", "closed"}
  /\ held \subseteq {"listen", "query", "probe"}
  /\ run \in {"none", "acquire", "listen", "drain", "query", "work", "select",
              "unwind", "returned"}
  /\ listener \in {"none", "wait", "sleep", "done"}
  /\ server \in {"none", "serving", "failed", "closed"}
  /\ workerErr \in {"none", "nil", "error"}
  /\ code \in {"none", "0", "1"}

Init ==
  /\ main = "open" /\ ctx = "live"
  /\ pool = "none" /\ held = {}
  /\ run = "none" /\ listener = "none" /\ server = "none"
  /\ workerErr = "none" /\ code = "none"

Exited == main = "exited"

-----------------------------------------------------------------------------
(* main: start. *)

(* With a cancelled ctx neither the ping nor a migration succeeds. *)
Open ==
  /\ main = "open" /\ ctx = "live"
  /\ main' = "migrate" /\ pool' = "open"
  /\ UNCHANGED <<ctx, held, run, listener, server, workerErr, code>>

OpenFails ==
  /\ main = "open"
  /\ main' = "exited" /\ code' = "1"
  /\ UNCHANGED <<ctx, pool, held, run, listener, server, workerErr>>

Migrate ==
  /\ main = "migrate" /\ ctx = "live"
  /\ main' = "select" /\ run' = "acquire" /\ server' = "serving"
  /\ UNCHANGED <<ctx, pool, held, listener, workerErr, code>>

MigrateFails ==
  /\ main = "migrate"
  /\ main' = "close" /\ code' = "1"
  /\ UNCHANGED <<ctx, pool, held, run, listener, server, workerErr>>

(* main: the select, whose ready case is chosen at random. *)

SelectDone ==
  /\ main = "select" /\ ctx = "cancelled"
  /\ main' = "shutdown" /\ code' = "0"
  /\ UNCHANGED <<ctx, pool, held, run, listener, server, workerErr>>

(* The deferred pool.Close is next: nothing cancels ctx. *)
SelectServerErr ==
  /\ main = "select" /\ server = "failed"
  /\ main' = "close" /\ code' = "1"
  /\ UNCHANGED <<ctx, pool, held, run, listener, server, workerErr>>

(* Mutant: an error of Run is logged, and the select is entered again. *)
SelectWorkerErrIgnored ==
  /\ main = "select" /\ workerErr = "nil"
  /\ main' = "shutdown" /\ code' = "0"
  /\ UNCHANGED <<ctx, pool, held, run, listener, server, workerErr>>

(* An error of Run is logged, and main returns nil all the same. *)
SelectWorkerErr ==
  /\ main = "select" /\ workerErr # "none"
  /\ main' = "shutdown" /\ code' = "0"
  /\ UNCHANGED <<ctx, pool, held, run, listener, server, workerErr>>

(* main: the end.  Shutdown lasts 10 s at most. *)

Shutdown ==
  /\ main = "shutdown"
  /\ server' = IF server = "serving" THEN "closed" ELSE server
  /\ main' = "close"
  /\ UNCHANGED <<ctx, pool, held, run, listener, workerErr, code>>

(* Mutant: no deferred pool.Close. *)
ReturnWithoutClose ==
  /\ main = "close"
  /\ main' = "exited"
  /\ UNCHANGED <<ctx, pool, held, run, listener, server, workerErr, code>>

ClosePool ==
  /\ main = "close"
  /\ main' = "closing" /\ pool' = "closed"
  /\ UNCHANGED <<ctx, held, run, listener, server, workerErr, code>>

PoolClosed ==
  /\ main = "closing" /\ held = {}
  /\ main' = "exited"
  /\ UNCHANGED <<ctx, pool, held, run, listener, server, workerErr, code>>

-----------------------------------------------------------------------------
(* The metrics server and its /readyz probe (Ping, 2 s at most). *)

Probe ==
  /\ ~Exited /\ server = "serving" /\ pool = "open"
  /\ held' = held \cup {"probe"}
  /\ UNCHANGED <<main, ctx, pool, run, listener, server, workerErr, code>>

ProbeEnds ==
  /\ ~Exited /\ "probe" \in held
  /\ held' = held \ {"probe"}
  /\ UNCHANGED <<main, ctx, pool, run, listener, server, workerErr, code>>

ServerFails ==
  /\ ~Exited /\ server = "serving"
  /\ server' = "failed"
  /\ UNCHANGED <<main, ctx, pool, held, run, listener, workerErr, code>>

Signal ==
  /\ ~Exited /\ ctx = "live"
  /\ ctx' = "cancelled"
  /\ UNCHANGED <<main, pool, held, run, listener, server, workerErr, code>>

-----------------------------------------------------------------------------
(* Run. *)

(* Acquire hands a connection out; a closed pool or a cancelled ctx        *)
(* refuses.                                                                *)
CanAcquire == pool = "open" /\ ctx = "live"

AcquireListen ==
  /\ ~Exited /\ run = "acquire" /\ CanAcquire
  /\ held' = held \cup {"listen"} /\ run' = "listen"
  /\ UNCHANGED <<main, ctx, pool, listener, server, workerErr, code>>

AcquireFails ==
  /\ ~Exited /\ run = "acquire"
  /\ run' = "returned" /\ workerErr' = "error"
  /\ UNCHANGED <<main, ctx, pool, held, listener, server, code>>

Listen ==
  /\ ~Exited /\ run = "listen"
  /\ run' = "drain"
  /\ UNCHANGED <<main, ctx, pool, held, listener, server, workerErr, code>>

ListenFails ==
  /\ ~Exited /\ run = "listen"
  /\ held' = held \ {"listen"}
  /\ run' = "returned" /\ workerErr' = "error"
  /\ UNCHANGED <<main, ctx, pool, listener, server, code>>

(* A query of drain, process or publishDepth. *)
Query ==
  /\ ~Exited /\ run = "drain" /\ CanAcquire
  /\ held' = held \cup {"query"} /\ run' = "query"
  /\ UNCHANGED <<main, ctx, pool, listener, server, workerErr, code>>

(* It returns: with a job, or with the end of one. *)
QueryReturns ==
  /\ ~Exited /\ run = "query"
  /\ held' = held \ {"query"}
  /\ run' \in {"work", "drain"}
  /\ UNCHANGED <<main, ctx, pool, listener, server, workerErr, code>>

(* The webhook, 5 s at most, without a connection. *)
Worked ==
  /\ ~Exited /\ run = "work"
  /\ run' = "drain"
  /\ UNCHANGED <<main, ctx, pool, held, listener, server, workerErr, code>>

(* drain ends, on ErrNotFound or an error; the first time, listenLoop starts. *)
DrainEnds ==
  /\ ~Exited /\ run = "drain"
  /\ run' = "select"
  /\ listener' = IF listener = "none" THEN "wait" ELSE listener
  /\ UNCHANGED <<main, ctx, pool, held, server, workerErr, code>>

(* The poll ticker, notifCh, the depth ticker. *)
Tick ==
  /\ ~Exited /\ run = "select"
  /\ run' = "drain"
  /\ UNCHANGED <<main, ctx, pool, held, listener, server, workerErr, code>>

RunDone ==
  /\ ~Exited /\ run = "select" /\ ctx = "cancelled"
  /\ run' = "unwind"
  /\ UNCHANGED <<main, ctx, pool, held, listener, server, workerErr, code>>

(* Mutant: conn.Release deferred without waiting for listenerDone. *)
UnwindAtOnce ==
  /\ ~Exited /\ run = "unwind"
  /\ held' = held \ {"listen"}
  /\ run' = "returned" /\ workerErr' = "nil"
  /\ UNCHANGED <<main, ctx, pool, listener, server, code>>

(* The deferred function: <-listenerDone, then conn.Release. *)
Unwind ==
  /\ ~Exited /\ run = "unwind" /\ listener = "done"
  /\ held' = held \ {"listen"}
  /\ run' = "returned" /\ workerErr' = "nil"
  /\ UNCHANGED <<main, ctx, pool, listener, server, code>>

-----------------------------------------------------------------------------
(* listenLoop: WaitForNotification fails once ctx is cancelled, and        *)
(* whenever the connection breaks.                                         *)

ListenerBroken ==
  /\ ~Exited /\ listener = "wait" /\ ctx = "live"
  /\ listener' = "sleep"
  /\ UNCHANGED <<main, ctx, pool, held, run, server, workerErr, code>>

ListenerRetries ==
  /\ ~Exited /\ listener = "sleep"
  /\ listener' = "wait"
  /\ UNCHANGED <<main, ctx, pool, held, run, server, workerErr, code>>

(* Mutant: every error is slept on, and the loop goes on. *)
ListenerNeverDone ==
  /\ ~Exited /\ listener = "wait" /\ ctx = "cancelled"
  /\ listener' = "sleep"
  /\ UNCHANGED <<main, ctx, pool, held, run, server, workerErr, code>>

ListenerDone ==
  /\ ~Exited /\ listener = "wait" /\ ctx = "cancelled"
  /\ listener' = "done"
  /\ UNCHANGED <<main, ctx, pool, held, run, server, workerErr, code>>

-----------------------------------------------------------------------------
MainStep ==
  \/ Open \/ OpenFails \/ Migrate \/ MigrateFails
  \/ SelectDone \/ SelectServerErr \/ SelectWorkerErr
  \/ Shutdown \/ ClosePool \/ PoolClosed

RunStep ==
  \/ AcquireListen \/ AcquireFails \/ Listen \/ ListenFails
  \/ Query \/ QueryReturns \/ Worked \/ DrainEnds \/ Tick \/ Unwind

ListenerStep == ListenerRetries \/ ListenerDone

Next ==
  \/ MainStep \/ RunStep \/ RunDone \/ ListenerStep
  \/ Probe \/ ProbeEnds \/ ServerFails \/ Signal \/ ListenerBroken

(* The goroutines run, every call returns, and a select that keeps finding *)
(* ctx.Done ready takes it.                                                *)
Fairness ==
  /\ WF_vars(MainStep) /\ WF_vars(RunStep) /\ WF_vars(ListenerStep)
  /\ WF_vars(ProbeEnds) /\ SF_vars(RunDone)

Spec     == Init /\ [][Next]_vars
FairSpec == Spec /\ Fairness

-----------------------------------------------------------------------------
(* listenLoop never waits on a connection Run has given back: "la          *)
(* fermeture de la conn racerait avec WaitForNotification" (worker.go).    *)
ConnOutlivesListener == listener \in {"wait", "sleep"} => "listen" \in held

(* The process never exits under a job: main ends only when Run has not    *)
(* begun or has returned, because pool.Close waits for its connection; and *)
(* its code says why: 1 for a process that could not start or lost its     *)
(* metrics server, 0 for a signal or an error of Run.                      *)
OrderlyExit ==
  Exited =>
    /\ run \in {"none", "acquire", "returned"}
    /\ code = "0" => ctx = "cancelled" \/ workerErr = "error"
    /\ code = "1" => server \in {"none", "failed"}

(* A signal ends the process, wherever its goroutines are: no goroutine    *)
(* waits for another that waits for it.                                    *)
SignalExits == (ctx = "cancelled") ~> Exited

(* An error of Run ends the process. *)
RunErrorExits == (workerErr = "error") ~> Exited

(* A metrics server that fails is fatal: run returns "metrics server: ..." *)
(* and main logs "worker fatal" and exits with 1.                          *)
ServerErrorExits == (server = "failed") ~> Exited

-----------------------------------------------------------------------------
(* The inductive invariant of the safety properties. *)

(* Run has its LISTEN connection from Acquire to the end of Run, and        *)
(* listenLoop runs inside that time.                                       *)
Inside ==
  /\ "listen" \in held <=> run \notin {"none", "acquire", "returned"}
  /\ run \in {"none", "acquire", "listen"} => listener = "none"
  /\ run = "returned" => listener \in {"none", "done"}

(* What Run has sent, it has sent at its end. *)
Sent ==
  /\ run = "unwind" \/ workerErr = "nil" => ctx = "cancelled"
  /\ workerErr # "none" => run = "returned"

(* The exit code at each place of main. *)
Heading ==
  /\ main \in {"open", "migrate"} => run = "none" /\ server = "none"
  /\ main \in {"open", "migrate", "select"} => code = "none"
  /\ main = "shutdown" => code = "0"
  /\ code = "0" => ctx = "cancelled" \/ workerErr = "error"
  /\ code = "1" => server \in {"none", "failed"}

Inv == TypeOK /\ Inside /\ Sent /\ Heading /\ OrderlyExit

=============================================================================

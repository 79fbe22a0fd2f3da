# A verified model of projet-etude-app-demo

TLA+ modules, TLC runs and TLAPS proofs about the ticket portal in `src/`:
an HTTP API, a worker fed by a Postgres job queue, and a purge binary.

## 1. The system

| Component | Source | State it keeps | Operations |
| --- | --- | --- | --- |
| Job queue | `internal/store/jobs.go`, schema and trigger in `store.go` | rows of `jobs` (status, attempts, run_after, locked_by), notifications | `ClaimNextJob`, `CompleteJob`, `FailJob`, `Enqueue`, `QueueDepth`, trigger `jobs_notify` |
| Job worker | `internal/jobworker/worker.go` | the job in hand, `notifCh`, the LISTEN connection | `Run`, `drain`, `process`, `execute`, `runWebhook`, `listenLoop`, `publishDepth` |
| Worker process | `cmd/worker/main.go` | pool, signal context, two result channels | start, select, shutdown, `/readyz` |
| API routes | `internal/httpapi/handlers.go`, `cmd/api/main.go` | none of its own but metrics; requests in flight | create, close, list, audit list, probes, index |
| Ticket and audit storage | `internal/store/tickets.go`, `audit.go` | rows of `tickets`, `audit_log` | `CreateTicketAndEnqueue`, `SetTicketStatus`, `CountOpenTickets`, `WriteAudit`, `PurgeAuditOlderThan`, ... |
| Migrations | `internal/store/store.go` | schema, trigger | `Migrate`, run by api and worker at every start |
| Authentication | `internal/auth` | cookies held by the browser | middleware, role mapping, `Require*`, login, callback, logout |
| Database opening | `internal/dbutil` | pool | `Open` |
| Purge | `cmd/audit-purge` | none | `PurgeAuditOlderThan` |
| Metrics | `internal/metrics` | counters and gauges, per process | |
| Chaos, templates, OTel, types, test support | | | |

How they interact.  An API handler commits a ticket and, when the priority is
high, a job, in one transaction.  The commit fires `jobs_notify`; Postgres
delivers the notification to every session that executed LISTEN.  In each
worker, `listenLoop` turns notifications into one token of `notifCh`; `Run`
selects among that token, a 5 s poll, a 10 s depth ticker and its context.
Awake, it drains: claim a row, run it, record the outcome, until no row is
due.  Everything shared between processes is in Postgres.

What is hard here:

* several workers on one table whose `CompleteJob` and `FailJob` update by id
  alone; only `ClaimNextJob`'s row lock and status change make that safe;
* a notification that must not be lost between the last empty claim and the
  select, with a one-slot channel and a retry that never notifies;
* one context, cancelled by SIGTERM, that is used for the work and for
  recording its outcome;
* statements that commit while their reply is lost;
* a client that leaves, or a replica that dies, between two calls of a handler;
* a gauge computed by a read and set by a later step, by concurrent requests;
* four goroutines of the worker process that wait for one another at the end;
* processes that migrate at every start, at the same time as one another and as
  the queue is in use, with a trigger that is dropped and created again;
* a login whose state is two cookies of a browser with several tabs;
* durations in 64 bits, a retry that waits for a ticker, and a wait for the
  database whose context ends before its deadline.

What makes each part correct: a job is executed by one worker at a time, at
most `max_attempts` times, with one outcome that agrees with what the endpoint
said (queue, worker); a process that is told to stop stops, after its work and
not during it (lifecycle); ticket, job, audit entry and metrics agree, and only
an operator changes anything (API); a process that serves has the whole schema,
and a migration costs no job (migrations); a browser is logged in by its own
login until it logs out (login); no audit entry is deleted early (purge).

## 2. The modules

| Module | Models | How it corresponds to the code |
| --- | --- | --- |
| `JobStore` | the `jobs` table as Postgres executes it | one operator per statement; `ClaimNextJob` is a lock (`ClaimLock`) and a commit (`ClaimCommit`) or a rollback, so that others run in between |
| `JobWorker` (EXTENDS `JobStore`) | `internal/jobworker`, any number of workers | `pc[w]` names the call the `Run` goroutine makes next; one action per call and per way it can end; `job`, `tries`, `outcome` are the locals of `drain` and `process` |
| `JobQueue` | what queue and workers promise | abstract: a phase per job, attempts, POSTs sent, acceptances |
| `MCJobWorker` | instances for TLC | |
| `JobWorkerProofs` | proofs about `JobWorker` | |
| `WorkerMain` | `cmd/worker`: `main`, `Run`, `listenLoop`, the metrics server, the pool | `held` names who has a connection out; `pool.Close` waits for it to be empty |
| `WorkerMainProofs` | proofs about `WorkerMain` | |
| `Migrate` | `store.Migrate`, run by any number of processes | `at[p]` is the statement process `p` is at; a statement that looks and then writes the catalog is two steps (`Look`, `Write`), one that locks its table is one |
| `Rollout` (EXTENDS `JobWorker`, `Migrate`) | the two together: api and worker processes start, migrate, serve and die while jobs are committed | a step is a step of `Migrate` or of `JobWorker`; the end of a worker is one of both; `Commits` notifies only if `trigger` |
| `MCRollout`, `RolloutProofs` | its instance; proofs about it and about `Migrate` | |
| `AuthSession` | `internal/auth`: `StartHandler`, `CallbackHandler`, `LogoutHandler`, `Middleware`, `verifyAndMap`, the seal | `stateCookie` and `session` are the browser's two cookies, `call` the callbacks in flight; the OIDC provider is external |
| `MCAuthSession`, `AuthSessionProofs` | its instance, its proofs | |
| `Durations` | `time.Duration` products in 64 bits, `FailJob`'s backoff, the retention | four 16-bit words; `Backoff` and `Retention` are the expressions of the code |
| `DurationsProofs` | proofs about the words: products, order, backoff | |
| `Retry` (EXTENDS `Durations`) | when a failed job is tried again | `run_after`, the poll ticker and the webhook timeout, second by second |
| `RetryProofs` | proofs about `Retry` | |
| `DbOpen` | `dbutil.Open` | `now` in pauses of the loop; pings that answer, fail or hang |
| `AuditPurge` (EXTENDS `DbOpen`, `Durations`) | `cmd/audit-purge`, `PurgeAuditOlderThan`, and the calls of `Open` by every process | `log`, `ts` are `audit_log`; `Purge` is the DELETE |
| `MCAuditPurge`, `AuditPurgeProofs` | its instance; proofs about it and about `DbOpen` | |
| `TicketApi` | the two mutating routes, replicas of `cmd/api` | `pc[r]` is the call the handler of request `r` makes next; `api[a]` follows `main` |
| `MCTicketApi` | instances for TLC | |
| `TicketApiProofs` | proofs about `TicketApi` | |

`JobWorker` looks inside the work of one `Run`; `WorkerMain` abstracts that
work to the connections it uses, and shows what `JobWorker` relies on: a
process that gets a signal ends, and never while its `Run` is at work.
A request of `TicketApi` that creates a high ticket adds to `jobs`; for
`JobWorker` that is the environment's action `Submit`, which `Rollout` refines
to `Commits`: with or without a notification, as the trigger stands.
`TicketApi` takes the role of a request as an input; `AuthSession` says how
`Middleware` finds it.  `Retry` follows one job of `JobWorker` with real
delays where `JobWorker` has a flag.

What the models abstract:

* Time, in `JobWorker` and `TicketApi`.  `delayed[j]` says `run_after` is in the future; `RetryDue` may end it
  at any later moment.  Timeouts (5 s webhook, 10 s shutdown, 2 s probe) may
  fire at any moment.
* A ticket or job is an id; a payload is good or, for a job in `Unknown`, one
  `execute` refuses.  Of the priority only "high or not" matters.  A request
  says whether `parseCreate`, or `ParseInt`, will accept it.
* Postgres statements on one row by id are atomic, and visible when they
  commit.  A failed call of the client may or may not have been applied where
  the code cannot tell (`ClaimReplyLost`, `CreateFails`, `CloseFails`).
* A session of Postgres ends with its process: its open statement is committed
  or rolled back before the process is started again.
* In `Migrate`, two sessions that write the same catalog row make the second
  fail; `ALTER TABLE`, `DROP TRIGGER` and `CREATE TRIGGER` lock the table first
  and so take turns.
* In `AuthSession` a flow stands for its random state, code and ID token; the
  seal of the cookie is "present, and refused if there is no key".  A forged
  token is not an input: the verifier is a library.
* Faults happen at most `MaxFaults` times: `crash` (the process dies at any
  step), `stop` (SIGTERM), `db` (a call fails), `listen` (the LISTEN connection
  breaks), `gone` (the client cancels its request).  Once a context is
  cancelled its calls fail without using up a fault.  A dead worker or replica
  may start again.
* `posts` and `acked` in `JobWorker`, `lastCount` and `lastSet` in `TicketApi`
  are history variables: no guard reads them.

## 3. The runs

| Run | Shows | Bounds |
| --- | --- | --- |
| `worker_safety` | `IInv` (with the types), `ExclusiveProcessing`, `AttemptsBounded`, `AckedNeverRetried`, `DoneMeansDelivered`, `NoLostWakeup`, `RowHistory`, refinement `ImplementsQueue` | 2 workers (one without URL), 2 jobs (one refused), 2 attempts, 2 faults of any kind |
| `worker_liveness` | `PendingIsClaimed`, `SettlesUnlessFault` (where the poll ticker ticks on), `StopEnds`, `FreshClaimedByNotify` (whether it does or not) | 2 workers, 2 attempts; 1 job with 2 faults, or 2 jobs with none |
| `ticket_api` | `IInv` (with the types), `JobWithTicket`, `OnlyOperatorsMutate`, `AuditFaithful`, `AdmittedAudited`, `GaugeUnlessOvertaken`, `CountersAccount`, `TicketLife` | 2 replicas; requests and faults together at most 3, faults at most 2; three requests only if all pass `RequireMutate` and parsing; one content per role, operation and ground of refusal for the requests that are refused, which no handler looks into |
| `worker_main` | `ConnOutlivesListener`, `OrderlyExit`, `SignalExits`, `RunErrorExits` | none: the model is finite |
| `rollout` | `RolloutInv` (with the types), `AloneNeverFails`, `WakeupUnlessSilent`, `SilentOnlyInRollout`, `EveryProcessStarts`, `SilentIsClaimed` | 2 api processes, 1 worker, 1 job, 2 attempts, a list of 3 statements and the trigger's two, 2 crashes or stops (the second only before the first claim) |
| `auth_session` | `IInv` (with the types), `SessionFromOwnLogin`, `LatestLoginKept`, `LoggedOutStaysOut`, `RevocationLands` | 2 browsers, 2 logins, 2 callbacks in flight; or 1 browser, 1 callback in flight, five accounts and a change of account |
| `purge` | `EndsByDeadline`, `FailsOnlyIfLate`, `RetentionKept`, `PurgedInTheEnd` | 2 entries, 122 days, 4 settings; a deadline of 5 pauses, a ping context of 2 |
| `retry` | `PacedRetries` | 12 attempts, a poll of 5 s, every phase of its ticker |
| `worker_stranding` | violation, finding 1 | one refused job, one SIGTERM |
| `ticket_denied` | violation, finding 2 | one replica, two requests, no fault |
| `ticket_gauge` | violation, finding 3 | one replica, two operator requests, no fault |
| `worker_main_fatal` | violation, finding 4 | none |

Why the bounds suffice for what the runs ask: two workers are enough for every
race on a row, and the second job makes claims order and overtake; two attempts
distinguish retry from giving up and let a stale count matter; two faults give
a crash of the holder and another of the next, or a lost reply followed by a
SIGTERM.  Two requests are create against create and create against close (a
close may name a ticket not yet created), and a fault may cut the first or the
second short at any call; three are what two closes of one ticket, or an
overtaken refresh on another replica, need.

Three migrating processes are one that drops the trigger, one that creates it
and one that is served by the result; the three statements of the list are one
of each kind that behaves differently (`CREATE ... IF NOT EXISTS`, `ALTER
TABLE`, `CREATE OR REPLACE`).  Two logins and two callbacks in flight are
enough for one to overwrite the cookie of the other, in one browser or two; the
accounts cover each branch of `verifyAndMap` and matter one at a time.  In
`purge` the clock of `Open` is scaled: what matters is that the pings' context
ends before the deadline, and that Postgres gets ready before the one, between
the two, or after both.  The settings are the default, one below it, the
longest that fits in a Duration, and one that does not.  Twelve attempts pass
the cap of the backoff (the ninth); the constants of `retry` are the code's.

Requests are interchangeable in `TicketApi`, because a ticket is named by the
request that creates it, so their permutations are a symmetry; it is used in
runs without liveness only.  The theorems of section 5 need no bound.

`CHECK_DEADLOCK FALSE` is set for the `ticket_` runs (a request is sent once, so the
system may come to rest), the `worker_main` runs (a process that has exited stops),
`auth_session` (every login may be over) and `retry` (the job is settled).
The others check deadlock: a worker polls for ever, a cron job comes again.

`TypeOK` is a conjunct of each `IInv` (`RolloutInv` in `Rollout`), and is checked
as part of it; those of `WorkerMain`, `DbOpen`, `AuditPurge` and `Retry` are in
the invariants proved in section 5.

### Fairness

`JobWorker`: weak fairness of each worker's next step (`Work`), of its start (a
supervisor restarts it), of `Wake`, `Poll` and `Deliver` (goroutines run, the
ticker ticks), and of `RetryDue` (the clock advances).  Strong fairness of
`Exit`: Go's select picks at random among ready cases, so a `ctx.Done` that is
ready each time the select is reached is eventually chosen.  `Submit`, `Stop`,
`Crash` and the other faults have none.  The run has `WokenFairness`, which
leaves out `Poll`, so that `FreshClaimedByNotify` cannot be satisfied by the
poll; the properties that need the ticker have its fairness, `PollTicks`, as a
premise.
`WorkerMain` uses the same reasons; the metrics server's probe ends because it
has a 2 s timeout.

`Rollout`: that of `JobWorker`, and weak fairness of the next statement of each
process (Postgres answers; a process whose migration failed is started again).
`AuthSession`: weak fairness of `TokenExpires` alone (the clock reaches `exp`);
browsers and people owe nothing.  `AuditPurge`: weak fairness of a process that
has started (`Opens`, `EndsUnpurged`); strong fairness of the cron job's launch
with Postgres ready and of a `Purge` that is possible again and again, which
says that not every run of the cron job fails.  `Retry` needs none.

No specification but `DbOpen` makes a call hang for ever.  The queries carry no
timeout of their own: that a database answers, or breaks the connection, is an
assumption.

## 4. Findings

1. A job can stay `running` for ever (`worker_stranding`).  `process` records
   the outcome with the context that SIGTERM cancels (`worker.go:170`, `:178`),
   `drain` forgets a claim whose reply is lost (`:132`), and no code takes a
   `running` row back.  `worker_test.go:57` expects every refused job to end
   `failed`.  `SettlesUnlessFault` and the phase `stranded` of `JobQueue` say
   how far the promise goes.
2. A refused request is not audited (`ticket_denied`): `RequireMutate` wraps
   `auditing` (`handlers.go:38-41`), whose comment (`:85-88`) has a result
   `denied`.
3. `tickets_open` can stay wrong (`ticket_gauge`): `RefreshOpenGauge` counts and
   Sets in two steps.  `GaugeUnlessOvertaken` is what does hold.
4. A metrics server that fails does not end the worker process
   (`worker_main_fatal`): `pool.Close` waits for the LISTEN connection, which
   `Run` releases only when a context nobody cancels is cancelled.

Differences between documents and code that no run of their own shows, because
a property states what the code does instead:

* Authentication is on when both `OIDC_ISSUER_URL` and `OIDC_CLIENT_ID` are set
  (`auth.go:101`), where `auth.go:4-8` speaks of the first alone: `Enabled`, and
  the premise of `RevocationLands`.
* `AUDIT_RETENTION_DAYS` above 106751 wraps to some other retention, possibly
  in the future (`audit-purge/main.go:47`): the exception in `RetentionKept`.
* `dbutil.go:11` promises to wait 30 s; after 10 s the context of the pings is
  done (`:29`) and the loop only waits: `FailsOnlyIfLate` has the 10 s,
  `EndsByDeadline` the 30 s.
* A login started while an older callback of the same browser is in flight may
  lose its state cookie to that callback's response (`login.go:77`): the
  exception in `LatestLoginKept`.
* A job committed between `DROP TRIGGER` and `CREATE TRIGGER` waits for the poll
  (`store.go:79-82`): the exception in `WakeupUnlessSilent`.

## 5. The proofs

`JobWorkerProofs` proves, for every set of jobs and workers, every
`MaxAttempts` and every number of faults, from `JobStoreAssumption` and
`JobWorkerAssumption` (jobs are naturals, the null values are not ids, at least
one attempt):

| Theorem | Property |
| --- | --- |
| `Invariant` | `IInv` |
| `TypeCorrect`, `Exclusive`, `Bounded`, `NeverRetried`, `Delivered`, `WakeupsKept` | `TypeOK`, `ExclusiveProcessing`, `AttemptsBounded`, `AckedNeverRetried`, `DoneMeansDelivered`, `NoLostWakeup` |
| `History` | `RowHistory` (an action property) |
| `Refinement` | `ImplementsQueue` |

The argument of `JobWorker`.  `ExclusiveProcessing` is not inductive: nothing
in it says that a claim in flight cannot take a held row.  `IInv` adds what
each program point may assume:

* `Holding`: a worker has a job in hand exactly in `run`, `posted`, `settle`,
  and the row is `running`, names it and has its attempt number;
* `RowLocks`: a claim in flight locks one pending, due row, alone; so the row
  it commits is held by nobody, and two claims never commit the same one;
* `Counts`: an attempt is counted before its POST and a POST before its
  response, a pending row has an attempt left;
* `Acks`: what a worker knows before it settles agrees with `acked`;
* `Undisturbed`: until the first fault every live worker listens, which is what
  `NoLostWakeup` needs when a job is inserted.

`IInv` is `Safe` and `NoLostWakeup`.  `Safe` does not mention notifications:
it survives an insert nobody is told of, which is what `Rollout` needs.
`NoLostWakeup` is proved pair by pair of worker and job (`WokenStep` about
`Woken(w, j)`), so that `Rollout` can except the jobs of such inserts.  Each
conjunct has a lemma with one step per action; `SafeStep` and `InvStep` join
them.  `History` rests on `RowWriters`: which statement can change a row, and
that its worker holds it.  For `Refinement` the mapping sends a `running` row to `held` if some worker holds
it and to `stranded` otherwise; the lemmas `OneMoves`, `Forgotten`, `Stranded`,
`Taken`, `Settling` and `Sent` compute the phases after each kind of step.

`TicketApiProofs` proves, for every set of replicas and requests and every
number of faults, from `TicketApiAssumption` (finitely many requests and replicas,
at least one replica, no name for both; roles and kinds of fault among those
modelled):

| Theorem | Property |
| --- | --- |
| `Invariant` | `IInv` |
| `TypeCorrect`, `TicketAndJob`, `OperatorsOnly`, `AuditTrue`, `AuditComplete` | `TypeOK`, `JobWithTicket`, `OnlyOperatorsMutate`, `AuditFaithful`, `AdmittedAudited` |
| `GaugeRight`, `CountersRight` | `GaugeUnlessOvertaken`, `CountersAccount` |
| `Life` | `TicketLife` (an action property) |

The argument of `TicketApi`.  `AuditFaithful` is not inductive: the entry is
written at the end of a handler, from a status that says nothing by itself of
a row written calls earlier, which other requests have seen since.  `IInv` adds

* `Provenance`: a row has a request behind it, an operator's, that is past the
  guard; and a request past the guard is an operator's;
* `Effects`: a handler that counts, sets the gauge or has answered 200 has its
  row in the state it asked for; its entry is computed from its answer;
* `OneTransaction`: the jobs are those of the high tickets that exist;
* `Undisturbed`: before the first fault no client has gone and no replica is
  draining, so that nothing can end a request before its audit entry;
* `Refreshed`: before the first fault, once every handler has counted after its
  write, the last count is the number of open tickets, and it is on its way to a
  gauge or in the gauges it was Set to;
* `Accounted`: before the first fault each replica's counters are the numbers of
  the rows it has written and of the closes it has applied.

What lets these survive the steps of other requests is said once, for a step of
anyone: `LifeStep` (a row only moves absent, open, closed) with its corollary
`Lasting`, `Onward` (a request moves forward through its handler and keeps its
fields), and from both `AppliedKept` (what a request did to its row stays done).

`CountersAccount` is about sums over the replicas.  `TotalIsCount` says that such
a sum is the size of the union of disjoint sets, one per replica.  It is an
induction over the replicas, done without an induction theorem: the fold is
recursive over the sets of replicas, and a smallest set for which the claim
failed (`WFMin`, whose parameters are sets) would have a smaller one.

`RolloutProofs` proves, for every set of api and worker processes, every list of
statements, any jobs and any number of deaths, from `RolloutAssumption` and those
of the parts:

| Theorem | Property |
| --- | --- |
| `SchemaInvariant`, `Ready`, `TriggerThere`, `Idempotent` (of `Migrate` alone) | `SchemaInv`, `SchemaReady`, `TriggerBack`, `AloneNeverFails` |
| `ImplementsMigrate` | every step of `Rollout` is a step of `Migrate` or leaves the schema alone |
| `RolloutInvariant` | `RolloutInv` |
| `OnlySilentSleep`, `SilentStarts` | `WakeupUnlessSilent`, `SilentOnlyInRollout` |
| `RunsOnSchema` | a worker that runs finds the whole schema |
| `RolloutKeepsSafety`, `RolloutKeepsHistory`, `RolloutRefinement` | `ExclusiveProcessing`, `AttemptsBounded`, `AckedNeverRetried`, `DoneMeansDelivered`; `RowHistory`; `ImplementsQueue` |

`AloneNeverFails` is not inductive by itself: `SchemaInv` adds `AloneIsAlone`,
that nobody migrates beside a process nobody has migrated beside, and
`InFlight`, that only statements which look before they write can be beaten.
The composition takes each side from its own proof: `QueueMoves` says that a
step of `Rollout` is, to the table and the workers, a step of `JobWorker`, the
death of a process outside `Run`, or an insert that nobody is told of, and the
lemmas of `JobWorkerProofs`, which assume `Safe` only, cover the first.
`RolloutInv` joins the two invariants, `WakeupUnlessSilent` in the place of
`NoLostWakeup`, and `RunsMigrated`: a worker's `Run` is up only after `Migrate`.

`AuthSessionProofs` proves, for any browsers, logins, callbacks in flight and
accounts: `Invariant` (`IInv`), `OwnLogin`, `LatestKept`, `LogoutFinal`
(`SessionFromOwnLogin`, `LatestLoginKept`, `LoggedOutStaysOut`).  `IInv` adds
`Own` (a cookie or callback in flight is of a flow its browser started),
`OneToken` (a code gives one token, to one callback, then to one browser, which
is why nothing brings a session back) and `Kept` (the one state cookie is of
the login started last).

`DurationsProofs` proves what the words of a Duration stand for while nothing
wraps: `Product` (a product of words is the product of numbers, by `Carries`),
`Order` (the comparison is that of the numbers), `DaysCompare` (whole days up to
106751 compare as the days do) and `BackoffDoubles`: `Backoff` is
`min(2^attempts, 300)` seconds for every number of attempts up to 33.  At 34 the
product no longer fits in 63 bits; `max_attempts` is 5 (`store.go:44`).

`RetryProofs` proves, for any poll interval, any timeout and `MaxAttempts` up to
34, from `RetryAssumption`: `Invariant` (`IInv`) and `Paced` (`PacedRetries`).
`IInv` adds `Overdue`: a pending job is overdue by no more than the time since
the last tick, or by one poll if a tick waits.

`AuditPurgeProofs` proves, for every deadline, context of the pings, set of
entries, calendar and set of settings, from `DbOpenAssumption` and
`AuditPurgeAssumption` (the longest retention that must work, and the age of any
entry, are at most 106751 days, 292 years):

| Theorem | Property |
| --- | --- |
| `Invariant`, `OnTime`, `NotMissed` (of `DbOpen` alone) | `IInv`, `EndsByDeadline`, `FailsOnlyIfLate` |
| `PurgeInvariant` | `PurgeInv` |
| `OpensOnTime` | `EndsByDeadline` and `FailsOnlyIfLate`, in every process that starts |
| `Retained` | `RetentionKept` |
| `PurgeIsExact` | a purge that succeeds keeps exactly the entries within the retention, if it fits |

In `DbOpen`, `PingedAtEachTick` says that no tick passed without a ping.  In
`AuditPurge`, `InTable` says that an entry is in the table from the day it is
written to the day it is deleted; `OlderMeansDays` turns the comparison of
64-bit durations in the DELETE into one of days.  `PurgeInv` and the `IInv` of
`Retry` were checked by TLC on the constants of `purge` and `retry`.

`WorkerMainProofs` proves `Invariant` (`Inv`), `OutlivesListener`
(`ConnOutlivesListener`) and `ExitsInOrder` (`OrderlyExit`).  The model has no
constants; the proof shows why it holds: `Inside` (the LISTEN connection is out
from `Acquire` to the end of `Run`, and listenLoop lives inside that time),
`Sent` (the result of `Run` is the last thing it does) and `Heading` (the exit
code at each place of `main`).

Only model-checked: the liveness properties (`PendingIsClaimed`,
`SettlesUnlessFault`, `StopEnds`, `FreshClaimedByNotify`, `SignalExits`,
`RunErrorExits`, `EveryProcessStarts`, `SilentIsClaimed`, `RevocationLands`,
`PurgedInTheEnd`).  Liveness under fairness and ENABLED are beyond the installed
provers.  Every safety and action property a passing run checks is a theorem.
Induction theorems that take an operator as a parameter are beyond the provers
too, and so is `2^n` for a variable `n`; the one induction needed (`TotalIsCount`)
is done with sets, and the powers case by case (`Powers`).  Modules with
RECURSIVE operators cannot be proved about; no module here declares one.

## 6. Not modelled, and the plan

Not modelled for good: read-only routes, probes, rendering, traces and
histograms (no state depends on them), `otelinit` (configures a library once),
the chaos endpoints (demonstration handlers; what they do to the rest is
`Crash`), test support.

Next, in this order:

1. The refinement of `JobWorker` carried to delays: a step of `Retry` is one of
   `JobQueue`, so that the 5 s poll and the doubling delay bound its phases.
2. `Portal`: `TicketApi` with the queue, from POST to webhook, the action
   `Submit` of `JobWorker` refined to the commit of a high ticket.
3. Stronger statements about `WorkerMain`: which goroutine may still run when
   `pool.Close` starts.

## 7. Running it

    tlc -workers 2 -config worker_safety.cfg MCJobWorker.tla
    tlc -workers 2 -config worker_main.cfg WorkerMain.tla
    tlc -workers 2 -config purge.cfg MCAuditPurge.tla
    tlc -workers 2 -config rollout.cfg MCRollout.tla
    tlapm JobWorkerProofs.tla
    tlapm AuditPurgeProofs.tla

The operators whose comment starts with "Mutant" are plausible bugs, used to
show that each property can fail: the operator after them is replaced by the
mutant, and TLC finds the property violated.

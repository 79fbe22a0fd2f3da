----------------------------- MODULE TicketApi -----------------------------
(***************************************************************************)
(* cmd/api and internal/httpapi: replicas that serve the two mutating      *)
(* routes, POST /api/tickets and POST /api/tickets/{id}/close, over one    *)
(* Postgres, with the audit entry and the metrics that go with them.       *)
(*                                                                         *)
(* A request is one handler goroutine; pc names the call it makes next:    *)
(*   idle, guard (RequireMutate), handle (parse, then the transaction or   *)
(*   the UPDATE), count and set (RefreshOpenGauge), audit, end.            *)
(* A ticket is named by the request that creates it, as BIGSERIAL gives    *)
(* every INSERT an id of its own.                                          *)
(***************************************************************************)
EXTENDS Naturals, FiniteSets, FiniteSetsExt

CONSTANTS
  Apis,         \* API processes (replicas)
  Reqs,         \* requests, each sent once
  Roles,        \* roles the auth middleware may resolve
  FaultKinds,   \* "db", "gone" (the client cancels), "crash", "stop"
  MaxFaults,    \* bound: how many faults
  MaxInFlight   \* bound: how many requests are served at a time

Tickets == Reqs

ASSUME TicketApiAssumption ==
  /\ IsFiniteSet(Reqs) /\ IsFiniteSet(Apis)
  /\ Apis # {} /\ Apis \cap Reqs = {}
  /\ Roles \subseteq {"anonymous", "viewer", "operator"}
  /\ FaultKinds \subseteq {"db", "gone", "crash", "stop"}
  /\ MaxFaults \in Nat

VARIABLES
  ticket,       \* tickets.status, "absent" while there is no row
  high,         \* tickets whose priority is 'high'
  jobs,         \* tickets with a webhook.notify row in jobs
  audit,        \* audit_log.result of the request's entry, or "none"
  api,          \* main: down, count, set, up, draining
  gauge,        \* tickets_open, per process
  created, enqueued, closed,   \* the *_total counters, per process
  pc, call, at, \* the request: next step, contents, process that serves it
  gone,         \* requests whose context the client has cancelled
  code,         \* the status it was answered with
  seen,         \* what an actor's count returned, not yet Set
  budget,       \* faults that may still happen
  lastCount,    \* history: actor of the last count
  lastSet       \* history: actor of the last Set of each gauge

db      == <<ticket, high, jobs, audit>>
process == <<api, gauge, created, enqueued, closed>>
request == <<pc, call, at, gone, code>>
history == <<lastCount, lastSet>>
vars    == <<db, process, request, seen, budget, history>>

Actors == Reqs \cup Apis

Codes == {"none", "ok", "unauthorized", "forbidden", "bad", "missing", "failed"}

Calls ==
  [op : {"create"}, role : Roles, valid : BOOLEAN, high : BOOLEAN]
    \cup [op : {"close"}, role : Roles, valid : BOOLEAN, id : Tickets]

(* A request that has not arrived. *)
NoCall == [op |-> "none"]

(* Every variable has its type. *)
TypeOK ==
  /\ ticket \in [Tickets -> {"absent", "open", "closed"}]
  /\ high \subseteq Tickets /\ jobs \subseteq Tickets
  /\ audit \in [Reqs -> {"none", "ok", "denied", "error"}]
  /\ api \in [Apis -> {"down", "count", "set", "up", "draining"}]
  /\ gauge \in [Apis -> Nat] /\ seen \in [Actors -> Nat]
  /\ created \in [Apis -> Nat] /\ enqueued \in [Apis -> Nat] /\ closed \in [Apis -> Nat]
  /\ pc \in [Reqs -> {"idle", "guard", "handle", "count", "set", "audit", "end"}]
  /\ gone \subseteq Reqs
  /\ code \in [Reqs -> Codes]
  /\ call \in [Reqs -> Calls \cup {NoCall}] /\ at \in [Reqs -> Apis]
  /\ \A r \in Reqs : pc[r] # "idle" => call[r] \in Calls
  /\ budget \in 0 .. MaxFaults
  /\ lastCount \in Actors \cup {"nobody"}
  /\ lastSet \in [Apis -> Actors \cup {"nobody"}]

OpenTickets == {t \in Tickets : ticket[t] = "open"}

Init ==
  /\ ticket = [t \in Tickets |-> "absent"]
  /\ high = {} /\ jobs = {}
  /\ audit = [r \in Reqs |-> "none"]
  /\ api = [a \in Apis |-> "down"]
  /\ gauge = [a \in Apis |-> 0] /\ seen = [x \in Actors |-> 0]
  /\ created = gauge /\ enqueued = gauge /\ closed = gauge
  /\ pc = [r \in Reqs |-> "idle"]
  /\ call = [r \in Reqs |-> NoCall]
  /\ at = [r \in Reqs |-> CHOOSE a \in Apis : TRUE]
  /\ gone = {}
  /\ code = [r \in Reqs |-> "none"]
  /\ budget = MaxFaults
  /\ lastCount = "nobody" /\ lastSet = [a \in Apis |-> "nobody"]

-----------------------------------------------------------------------------
Fault(kind) ==
  /\ kind \in FaultKinds
  /\ budget > 0
  /\ budget' = budget - 1

(* A call with the request's context: it always fails once that is         *)
(* cancelled, may fail once the process ends and has closed its pool, and  *)
(* otherwise fails by a fault.                                             *)
CallFails(r) ==
  \/ (r \in gone \/ api[at[r]] = "draining") /\ UNCHANGED budget
  \/ r \notin gone /\ Fault("db")

Goto(r, l) == pc' = [pc EXCEPT ![r] = l]

Answer(r, c) == code' = [code EXCEPT ![r] = c]

(* Requests a process is serving. *)
InFlight(a) == {r \in Reqs : at[r] = a /\ pc[r] \notin {"idle", "end"}}

-----------------------------------------------------------------------------
(* The request arrives; the auth middleware has resolved its principal.    *)
Arrive(r, a, c) ==
  /\ pc[r] = "idle"
  /\ api[a] = "up"
  /\ Cardinality(UNION {InFlight(b) : b \in Apis}) < MaxInFlight
  /\ call' = [call EXCEPT ![r] = c]
  /\ at' = [at EXCEPT ![r] = a]
  /\ Goto(r, "guard")
  /\ UNCHANGED <<db, process, gone, code, seen, budget, history>>

(* The client closes the connection: net/http cancels r.Context(). *)
Leave(r) ==
  /\ pc[r] \notin {"idle", "end"}
  /\ r \notin gone
  /\ Fault("gone")
  /\ gone' = gone \cup {r}
  /\ UNCHANGED <<db, process, pc, call, at, code, seen, history>>

(* RequireMutate answers itself, outside the auditing wrapper. *)
Deny(r) ==
  /\ pc[r] = "guard"
  /\ \/ call[r].role = "anonymous" /\ Answer(r, "unauthorized")
     \/ call[r].role = "viewer" /\ Answer(r, "forbidden")
  /\ Goto(r, "end")
  /\ UNCHANGED <<db, process, call, at, gone, seen, budget, history>>

(* Mutant: RequireRead on a mutating route. *)
AdmitReader(r) ==
  /\ pc[r] = "guard"
  /\ call[r].role \in {"viewer", "operator"}
  /\ Goto(r, "handle")
  /\ UNCHANGED <<db, process, call, at, gone, code, seen, budget, history>>

Admit(r) ==
  /\ pc[r] = "guard"
  /\ call[r].role = "operator"
  /\ Goto(r, "handle")
  /\ UNCHANGED <<db, process, call, at, gone, code, seen, budget, history>>

(* parseCreate refuses the body, or ParseInt the id. *)
BadRequest(r) ==
  /\ pc[r] = "handle"
  /\ ~call[r].valid
  /\ Answer(r, "bad")
  /\ Goto(r, "audit")
  /\ UNCHANGED <<db, process, call, at, gone, seen, budget, history>>

-----------------------------------------------------------------------------
(* CreateTicketAndEnqueue: one transaction for the ticket and its job. *)

(* Mutant: two statements on their own, the second of which may not run. *)
InsertTicketThenJob(r) ==
  /\ ticket' = [ticket EXCEPT ![r] = "open"]
  /\ high' = IF call[r].high THEN high \cup {r} ELSE high
  /\ jobs' = jobs \/ jobs' = jobs \cup (high' \ high)
  /\ UNCHANGED audit

InsertTicket(r) ==
  /\ ticket' = [ticket EXCEPT ![r] = "open"]
  /\ high' = IF call[r].high THEN high \cup {r} ELSE high
  /\ jobs' = IF call[r].high THEN jobs \cup {r} ELSE jobs
  /\ UNCHANGED audit

ToCreate(r) == pc[r] = "handle" /\ call[r].op = "create" /\ call[r].valid

(* Mutant: jobs_enqueued_total counts every creation. *)
CreateCountingAll(r) ==
  /\ ToCreate(r)
  /\ r \notin gone
  /\ InsertTicket(r)
  /\ created' = [created EXCEPT ![at[r]] = @ + 1]
  /\ enqueued' = [enqueued EXCEPT ![at[r]] = @ + 1]
  /\ Goto(r, "count")
  /\ UNCHANGED <<api, gauge, closed, call, at, gone, code, seen, budget, history>>

(* Mutant: the create handler does not refresh the gauge. *)
CreateNoRefresh(r) ==
  /\ ToCreate(r)
  /\ r \notin gone
  /\ InsertTicket(r)
  /\ created' = [created EXCEPT ![at[r]] = @ + 1]
  /\ enqueued' = IF call[r].high THEN [enqueued EXCEPT ![at[r]] = @ + 1] ELSE enqueued
  /\ Answer(r, "ok")
  /\ Goto(r, "audit")
  /\ UNCHANGED <<api, gauge, closed, call, at, gone, seen, budget, history>>

Create(r) ==
  /\ ToCreate(r)
  /\ r \notin gone
  /\ InsertTicket(r)
  /\ created' = [created EXCEPT ![at[r]] = @ + 1]
  /\ enqueued' = IF call[r].high THEN [enqueued EXCEPT ![at[r]] = @ + 1] ELSE enqueued
  /\ Goto(r, "count")
  /\ UNCHANGED <<api, gauge, closed, call, at, gone, code, seen, budget, history>>

(* The transaction fails, or commits and its reply is lost: 500 for both. *)
CreateFails(r) ==
  /\ ToCreate(r)
  /\ CallFails(r)
  /\ InsertTicket(r) \/ UNCHANGED db
  /\ Answer(r, "failed")
  /\ Goto(r, "audit")
  /\ UNCHANGED <<process, call, at, gone, seen, history>>

-----------------------------------------------------------------------------
(* SetTicketStatus(id, closed): UPDATE ... WHERE id = $2 RETURNING. *)

ToClose(r) == pc[r] = "handle" /\ call[r].op = "close" /\ call[r].valid

CloseRow(t) ==
  /\ ticket' = [ticket EXCEPT ![t] = "closed"]
  /\ UNCHANGED <<high, jobs, audit>>

(* Mutant: a second close of the same ticket opens it again. *)
CloseToggles(r) ==
  /\ ToClose(r)
  /\ r \notin gone
  /\ ticket[call[r].id] # "absent"
  /\ ticket' = [ticket EXCEPT ![call[r].id] = IF @ = "open" THEN "closed" ELSE "open"]
  /\ closed' = [closed EXCEPT ![at[r]] = @ + 1]
  /\ Goto(r, "count")
  /\ UNCHANGED <<high, jobs, audit, api, gauge, created, enqueued, call, at, gone, code,
                 seen, budget, history>>

Close(r) ==
  /\ ToClose(r)
  /\ r \notin gone
  /\ ticket[call[r].id] # "absent"
  /\ CloseRow(call[r].id)
  /\ closed' = [closed EXCEPT ![at[r]] = @ + 1]
  /\ Goto(r, "count")
  /\ UNCHANGED <<api, gauge, created, enqueued, call, at, gone, code, seen, budget, history>>

CloseMissing(r) ==
  /\ ToClose(r)
  /\ r \notin gone
  /\ ticket[call[r].id] = "absent"
  /\ Answer(r, "missing")
  /\ Goto(r, "audit")
  /\ UNCHANGED <<db, process, call, at, gone, seen, budget, history>>

CloseFails(r) ==
  /\ ToClose(r)
  /\ CallFails(r)
  /\ \/ ticket[call[r].id] # "absent" /\ CloseRow(call[r].id)
     \/ UNCHANGED db
  /\ Answer(r, "failed")
  /\ Goto(r, "audit")
  /\ UNCHANGED <<process, call, at, gone, seen, history>>

-----------------------------------------------------------------------------
(* RefreshOpenGauge: the count and the Set are two steps. *)

Counted(x) ==
  /\ seen' = [seen EXCEPT ![x] = Cardinality(OpenTickets)]
  /\ lastCount' = x

GaugeSet(a, x) ==
  /\ gauge' = [gauge EXCEPT ![a] = seen[x]]
  /\ lastSet' = [lastSet EXCEPT ![a] = x]
  /\ seen' = [seen EXCEPT ![x] = 0]

CountOpen(r) ==
  /\ pc[r] = "count"
  /\ r \notin gone
  /\ Counted(r)
  /\ Goto(r, "set")
  /\ UNCHANGED <<db, process, call, at, gone, code, budget, lastSet>>

(* The handler answers whether or not the refresh worked. *)
CountFails(r) ==
  /\ pc[r] = "count"
  /\ CallFails(r)
  /\ Answer(r, "ok")
  /\ Goto(r, "audit")
  /\ UNCHANGED <<db, process, call, at, gone, seen, history>>

SetGauge(r) ==
  /\ pc[r] = "set"
  /\ GaugeSet(at[r], r)
  /\ Answer(r, "ok")
  /\ Goto(r, "audit")
  /\ UNCHANGED <<db, api, created, enqueued, closed, call, at, gone, budget, lastCount>>

-----------------------------------------------------------------------------
(* auditing, after the handler. *)

(* Mutant: the recorder is not the one the handler wrote to. *)
ResultOfDefaultStatus(c) == "ok"

(* auditResultFromStatus. *)
AuditResult(c) ==
  CASE c \in {"unauthorized", "forbidden"} -> "denied"
    [] c = "ok" -> "ok"
    [] OTHER -> "error"

(* Mutant: only successes are written. *)
WriteAuditIfOk(r) ==
  /\ pc[r] = "audit"
  /\ r \notin gone
  /\ audit' = IF code[r] = "ok" THEN [audit EXCEPT ![r] = "ok"] ELSE audit
  /\ Goto(r, "end")
  /\ UNCHANGED <<ticket, high, jobs, process, call, at, gone, code, seen, budget, history>>

WriteAudit(r) ==
  /\ pc[r] = "audit"
  /\ r \notin gone
  /\ audit' = [audit EXCEPT ![r] = AuditResult(code[r])]
  /\ Goto(r, "end")
  /\ UNCHANGED <<ticket, high, jobs, process, call, at, gone, code, seen, budget, history>>

(* "audit write failed" is logged, and the response stands. *)
AuditLost(r) ==
  /\ pc[r] = "audit"
  /\ CallFails(r)
  /\ Goto(r, "end")
  /\ UNCHANGED <<db, process, call, at, gone, code, seen, history>>

-----------------------------------------------------------------------------
(* main: RefreshOpenGauge before listening; SIGTERM; death. *)

Boot(a) ==
  /\ api[a] = "down"
  /\ api' = [api EXCEPT ![a] = "count"]
  /\ UNCHANGED <<db, gauge, created, enqueued, closed, request, seen, budget, history>>

BootCount(a) ==
  /\ api[a] = "count"
  /\ Counted(a)
  /\ api' = [api EXCEPT ![a] = "set"]
  /\ UNCHANGED <<db, gauge, created, enqueued, closed, request, budget, lastSet>>

(* "initial open-gauge refresh failed": the gauge stays 0. *)
BootCountFails(a) ==
  /\ api[a] = "count"
  /\ Fault("db")
  /\ api' = [api EXCEPT ![a] = "up"]
  /\ UNCHANGED <<db, gauge, created, enqueued, closed, request, seen, history>>

BootSet(a) ==
  /\ api[a] = "set"
  /\ GaugeSet(a, a)
  /\ api' = [api EXCEPT ![a] = "up"]
  /\ UNCHANGED <<db, created, enqueued, closed, request, budget, lastCount>>

(* The process ends: its memory, and the requests it was serving. *)
ProcessEnds(a) ==
  /\ api' = [api EXCEPT ![a] = "down"]
  /\ gauge' = [gauge EXCEPT ![a] = 0]
  /\ created' = [created EXCEPT ![a] = 0]
  /\ enqueued' = [enqueued EXCEPT ![a] = 0]
  /\ closed' = [closed EXCEPT ![a] = 0]
  /\ pc' = [r \in Reqs |-> IF r \in InFlight(a) THEN "end" ELSE pc[r]]
  /\ seen' = [x \in Actors |-> IF x \in InFlight(a) \cup {a} THEN 0 ELSE seen[x]]
  /\ UNCHANGED <<db, call, at, gone, code>>

Crash(a) ==
  /\ api[a] # "down"
  /\ Fault("crash")
  /\ ProcessEnds(a)
  /\ UNCHANGED history

(* SIGTERM: Shutdown takes no new request. *)
Stop(a) ==
  /\ api[a] = "up"
  /\ Fault("stop")
  /\ api' = [api EXCEPT ![a] = "draining"]
  /\ UNCHANGED <<db, gauge, created, enqueued, closed, request, seen, history>>

(* ... and waits for the requests in flight, for 10 s at most. *)
Exit(a) ==
  /\ api[a] = "draining"
  /\ ProcessEnds(a)
  /\ UNCHANGED <<budget, history>>

Serve(r) ==
  \/ Deny(r) \/ Admit(r) \/ BadRequest(r)
  \/ Create(r) \/ CreateFails(r)
  \/ Close(r) \/ CloseMissing(r) \/ CloseFails(r)
  \/ CountOpen(r) \/ CountFails(r) \/ SetGauge(r)
  \/ WriteAudit(r) \/ AuditLost(r) \/ Leave(r)

Next ==
  \/ \E r \in Reqs : Serve(r) \/ \E a \in Apis, c \in Calls : Arrive(r, a, c)
  \/ \E a \in Apis :
       \/ Boot(a) \/ BootCount(a) \/ BootCountFails(a) \/ BootSet(a)
       \/ Crash(a) \/ Stop(a) \/ Exit(a)

Spec == Init /\ [][Next]_vars

-----------------------------------------------------------------------------
NoFaultYet == budget = MaxFaults

AtRest ==
  /\ \A r \in Reqs : pc[r] \in {"idle", "end"}
  /\ \A a \in Apis : api[a] = "up"

(* A ticket of high priority and its job are one: no crash, lost reply or  *)
(* cancellation leaves the one without the other.                          *)
JobWithTicket ==
  \A t \in Tickets : t \in jobs <=> t \in high /\ ticket[t] # "absent"

(* Only an operator's request leaves anything in the database: no ticket,  *)
(* no change of one, no audit entry comes from another role.               *)
OnlyOperatorsMutate ==
  /\ \A r \in Reqs :
       ticket[r] # "absent" \/ audit[r] # "none" => call[r].role = "operator"
  /\ \A t \in Tickets : ticket[t] = "closed" =>
       \E r \in Reqs : /\ call[r].op = "close" /\ call[r].id = t
                       /\ call[r].role = "operator"

(* The audit log does not lie: "ok" stands for a row that is there, in the *)
(* state the request asked for, and a refused or missing one is an error.  *)
AuditFaithful ==
  \A r \in Reqs :
    /\ audit[r] = "ok" =>
         /\ call[r].op = "create" => ticket[r] # "absent"
         /\ call[r].op = "close" => ticket[call[r].id] = "closed"
    /\ audit[r] # "none" /\ code[r] \in {"bad", "missing", "failed"} => audit[r] = "error"

(* While nothing fails, every admitted request that has ended is in the    *)
(* log, the failed ones too, and so is every change of a ticket.           *)
AdmittedAudited ==
  NoFaultYet =>
    \A r \in Reqs : pc[r] = "end" /\ call[r].role = "operator" => audit[r] # "none"

(* When all is quiet the gauge is the number of open tickets, unless two   *)
(* refreshes have passed each other between the count and the Set, or      *)
(* another process was the last to count.                                  *)
GaugeUnlessOvertaken ==
  NoFaultYet /\ AtRest =>
    \A a \in Apis : lastSet[a] = lastCount => gauge[a] = Cardinality(OpenTickets)

(* When all is quiet the counters account for the tables: tickets created, *)
(* jobs enqueued, and at least one close counted per closed ticket.        *)
CountersAccount ==
  NoFaultYet /\ AtRest =>
    LET Total(f) == MapThenSumSet(LAMBDA a : f[a], Apis) IN
    /\ Total(created) = Cardinality({t \in Tickets : ticket[t] # "absent"})
    /\ Total(enqueued) = Cardinality(jobs)
    /\ Total(closed) >= Cardinality({t \in Tickets : ticket[t] = "closed"})

(* A ticket is created once and never deleted, and a closed one stays so.  *)
TicketLife ==
  [][\A t \in Tickets : ticket[t] # ticket'[t] =>
       <<ticket[t], ticket'[t]>> \in {<<"absent", "open">>, <<"open", "closed">>}]_vars

-----------------------------------------------------------------------------
(* The inductive invariant: what each step of a handler may assume. *)

Early == {"idle", "guard", "handle"}

(* Every row has a request of an operator behind it. *)
Provenance ==
  /\ \A r \in Reqs : ticket[r] # "absent" =>
       call[r].op = "create" /\ call[r].role = "operator" /\ pc[r] \notin Early
  /\ \A t \in Tickets : ticket[t] = "closed" =>
       \E r \in Reqs : /\ call[r].op = "close" /\ call[r].id = t
                       /\ call[r].role = "operator" /\ pc[r] \notin Early
  /\ \A r \in Reqs :
       /\ pc[r] \in {"handle", "count", "set", "audit"} => call[r].role = "operator"
       /\ audit[r] # "none" => pc[r] = "end" /\ call[r].role = "operator"

(* The row is in the state the request asked for. *)
Applied(r) ==
  /\ call[r].op = "create" => ticket[r] # "absent"
  /\ call[r].op = "close" => ticket[call[r].id] = "closed"

(* A handler counts, and answers "ok", only once its row is written. *)
Effects ==
  \A r \in Reqs :
    /\ pc[r] \in {"count", "set"} \/ code[r] = "ok" => Applied(r)
    /\ pc[r] \in Early => code[r] = "none"
    /\ pc[r] = "audit" => code[r] # "none"
    /\ audit[r] # "none" => audit[r] = AuditResult(code[r])

OneTransaction ==
  /\ jobs = high
  /\ \A t \in high : ticket[t] # "absent"

(* Until the first fault nothing is cancelled or draining. *)
Undisturbed ==
  NoFaultYet => gone = {} /\ \A a \in Apis : api[a] # "draining"

(* An actor between its count and its Set. *)
Refreshing(x) == (x \in Reqs /\ pc[x] = "set") \/ (x \in Apis /\ api[x] = "set")

(* A gauge holds what an actor that has done its Set counted.  Once every   *)
(* handler has counted after its write, the last count is the true one: it  *)
(* is on its way to a gauge, or in the gauges it was Set to.                *)
Refreshed ==
  NoFaultYet =>
    /\ \A a \in Apis : api[a] = "up" =>
         \/ lastSet[a] \in Reqs /\ pc[lastSet[a]] \in {"audit", "end"}
         \/ lastSet[a] = a
    /\ (\A r \in Reqs : pc[r] # "count") =>
         /\ Refreshing(lastCount) => seen[lastCount] = Cardinality(OpenTickets)
         /\ \A a \in Apis : api[a] = "up" /\ lastSet[a] = lastCount =>
              gauge[a] = Cardinality(OpenTickets)

(* The rows a replica has written, and the close requests it has applied. *)
CreatedAt(a)  == {r \in Reqs : ticket[r] # "absent" /\ at[r] = a}
EnqueuedAt(a) == {r \in jobs : at[r] = a}
HasClosed(r)  == call[r].op = "close" /\ (pc[r] \in {"count", "set"} \/ code[r] = "ok")
ClosedAt(a)   == {r \in Reqs : HasClosed(r) /\ at[r] = a}

(* Each replica's counters are the numbers of these. *)
Accounted ==
  NoFaultYet =>
    /\ \A a \in Apis :
         /\ created[a] = Cardinality(CreatedAt(a))
         /\ enqueued[a] = Cardinality(EnqueuedAt(a))
         /\ closed[a] = Cardinality(ClosedAt(a))
    /\ \A t \in Tickets : ticket[t] = "closed" =>
         \E r \in Reqs : HasClosed(r) /\ call[r].id = t

IInv ==
  /\ TypeOK /\ Provenance /\ Effects /\ OneTransaction /\ Undisturbed /\ AdmittedAudited
  /\ Refreshed /\ Accounted

-----------------------------------------------------------------------------
(* What handlers.go says of auditing: its result may be "denied". *)
DeniedIsAudited ==
  \A r \in Reqs :
    pc[r] = "end" /\ code[r] \in {"unauthorized", "forbidden"} => audit[r] = "denied"

(* What metrics.go says of tickets_open: "Current number of open tickets", *)
(* here when nothing runs and nothing has failed.                          *)
GaugeAtRest ==
  NoFaultYet /\ AtRest => \A a \in Apis : gauge[a] = Cardinality(OpenTickets)

=============================================================================

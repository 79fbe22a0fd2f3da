-------------------------- MODULE TicketApiProofs --------------------------
(***************************************************************************)
(* Proofs about TicketApi, for any replicas, requests, roles and faults.   *)
(*                                                                         *)
(* IInv is inductive; each conjunct has a lemma, <Conjunct>Step, with one  *)
(* step per action of Next.  LifeStep and Onward are what the others need  *)
(* of a single step: what may happen to a row, and to a request.           *)
(* TotalIsCount adds up the counters of the replicas.                      *)
(***************************************************************************)
EXTENDS TicketApi, FiniteSetTheorems, TLAPS

(* The fields of a request. *)
LEMMA CallFields ==
  ASSUME NEW c \in Calls
  PROVE  /\ c.op \in {"create", "close"} /\ c.role \in Roles /\ c.valid \in BOOLEAN
         /\ c.op = "create" => c.high \in BOOLEAN
         /\ c.op = "close" => c.id \in Tickets
BY DEF Calls

(* A request that is being served came through Arrive. *)
LEMMA Served ==
  ASSUME TypeOK, NEW r \in Reqs, pc[r] # "idle"
  PROVE  /\ call[r].op \in {"create", "close"} /\ call[r].role \in Roles
         /\ call[r].op = "close" => call[r].id \in Reqs
BY CallFields DEF TypeOK, Tickets

(* The count of open tickets is a number. *)
LEMMA OpenCount == Cardinality(OpenTickets) \in Nat
<1>1. OpenTickets \in SUBSET Reqs
  BY DEF OpenTickets, Tickets
<1>2. IsFiniteSet(OpenTickets)
  BY <1>1, FS_Subset, TicketApiAssumption
<1>. QED BY <1>2, FS_CardinalityType

(* Every step keeps the types. *)
LEMMA TypeStep ==
  ASSUME TypeOK, [Next]_vars
  PROVE  TypeOK'
<1>. USE TicketApiAssumption DEF TypeOK, Actors, Tickets, Codes, db, process,
        request, history
<1>c. Cardinality(OpenTickets) \in Nat
  BY OpenCount
<1>u. CASE UNCHANGED vars
  BY <1>u DEF vars
<1>1. ASSUME NEW r \in Reqs, Deny(r) PROVE TypeOK'
  BY <1>1 DEF Deny, Goto, Answer
<1>2. ASSUME NEW r \in Reqs, Admit(r) PROVE TypeOK'
  BY <1>2 DEF Admit, Goto
<1>3. ASSUME NEW r \in Reqs, BadRequest(r) PROVE TypeOK'
  BY <1>3 DEF BadRequest, Goto, Answer
<1>4. ASSUME NEW r \in Reqs, Create(r) PROVE TypeOK'
  BY <1>4 DEF Create, ToCreate, InsertTicket, Goto
<1>5. ASSUME NEW r \in Reqs, CreateFails(r) PROVE TypeOK'
  BY <1>5 DEF CreateFails, ToCreate, CallFails, Fault, InsertTicket, Goto, Answer
<1>6. ASSUME NEW r \in Reqs, Close(r) PROVE TypeOK'
  <2>1. call[r].id \in Reqs
    BY <1>6, Served DEF Close, ToClose
  <2>. QED BY <1>6, <2>1 DEF Close, ToClose, CloseRow, Goto
<1>7. ASSUME NEW r \in Reqs, CloseMissing(r) PROVE TypeOK'
  BY <1>7 DEF CloseMissing, ToClose, Goto, Answer
<1>8. ASSUME NEW r \in Reqs, CloseFails(r) PROVE TypeOK'
  <2>1. call[r].id \in Reqs
    BY <1>8, Served DEF CloseFails, ToClose
  <2>. QED BY <1>8, <2>1 DEF CloseFails, ToClose, CallFails, Fault, CloseRow, Goto, Answer
<1>9. ASSUME NEW r \in Reqs, CountOpen(r) PROVE TypeOK'
  BY <1>9, <1>c DEF CountOpen, Counted, Goto
<1>10. ASSUME NEW r \in Reqs, CountFails(r) PROVE TypeOK'
  BY <1>10 DEF CountFails, CallFails, Fault, Goto, Answer
<1>11. ASSUME NEW r \in Reqs, SetGauge(r) PROVE TypeOK'
  BY <1>11 DEF SetGauge, GaugeSet, Goto, Answer
<1>12. ASSUME NEW r \in Reqs, WriteAudit(r) PROVE TypeOK'
  BY <1>12 DEF WriteAudit, AuditResult, Goto
<1>13. ASSUME NEW r \in Reqs, AuditLost(r) PROVE TypeOK'
  BY <1>13 DEF AuditLost, CallFails, Fault, Goto
<1>14. ASSUME NEW r \in Reqs, Leave(r) PROVE TypeOK'
  BY <1>14 DEF Leave, Fault
<1>15. ASSUME NEW r \in Reqs, NEW a \in Apis, NEW c \in Calls, Arrive(r, a, c)
      PROVE  TypeOK'
  BY <1>15 DEF Arrive, Goto
<1>16. ASSUME NEW a \in Apis, Boot(a) PROVE TypeOK'
  BY <1>16 DEF Boot
<1>17. ASSUME NEW a \in Apis, BootCount(a) PROVE TypeOK'
  BY <1>17, <1>c DEF BootCount, Counted
<1>18. ASSUME NEW a \in Apis, BootCountFails(a) PROVE TypeOK'
  BY <1>18 DEF BootCountFails, Fault
<1>19. ASSUME NEW a \in Apis, BootSet(a) PROVE TypeOK'
  BY <1>19 DEF BootSet, GaugeSet
<1>20. ASSUME NEW a \in Apis, Crash(a) PROVE TypeOK'
  BY <1>20 DEF Crash, Fault, ProcessEnds, InFlight
<1>21. ASSUME NEW a \in Apis, Stop(a) PROVE TypeOK'
  BY <1>21 DEF Stop, Fault
<1>22. ASSUME NEW a \in Apis, Exit(a) PROVE TypeOK'
  BY <1>22 DEF Exit, ProcessEnds, InFlight
<1>. QED BY <1>u, <1>1, <1>2, <1>3, <1>4, <1>5, <1>6, <1>7, <1>8, <1>9, <1>10,
           <1>11, <1>12, <1>13, <1>14, <1>15, <1>16, <1>17, <1>18, <1>19,
           <1>20, <1>21, <1>22 DEF Next, Serve

(* A request that has passed the handler's parse step keeps its contents,  *)
(* and does not go back.                                                   *)
LEMMA Onward ==
  ASSUME TypeOK, NEW q \in Reqs, pc[q] \notin Early, [Next]_vars
  PROVE  pc'[q] \notin Early /\ call'[q] = call[q]
<1>. DEFINE Kept ==
         pc'[q] \notin Early /\ call'[q] = call[q]
<1>. SUFFICES Kept
  OBVIOUS
<1>. USE DEF TypeOK, Early, db, process, request, history
<1>u. CASE UNCHANGED vars
  BY <1>u DEF vars
<1>1. ASSUME NEW r \in Reqs, Deny(r) PROVE Kept
  BY <1>1 DEF Deny, Goto, Answer
<1>2. ASSUME NEW r \in Reqs, Admit(r) PROVE Kept
  BY <1>2 DEF Admit, Goto
<1>3. ASSUME NEW r \in Reqs, BadRequest(r) PROVE Kept
  BY <1>3 DEF BadRequest, Goto, Answer
<1>4. ASSUME NEW r \in Reqs, Create(r) PROVE Kept
  BY <1>4 DEF Create, ToCreate, InsertTicket, Goto
<1>5. ASSUME NEW r \in Reqs, CreateFails(r) PROVE Kept
  BY <1>5 DEF CreateFails, ToCreate, CallFails, Fault, InsertTicket, Goto, Answer
<1>6. ASSUME NEW r \in Reqs, Close(r) PROVE Kept
  BY <1>6 DEF Close, ToClose, CloseRow, Goto
<1>7. ASSUME NEW r \in Reqs, CloseMissing(r) PROVE Kept
  BY <1>7 DEF CloseMissing, ToClose, Goto, Answer
<1>8. ASSUME NEW r \in Reqs, CloseFails(r) PROVE Kept
  BY <1>8 DEF CloseFails, ToClose, CallFails, Fault, CloseRow, Goto, Answer
<1>9. ASSUME NEW r \in Reqs, CountOpen(r) PROVE Kept
  BY <1>9 DEF CountOpen, Counted, Goto
<1>10. ASSUME NEW r \in Reqs, CountFails(r) PROVE Kept
  BY <1>10 DEF CountFails, CallFails, Fault, Goto, Answer
<1>11. ASSUME NEW r \in Reqs, SetGauge(r) PROVE Kept
  BY <1>11 DEF SetGauge, GaugeSet, Goto, Answer
<1>12. ASSUME NEW r \in Reqs, WriteAudit(r) PROVE Kept
  BY <1>12 DEF WriteAudit, AuditResult, Goto
<1>13. ASSUME NEW r \in Reqs, AuditLost(r) PROVE Kept
  BY <1>13 DEF AuditLost, CallFails, Fault, Goto
<1>14. ASSUME NEW r \in Reqs, Leave(r) PROVE Kept
  BY <1>14 DEF Leave, Fault
<1>15. ASSUME NEW r \in Reqs, NEW a \in Apis, NEW c \in Calls, Arrive(r, a, c)
      PROVE  Kept
  BY <1>15 DEF Arrive, Goto
<1>16. ASSUME NEW a \in Apis, Boot(a) PROVE Kept
  BY <1>16 DEF Boot
<1>17. ASSUME NEW a \in Apis, BootCount(a) PROVE Kept
  BY <1>17 DEF BootCount, Counted
<1>18. ASSUME NEW a \in Apis, BootCountFails(a) PROVE Kept
  BY <1>18 DEF BootCountFails, Fault
<1>19. ASSUME NEW a \in Apis, BootSet(a) PROVE Kept
  BY <1>19 DEF BootSet, GaugeSet
<1>20. ASSUME NEW a \in Apis, Crash(a) PROVE Kept
  BY <1>20 DEF Crash, Fault, ProcessEnds, InFlight
<1>21. ASSUME NEW a \in Apis, Stop(a) PROVE Kept
  BY <1>21 DEF Stop, Fault
<1>22. ASSUME NEW a \in Apis, Exit(a) PROVE Kept
  BY <1>22 DEF Exit, ProcessEnds, InFlight
<1>. QED BY <1>u, <1>1, <1>2, <1>3, <1>4, <1>5, <1>6, <1>7, <1>8, <1>9, <1>10,
           <1>11, <1>12, <1>13, <1>14, <1>15, <1>16, <1>17, <1>18, <1>19,
           <1>20, <1>21, <1>22 DEF Next, Serve

(* A ticket is created once, then closed, and nothing else happens to it. *)
LEMMA LifeStep ==
  ASSUME TypeOK, Provenance, NEW t \in Tickets, ticket[t] # ticket'[t],
         [Next]_vars
  PROVE  <<ticket[t], ticket'[t]>> \in {<<"absent", "open">>, <<"open", "closed">>}
<1>. DEFINE Kept ==
         <<ticket[t], ticket'[t]>> \in {<<"absent", "open">>, <<"open", "closed">>}
<1>. SUFFICES Kept
  OBVIOUS
<1>. USE DEF TypeOK, Tickets, Provenance, Early, db, process, request, history
<1>u. CASE UNCHANGED vars
  BY <1>u DEF vars
<1>1. ASSUME NEW r \in Reqs, Deny(r) PROVE Kept
  BY <1>1 DEF Deny, Goto, Answer
<1>2. ASSUME NEW r \in Reqs, Admit(r) PROVE Kept
  BY <1>2 DEF Admit, Goto
<1>3. ASSUME NEW r \in Reqs, BadRequest(r) PROVE Kept
  BY <1>3 DEF BadRequest, Goto, Answer
<1>4. ASSUME NEW r \in Reqs, Create(r) PROVE Kept
  BY <1>4 DEF Create, ToCreate, InsertTicket, Goto
<1>5. ASSUME NEW r \in Reqs, CreateFails(r) PROVE Kept
  BY <1>5 DEF CreateFails, ToCreate, CallFails, Fault, InsertTicket, Goto, Answer
<1>6. ASSUME NEW r \in Reqs, Close(r) PROVE Kept
  <2>1. call[r].id \in Reqs
    BY <1>6, Served DEF Close, ToClose
  <2>. QED BY <1>6, <2>1 DEF Close, ToClose, CloseRow
<1>7. ASSUME NEW r \in Reqs, CloseMissing(r) PROVE Kept
  BY <1>7 DEF CloseMissing, ToClose, Goto, Answer
<1>8. ASSUME NEW r \in Reqs, CloseFails(r) PROVE Kept
  <2>1. call[r].id \in Reqs
    BY <1>8, Served DEF CloseFails, ToClose
  <2>. QED BY <1>8, <2>1 DEF CloseFails, ToClose, CloseRow
<1>9. ASSUME NEW r \in Reqs, CountOpen(r) PROVE Kept
  BY <1>9 DEF CountOpen, Counted, Goto
<1>10. ASSUME NEW r \in Reqs, CountFails(r) PROVE Kept
  BY <1>10 DEF CountFails, CallFails, Fault, Goto, Answer
<1>11. ASSUME NEW r \in Reqs, SetGauge(r) PROVE Kept
  BY <1>11 DEF SetGauge, GaugeSet, Goto, Answer
<1>12. ASSUME NEW r \in Reqs, WriteAudit(r) PROVE Kept
  BY <1>12 DEF WriteAudit, AuditResult, Goto
<1>13. ASSUME NEW r \in Reqs, AuditLost(r) PROVE Kept
  BY <1>13 DEF AuditLost, CallFails, Fault, Goto
<1>14. ASSUME NEW r \in Reqs, Leave(r) PROVE Kept
  BY <1>14 DEF Leave, Fault
<1>15. ASSUME NEW r \in Reqs, NEW a \in Apis, NEW c \in Calls, Arrive(r, a, c)
      PROVE  Kept
  BY <1>15 DEF Arrive, Goto
<1>16. ASSUME NEW a \in Apis, Boot(a) PROVE Kept
  BY <1>16 DEF Boot
<1>17. ASSUME NEW a \in Apis, BootCount(a) PROVE Kept
  BY <1>17 DEF BootCount, Counted
<1>18. ASSUME NEW a \in Apis, BootCountFails(a) PROVE Kept
  BY <1>18 DEF BootCountFails, Fault
<1>19. ASSUME NEW a \in Apis, BootSet(a) PROVE Kept
  BY <1>19 DEF BootSet, GaugeSet
<1>20. ASSUME NEW a \in Apis, Crash(a) PROVE Kept
  BY <1>20 DEF Crash, Fault, ProcessEnds, InFlight
<1>21. ASSUME NEW a \in Apis, Stop(a) PROVE Kept
  BY <1>21 DEF Stop, Fault
<1>22. ASSUME NEW a \in Apis, Exit(a) PROVE Kept
  BY <1>22 DEF Exit, ProcessEnds, InFlight
<1>. QED BY <1>u, <1>1, <1>2, <1>3, <1>4, <1>5, <1>6, <1>7, <1>8, <1>9, <1>10,
           <1>11, <1>12, <1>13, <1>14, <1>15, <1>16, <1>17, <1>18, <1>19,
           <1>20, <1>21, <1>22 DEF Next, Serve

(* Read forwards: a row that is there stays, and a closed one stays closed. *)
LEMMA Lasting ==
  ASSUME TypeOK, Provenance, [Next]_vars, NEW t \in Tickets
  PROVE  /\ ticket[t] # "absent" => ticket'[t] # "absent"
         /\ ticket[t] = "closed" => ticket'[t] = "closed"
         /\ ticket'[t] = "absent" => ticket[t] = "absent"
<1>1. CASE ticket[t] = ticket'[t]
  BY <1>1
<1>2. CASE ticket[t] # ticket'[t]
  BY <1>2, LifeStep
<1>. QED BY <1>1, <1>2

(* Only the request that names it creates a ticket, an operator's. *)
LEMMA Appears ==
  ASSUME TypeOK, Provenance, NEW t \in Reqs, ticket[t] = "absent", ticket'[t]
         # "absent", [Next]_vars
  PROVE  /\ call'[t].op = "create" /\ call'[t].role = "operator" /\ pc'[t] \notin Early
<1>. DEFINE Kept ==
         /\ call'[t].op = "create" /\ call'[t].role = "operator" /\ pc'[t] \notin Early
<1>. SUFFICES Kept
  OBVIOUS
<1>. USE DEF TypeOK, Tickets, Provenance, Early, db, process, request, history
<1>u. CASE UNCHANGED vars
  BY <1>u DEF vars
<1>1. ASSUME NEW r \in Reqs, Deny(r) PROVE Kept
  BY <1>1 DEF Deny, Goto, Answer
<1>2. ASSUME NEW r \in Reqs, Admit(r) PROVE Kept
  BY <1>2 DEF Admit, Goto
<1>3. ASSUME NEW r \in Reqs, BadRequest(r) PROVE Kept
  BY <1>3 DEF BadRequest, Goto, Answer
<1>4. ASSUME NEW r \in Reqs, Create(r) PROVE Kept
  BY <1>4 DEF Create, ToCreate, InsertTicket, Goto
<1>5. ASSUME NEW r \in Reqs, CreateFails(r) PROVE Kept
  BY <1>5 DEF CreateFails, ToCreate, CallFails, Fault, InsertTicket, Goto, Answer
<1>6. ASSUME NEW r \in Reqs, Close(r) PROVE Kept
  <2>1. call[r].id \in Reqs
    BY <1>6, Served DEF Close, ToClose
  <2>. QED BY <1>6, <2>1 DEF Close, ToClose, CloseRow
<1>7. ASSUME NEW r \in Reqs, CloseMissing(r) PROVE Kept
  BY <1>7 DEF CloseMissing, ToClose, Goto, Answer
<1>8. ASSUME NEW r \in Reqs, CloseFails(r) PROVE Kept
  <2>1. call[r].id \in Reqs
    BY <1>8, Served DEF CloseFails, ToClose
  <2>. QED BY <1>8, <2>1 DEF CloseFails, ToClose, CloseRow
<1>9. ASSUME NEW r \in Reqs, CountOpen(r) PROVE Kept
  BY <1>9 DEF CountOpen, Counted, Goto
<1>10. ASSUME NEW r \in Reqs, CountFails(r) PROVE Kept
  BY <1>10 DEF CountFails, CallFails, Fault, Goto, Answer
<1>11. ASSUME NEW r \in Reqs, SetGauge(r) PROVE Kept
  BY <1>11 DEF SetGauge, GaugeSet, Goto, Answer
<1>12. ASSUME NEW r \in Reqs, WriteAudit(r) PROVE Kept
  BY <1>12 DEF WriteAudit, AuditResult, Goto
<1>13. ASSUME NEW r \in Reqs, AuditLost(r) PROVE Kept
  BY <1>13 DEF AuditLost, CallFails, Fault, Goto
<1>14. ASSUME NEW r \in Reqs, Leave(r) PROVE Kept
  BY <1>14 DEF Leave, Fault
<1>15. ASSUME NEW r \in Reqs, NEW a \in Apis, NEW c \in Calls, Arrive(r, a, c)
      PROVE  Kept
  BY <1>15 DEF Arrive, Goto
<1>16. ASSUME NEW a \in Apis, Boot(a) PROVE Kept
  BY <1>16 DEF Boot
<1>17. ASSUME NEW a \in Apis, BootCount(a) PROVE Kept
  BY <1>17 DEF BootCount, Counted
<1>18. ASSUME NEW a \in Apis, BootCountFails(a) PROVE Kept
  BY <1>18 DEF BootCountFails, Fault
<1>19. ASSUME NEW a \in Apis, BootSet(a) PROVE Kept
  BY <1>19 DEF BootSet, GaugeSet
<1>20. ASSUME NEW a \in Apis, Crash(a) PROVE Kept
  BY <1>20 DEF Crash, Fault, ProcessEnds, InFlight
<1>21. ASSUME NEW a \in Apis, Stop(a) PROVE Kept
  BY <1>21 DEF Stop, Fault
<1>22. ASSUME NEW a \in Apis, Exit(a) PROVE Kept
  BY <1>22 DEF Exit, ProcessEnds, InFlight
<1>. QED BY <1>u, <1>1, <1>2, <1>3, <1>4, <1>5, <1>6, <1>7, <1>8, <1>9, <1>10,
           <1>11, <1>12, <1>13, <1>14, <1>15, <1>16, <1>17, <1>18, <1>19,
           <1>20, <1>21, <1>22 DEF Next, Serve

(* Only a close of an operator closes a ticket. *)
LEMMA Closes ==
  ASSUME TypeOK, Provenance, NEW t \in Reqs, ticket[t] # "closed", ticket'[t]
         = "closed", [Next]_vars
  PROVE  \E q \in Reqs : /\ call'[q].op = "close" /\ call'[q].id = t
                          /\ call'[q].role = "operator" /\ pc'[q] \notin Early
<1>. DEFINE Kept ==
         \E q \in Reqs : /\ call'[q].op = "close" /\ call'[q].id = t
                          /\ call'[q].role = "operator" /\ pc'[q] \notin Early
<1>. SUFFICES Kept
  OBVIOUS
<1>. USE DEF TypeOK, Tickets, Provenance, Early, db, process, request, history
<1>u. CASE UNCHANGED vars
  BY <1>u DEF vars
<1>1. ASSUME NEW r \in Reqs, Deny(r) PROVE Kept
  BY <1>1 DEF Deny, Goto, Answer
<1>2. ASSUME NEW r \in Reqs, Admit(r) PROVE Kept
  BY <1>2 DEF Admit, Goto
<1>3. ASSUME NEW r \in Reqs, BadRequest(r) PROVE Kept
  BY <1>3 DEF BadRequest, Goto, Answer
<1>4. ASSUME NEW r \in Reqs, Create(r) PROVE Kept
  BY <1>4 DEF Create, ToCreate, InsertTicket, Goto
<1>5. ASSUME NEW r \in Reqs, CreateFails(r) PROVE Kept
  BY <1>5 DEF CreateFails, ToCreate, CallFails, Fault, InsertTicket, Goto, Answer
<1>6. ASSUME NEW r \in Reqs, Close(r) PROVE Kept
  <2>1. call[r].id \in Reqs
    BY <1>6, Served DEF Close, ToClose
  <2>. QED BY <1>6, <2>1 DEF Close, ToClose, CloseRow, Goto
<1>7. ASSUME NEW r \in Reqs, CloseMissing(r) PROVE Kept
  BY <1>7 DEF CloseMissing, ToClose, Goto, Answer
<1>8. ASSUME NEW r \in Reqs, CloseFails(r) PROVE Kept
  <2>1. call[r].id \in Reqs
    BY <1>8, Served DEF CloseFails, ToClose
  <2>. QED BY <1>8, <2>1 DEF CloseFails, ToClose, CloseRow, Goto
<1>9. ASSUME NEW r \in Reqs, CountOpen(r) PROVE Kept
  BY <1>9 DEF CountOpen, Counted, Goto
<1>10. ASSUME NEW r \in Reqs, CountFails(r) PROVE Kept
  BY <1>10 DEF CountFails, CallFails, Fault, Goto, Answer
<1>11. ASSUME NEW r \in Reqs, SetGauge(r) PROVE Kept
  BY <1>11 DEF SetGauge, GaugeSet, Goto, Answer
<1>12. ASSUME NEW r \in Reqs, WriteAudit(r) PROVE Kept
  BY <1>12 DEF WriteAudit, AuditResult, Goto
<1>13. ASSUME NEW r \in Reqs, AuditLost(r) PROVE Kept
  BY <1>13 DEF AuditLost, CallFails, Fault, Goto
<1>14. ASSUME NEW r \in Reqs, Leave(r) PROVE Kept
  BY <1>14 DEF Leave, Fault
<1>15. ASSUME NEW r \in Reqs, NEW a \in Apis, NEW c \in Calls, Arrive(r, a, c)
      PROVE  Kept
  BY <1>15 DEF Arrive, Goto
<1>16. ASSUME NEW a \in Apis, Boot(a) PROVE Kept
  BY <1>16 DEF Boot
<1>17. ASSUME NEW a \in Apis, BootCount(a) PROVE Kept
  BY <1>17 DEF BootCount, Counted
<1>18. ASSUME NEW a \in Apis, BootCountFails(a) PROVE Kept
  BY <1>18 DEF BootCountFails, Fault
<1>19. ASSUME NEW a \in Apis, BootSet(a) PROVE Kept
  BY <1>19 DEF BootSet, GaugeSet
<1>20. ASSUME NEW a \in Apis, Crash(a) PROVE Kept
  BY <1>20 DEF Crash, Fault, ProcessEnds, InFlight
<1>21. ASSUME NEW a \in Apis, Stop(a) PROVE Kept
  BY <1>21 DEF Stop, Fault
<1>22. ASSUME NEW a \in Apis, Exit(a) PROVE Kept
  BY <1>22 DEF Exit, ProcessEnds, InFlight
<1>. QED BY <1>u, <1>1, <1>2, <1>3, <1>4, <1>5, <1>6, <1>7, <1>8, <1>9, <1>10,
           <1>11, <1>12, <1>13, <1>14, <1>15, <1>16, <1>17, <1>18, <1>19,
           <1>20, <1>21, <1>22 DEF Next, Serve

(* What the place of a request says of its role and of its audit entry. *)
LEMMA Standing ==
  ASSUME TypeOK, Provenance, NEW q \in Reqs, [Next]_vars
  PROVE  /\ pc'[q] \in {"handle", "count", "set", "audit"} => call'[q].role = "operator"
         /\ audit'[q] # "none" => pc'[q] = "end" /\ call'[q].role = "operator"
<1>. DEFINE Kept ==
         /\ pc'[q] \in {"handle", "count", "set", "audit"} => call'[q].role = "operator"
         /\ audit'[q] # "none" => pc'[q] = "end" /\ call'[q].role = "operator"
<1>. SUFFICES Kept
  OBVIOUS
<1>. USE DEF TypeOK, Provenance, db, process, request, history
<1>u. CASE UNCHANGED vars
  BY <1>u DEF vars
<1>1. ASSUME NEW r \in Reqs, Deny(r) PROVE Kept
  BY <1>1 DEF Deny, Goto, Answer
<1>2. ASSUME NEW r \in Reqs, Admit(r) PROVE Kept
  BY <1>2 DEF Admit, Goto
<1>3. ASSUME NEW r \in Reqs, BadRequest(r) PROVE Kept
  BY <1>3 DEF BadRequest, Goto, Answer
<1>4. ASSUME NEW r \in Reqs, Create(r) PROVE Kept
  BY <1>4 DEF Create, ToCreate, InsertTicket, Goto
<1>5. ASSUME NEW r \in Reqs, CreateFails(r) PROVE Kept
  BY <1>5 DEF CreateFails, ToCreate, CallFails, Fault, InsertTicket, Goto, Answer
<1>6. ASSUME NEW r \in Reqs, Close(r) PROVE Kept
  BY <1>6 DEF Close, ToClose, CloseRow, Goto
<1>7. ASSUME NEW r \in Reqs, CloseMissing(r) PROVE Kept
  BY <1>7 DEF CloseMissing, ToClose, Goto, Answer
<1>8. ASSUME NEW r \in Reqs, CloseFails(r) PROVE Kept
  BY <1>8 DEF CloseFails, ToClose, CallFails, Fault, CloseRow, Goto, Answer
<1>9. ASSUME NEW r \in Reqs, CountOpen(r) PROVE Kept
  BY <1>9 DEF CountOpen, Counted, Goto
<1>10. ASSUME NEW r \in Reqs, CountFails(r) PROVE Kept
  BY <1>10 DEF CountFails, CallFails, Fault, Goto, Answer
<1>11. ASSUME NEW r \in Reqs, SetGauge(r) PROVE Kept
  BY <1>11 DEF SetGauge, GaugeSet, Goto, Answer
<1>12. ASSUME NEW r \in Reqs, WriteAudit(r) PROVE Kept
  BY <1>12 DEF WriteAudit, AuditResult, Goto
<1>13. ASSUME NEW r \in Reqs, AuditLost(r) PROVE Kept
  BY <1>13 DEF AuditLost, CallFails, Fault, Goto
<1>14. ASSUME NEW r \in Reqs, Leave(r) PROVE Kept
  BY <1>14 DEF Leave, Fault
<1>15. ASSUME NEW r \in Reqs, NEW a \in Apis, NEW c \in Calls, Arrive(r, a, c)
      PROVE  Kept
  BY <1>15 DEF Arrive, Goto
<1>16. ASSUME NEW a \in Apis, Boot(a) PROVE Kept
  BY <1>16 DEF Boot
<1>17. ASSUME NEW a \in Apis, BootCount(a) PROVE Kept
  BY <1>17 DEF BootCount, Counted
<1>18. ASSUME NEW a \in Apis, BootCountFails(a) PROVE Kept
  BY <1>18 DEF BootCountFails, Fault
<1>19. ASSUME NEW a \in Apis, BootSet(a) PROVE Kept
  BY <1>19 DEF BootSet, GaugeSet
<1>20. ASSUME NEW a \in Apis, Crash(a) PROVE Kept
  BY <1>20 DEF Crash, Fault, ProcessEnds, InFlight
<1>21. ASSUME NEW a \in Apis, Stop(a) PROVE Kept
  BY <1>21 DEF Stop, Fault
<1>22. ASSUME NEW a \in Apis, Exit(a) PROVE Kept
  BY <1>22 DEF Exit, ProcessEnds, InFlight
<1>. HIDE DEF TypeOK, Provenance
<1>. QED BY <1>u, <1>1, <1>2, <1>3, <1>4, <1>5, <1>6, <1>7, <1>8, <1>9, <1>10,
           <1>11, <1>12, <1>13, <1>14, <1>15, <1>16, <1>17, <1>18, <1>19,
           <1>20, <1>21, <1>22 DEF Next, Serve

(* Provenance is kept. *)
LEMMA ProvenanceStep ==
  ASSUME TypeOK, Provenance, [Next]_vars
  PROVE  Provenance'
<1>1. ASSUME NEW r \in Reqs, ticket'[r] # "absent"
      PROVE  call'[r].op = "create" /\ call'[r].role = "operator" /\ pc'[r] \notin Early
  <2>1. CASE ticket[r] = "absent"
    BY <1>1, <2>1, Appears
  <2>2. CASE ticket[r] # "absent"
    BY <2>2, Onward DEF Provenance
  <2>. QED BY <2>1, <2>2
<1>2. ASSUME NEW t \in Reqs, ticket'[t] = "closed"
      PROVE  \E q \in Reqs : /\ call'[q].op = "close" /\ call'[q].id = t
                             /\ call'[q].role = "operator" /\ pc'[q] \notin Early
  <2>1. CASE ticket[t] # "closed"
    BY <1>2, <2>1, Closes
  <2>2. CASE ticket[t] = "closed"
    <3>1. PICK q \in Reqs : /\ call[q].op = "close" /\ call[q].id = t
                            /\ call[q].role = "operator" /\ pc[q] \notin Early
      BY <2>2 DEF Provenance, Tickets
    <3>2. pc'[q] \notin Early /\ call'[q] = call[q]
      BY <3>1, Onward
    <3>. QED BY <3>1, <3>2
  <2>. QED BY <2>1, <2>2
<1>3. ASSUME NEW r \in Reqs
      PROVE  /\ pc'[r] \in {"handle", "count", "set", "audit"} => call'[r].role = "operator"
             /\ audit'[r] # "none" => pc'[r] = "end" /\ call'[r].role = "operator"
  BY Standing
<1>. QED BY <1>1, <1>2, <1>3 DEF Provenance, Tickets, Early

(* What a request has done to its row lasts: an arrived request does not   *)
(* change, and no row goes back (Onward, Lasting).                         *)
LEMMA AppliedKept ==
  ASSUME TypeOK, Provenance, [Next]_vars, NEW r \in Reqs, pc[r] \notin Early, Applied(r)
  PROVE  Applied(r)'
<1>1. call'[r] = call[r]
  BY Onward
<1>2. CASE call[r].op = "create"
  <2>1. ticket[r] # "absent" /\ ticket'[r] # "absent"
    BY <1>2, Lasting DEF Applied, Tickets
  <2>. QED BY <1>1, <1>2, <2>1 DEF Applied
<1>3. CASE call[r].op = "close"
  <2>1. call[r].id \in Reqs
    BY <1>3, Served DEF Early
  <2>2. ticket'[call[r].id] = "closed"
    BY <1>3, <2>1, Lasting DEF Applied, Tickets
  <2>. QED BY <1>1, <1>3, <2>2 DEF Applied
<1>. QED BY <1>1, <1>2, <1>3 DEF Applied

(* A handler gets to its count only by writing its row. *)
LEMMA AppliesOnce ==
  ASSUME TypeOK, Effects, NEW q \in Reqs, pc[q] \in Early,
         pc'[q] \notin Early, pc'[q] \in {"count", "set"} \/ code'[q] = "ok", [Next]_vars
  PROVE  Applied(q)'
<1>. USE DEF TypeOK, Tickets, Effects, Early, db, process, request, history
<1>u. CASE UNCHANGED vars
  BY <1>u DEF vars
<1>1. ASSUME NEW r \in Reqs, Deny(r) PROVE Applied(q)'
  BY <1>1 DEF Deny, Goto, Answer
<1>2. ASSUME NEW r \in Reqs, Admit(r) PROVE Applied(q)'
  BY <1>2 DEF Admit, Goto
<1>3. ASSUME NEW r \in Reqs, BadRequest(r) PROVE Applied(q)'
  BY <1>3 DEF BadRequest, Goto, Answer
<1>4. ASSUME NEW r \in Reqs, Create(r) PROVE Applied(q)'
  BY <1>4 DEF Create, ToCreate, InsertTicket, Goto, Applied
<1>5. ASSUME NEW r \in Reqs, CreateFails(r) PROVE Applied(q)'
  BY <1>5 DEF CreateFails, ToCreate, CallFails, Fault, InsertTicket, Goto, Answer
<1>6. ASSUME NEW r \in Reqs, Close(r) PROVE Applied(q)'
  <2>1. call[r].id \in Reqs
    BY <1>6, Served DEF Close, ToClose
  <2>. QED BY <1>6, <2>1 DEF Close, ToClose, CloseRow, Goto, Applied
<1>7. ASSUME NEW r \in Reqs, CloseMissing(r) PROVE Applied(q)'
  BY <1>7 DEF CloseMissing, ToClose, Goto, Answer
<1>8. ASSUME NEW r \in Reqs, CloseFails(r) PROVE Applied(q)'
  <2>1. call[r].id \in Reqs
    BY <1>8, Served DEF CloseFails, ToClose
  <2>. QED BY <1>8, <2>1 DEF CloseFails, ToClose, CloseRow, Goto, Answer, Applied
<1>9. ASSUME NEW r \in Reqs, CountOpen(r) PROVE Applied(q)'
  BY <1>9 DEF CountOpen, Counted, Goto
<1>10. ASSUME NEW r \in Reqs, CountFails(r) PROVE Applied(q)'
  BY <1>10 DEF CountFails, CallFails, Fault, Goto, Answer
<1>11. ASSUME NEW r \in Reqs, SetGauge(r) PROVE Applied(q)'
  BY <1>11 DEF SetGauge, GaugeSet, Goto, Answer
<1>12. ASSUME NEW r \in Reqs, WriteAudit(r) PROVE Applied(q)'
  BY <1>12 DEF WriteAudit, AuditResult, Goto
<1>13. ASSUME NEW r \in Reqs, AuditLost(r) PROVE Applied(q)'
  BY <1>13 DEF AuditLost, CallFails, Fault, Goto
<1>14. ASSUME NEW r \in Reqs, Leave(r) PROVE Applied(q)'
  BY <1>14 DEF Leave, Fault
<1>15. ASSUME NEW r \in Reqs, NEW a \in Apis, NEW c \in Calls, Arrive(r, a, c)
      PROVE  Applied(q)'
  BY <1>15 DEF Arrive, Goto
<1>16. ASSUME NEW a \in Apis, Boot(a) PROVE Applied(q)'
  BY <1>16 DEF Boot
<1>17. ASSUME NEW a \in Apis, BootCount(a) PROVE Applied(q)'
  BY <1>17 DEF BootCount, Counted
<1>18. ASSUME NEW a \in Apis, BootCountFails(a) PROVE Applied(q)'
  BY <1>18 DEF BootCountFails, Fault
<1>19. ASSUME NEW a \in Apis, BootSet(a) PROVE Applied(q)'
  BY <1>19 DEF BootSet, GaugeSet
<1>20. ASSUME NEW a \in Apis, Crash(a) PROVE Applied(q)'
  BY <1>20 DEF Crash, Fault, ProcessEnds, InFlight
<1>21. ASSUME NEW a \in Apis, Stop(a) PROVE Applied(q)'
  BY <1>21 DEF Stop, Fault
<1>22. ASSUME NEW a \in Apis, Exit(a) PROVE Applied(q)'
  BY <1>22 DEF Exit, ProcessEnds, InFlight
<1>. QED BY <1>u, <1>1, <1>2, <1>3, <1>4, <1>5, <1>6, <1>7, <1>8, <1>9, <1>10,
           <1>11, <1>12, <1>13, <1>14, <1>15, <1>16, <1>17, <1>18, <1>19,
           <1>20, <1>21, <1>22 DEF Next, Serve

(* An answer is given once, and "ok" only after the count. *)
LEMMA Answered ==
  ASSUME TypeOK, Provenance, Effects, NEW q \in Reqs, [Next]_vars
  PROVE  /\ pc'[q] \in {"count", "set"} \/ code'[q] = "ok" =>
              \/ pc[q] \in {"count", "set"} \/ code[q] = "ok"
              \/ pc[q] \in Early /\ pc'[q] \notin Early
         /\ pc'[q] \in Early => code'[q] = "none"
         /\ pc'[q] = "audit" => code'[q] # "none"
         /\ audit'[q] # "none" => audit'[q] = AuditResult(code'[q])
<1>. DEFINE Kept ==
         /\ pc'[q] \in {"count", "set"} \/ code'[q] = "ok" =>
              \/ pc[q] \in {"count", "set"} \/ code[q] = "ok"
              \/ pc[q] \in Early /\ pc'[q] \notin Early
         /\ pc'[q] \in Early => code'[q] = "none"
         /\ pc'[q] = "audit" => code'[q] # "none"
         /\ audit'[q] # "none" => audit'[q] = AuditResult(code'[q])
<1>. SUFFICES Kept
  OBVIOUS
<1>. USE DEF TypeOK, Tickets, Provenance, Effects, Early, db, process, request,
        history
<1>u. CASE UNCHANGED vars
  BY <1>u DEF vars
<1>1. ASSUME NEW r \in Reqs, Deny(r) PROVE Kept
  BY <1>1 DEF Deny, Goto, Answer
<1>2. ASSUME NEW r \in Reqs, Admit(r) PROVE Kept
  BY <1>2 DEF Admit, Goto
<1>3. ASSUME NEW r \in Reqs, BadRequest(r) PROVE Kept
  BY <1>3 DEF BadRequest, Goto, Answer
<1>4. ASSUME NEW r \in Reqs, Create(r) PROVE Kept
  BY <1>4 DEF Create, ToCreate, InsertTicket, Goto
<1>5. ASSUME NEW r \in Reqs, CreateFails(r) PROVE Kept
  BY <1>5 DEF CreateFails, ToCreate, CallFails, Fault, InsertTicket, Goto, Answer
<1>6. ASSUME NEW r \in Reqs, Close(r) PROVE Kept
  BY <1>6 DEF Close, ToClose, CloseRow, Goto
<1>7. ASSUME NEW r \in Reqs, CloseMissing(r) PROVE Kept
  BY <1>7 DEF CloseMissing, ToClose, Goto, Answer
<1>8. ASSUME NEW r \in Reqs, CloseFails(r) PROVE Kept
  BY <1>8 DEF CloseFails, ToClose, CallFails, Fault, CloseRow, Goto, Answer
<1>9. ASSUME NEW r \in Reqs, CountOpen(r) PROVE Kept
  BY <1>9 DEF CountOpen, Counted, Goto
<1>10. ASSUME NEW r \in Reqs, CountFails(r) PROVE Kept
  BY <1>10 DEF CountFails, CallFails, Fault, Goto, Answer
<1>11. ASSUME NEW r \in Reqs, SetGauge(r) PROVE Kept
  BY <1>11 DEF SetGauge, GaugeSet, Goto, Answer
<1>12. ASSUME NEW r \in Reqs, WriteAudit(r) PROVE Kept
  BY <1>12 DEF WriteAudit, Goto
<1>13. ASSUME NEW r \in Reqs, AuditLost(r) PROVE Kept
  BY <1>13 DEF AuditLost, CallFails, Fault, Goto
<1>14. ASSUME NEW r \in Reqs, Leave(r) PROVE Kept
  BY <1>14 DEF Leave, Fault
<1>15. ASSUME NEW r \in Reqs, NEW a \in Apis, NEW c \in Calls, Arrive(r, a, c)
      PROVE  Kept
  BY <1>15 DEF Arrive, Goto
<1>16. ASSUME NEW a \in Apis, Boot(a) PROVE Kept
  BY <1>16 DEF Boot
<1>17. ASSUME NEW a \in Apis, BootCount(a) PROVE Kept
  BY <1>17 DEF BootCount, Counted
<1>18. ASSUME NEW a \in Apis, BootCountFails(a) PROVE Kept
  BY <1>18 DEF BootCountFails, Fault
<1>19. ASSUME NEW a \in Apis, BootSet(a) PROVE Kept
  BY <1>19 DEF BootSet, GaugeSet
<1>20. ASSUME NEW a \in Apis, Crash(a) PROVE Kept
  BY <1>20 DEF Crash, Fault, ProcessEnds, InFlight
<1>21. ASSUME NEW a \in Apis, Stop(a) PROVE Kept
  BY <1>21 DEF Stop, Fault
<1>22. ASSUME NEW a \in Apis, Exit(a) PROVE Kept
  BY <1>22 DEF Exit, ProcessEnds, InFlight
<1>. HIDE DEF TypeOK, Provenance, Effects, Early
<1>. QED BY <1>u, <1>1, <1>2, <1>3, <1>4, <1>5, <1>6, <1>7, <1>8, <1>9, <1>10,
           <1>11, <1>12, <1>13, <1>14, <1>15, <1>16, <1>17, <1>18, <1>19,
           <1>20, <1>21, <1>22 DEF Next, Serve

(* Effects is kept. *)
LEMMA EffectsStep ==
  ASSUME TypeOK, Provenance, Effects, [Next]_vars
  PROVE  Effects'
<1>. SUFFICES ASSUME NEW r \in Reqs
     PROVE  /\ pc'[r] \in {"count", "set"} \/ code'[r] = "ok" => Applied(r)'
            /\ pc'[r] \in Early => code'[r] = "none"
            /\ pc'[r] = "audit" => code'[r] # "none"
            /\ audit'[r] # "none" => audit'[r] = AuditResult(code'[r])
  BY DEF Effects, Early, AuditResult
<1>1. ASSUME pc'[r] \in {"count", "set"} \/ code'[r] = "ok" PROVE Applied(r)'
  <2>1. CASE pc[r] \in {"count", "set"} \/ code[r] = "ok"
    <3>1. pc[r] \notin Early /\ Applied(r)
      BY <2>1 DEF Effects, Early
    <3>. QED BY <3>1, AppliedKept
  <2>2. CASE pc[r] \in Early /\ pc'[r] \notin Early
    BY <1>1, <2>2, AppliesOnce
  <2>. QED BY <1>1, <2>1, <2>2, Answered
<1>. QED BY <1>1, Answered

(* A ticket of high priority and its job are written together. *)
LEMMA OneTransactionStep ==
  ASSUME TypeOK, Provenance, OneTransaction, [Next]_vars
  PROVE  OneTransaction'
<1>. USE DEF TypeOK, Tickets, OneTransaction, db, process, request, history
<1>u. CASE UNCHANGED vars
  BY <1>u DEF vars
<1>1. ASSUME NEW r \in Reqs, Deny(r) PROVE OneTransaction'
  BY <1>1 DEF Deny, Goto, Answer
<1>2. ASSUME NEW r \in Reqs, Admit(r) PROVE OneTransaction'
  BY <1>2 DEF Admit, Goto
<1>3. ASSUME NEW r \in Reqs, BadRequest(r) PROVE OneTransaction'
  BY <1>3 DEF BadRequest, Goto, Answer
<1>4. ASSUME NEW r \in Reqs, Create(r) PROVE OneTransaction'
  BY <1>4 DEF Create, ToCreate, InsertTicket, Goto
<1>5. ASSUME NEW r \in Reqs, CreateFails(r) PROVE OneTransaction'
  BY <1>5 DEF CreateFails, ToCreate, CallFails, Fault, InsertTicket, Goto, Answer
<1>6. ASSUME NEW r \in Reqs, Close(r) PROVE OneTransaction'
  <2>1. call[r].id \in Reqs
    BY <1>6, Served DEF Close, ToClose
  <2>. QED BY <1>6, <2>1 DEF Close, ToClose, CloseRow
<1>7. ASSUME NEW r \in Reqs, CloseMissing(r) PROVE OneTransaction'
  BY <1>7 DEF CloseMissing, ToClose, Goto, Answer
<1>8. ASSUME NEW r \in Reqs, CloseFails(r) PROVE OneTransaction'
  <2>1. call[r].id \in Reqs
    BY <1>8, Served DEF CloseFails, ToClose
  <2>. QED BY <1>8, <2>1 DEF CloseFails, ToClose, CloseRow
<1>9. ASSUME NEW r \in Reqs, CountOpen(r) PROVE OneTransaction'
  BY <1>9 DEF CountOpen, Counted, Goto
<1>10. ASSUME NEW r \in Reqs, CountFails(r) PROVE OneTransaction'
  BY <1>10 DEF CountFails, CallFails, Fault, Goto, Answer
<1>11. ASSUME NEW r \in Reqs, SetGauge(r) PROVE OneTransaction'
  BY <1>11 DEF SetGauge, GaugeSet, Goto, Answer
<1>12. ASSUME NEW r \in Reqs, WriteAudit(r) PROVE OneTransaction'
  BY <1>12 DEF WriteAudit, AuditResult, Goto
<1>13. ASSUME NEW r \in Reqs, AuditLost(r) PROVE OneTransaction'
  BY <1>13 DEF AuditLost, CallFails, Fault, Goto
<1>14. ASSUME NEW r \in Reqs, Leave(r) PROVE OneTransaction'
  BY <1>14 DEF Leave, Fault
<1>15. ASSUME NEW r \in Reqs, NEW a \in Apis, NEW c \in Calls, Arrive(r, a, c)
      PROVE  OneTransaction'
  BY <1>15 DEF Arrive, Goto
<1>16. ASSUME NEW a \in Apis, Boot(a) PROVE OneTransaction'
  BY <1>16 DEF Boot
<1>17. ASSUME NEW a \in Apis, BootCount(a) PROVE OneTransaction'
  BY <1>17 DEF BootCount, Counted
<1>18. ASSUME NEW a \in Apis, BootCountFails(a) PROVE OneTransaction'
  BY <1>18 DEF BootCountFails, Fault
<1>19. ASSUME NEW a \in Apis, BootSet(a) PROVE OneTransaction'
  BY <1>19 DEF BootSet, GaugeSet
<1>20. ASSUME NEW a \in Apis, Crash(a) PROVE OneTransaction'
  BY <1>20 DEF Crash, Fault, ProcessEnds, InFlight
<1>21. ASSUME NEW a \in Apis, Stop(a) PROVE OneTransaction'
  BY <1>21 DEF Stop, Fault
<1>22. ASSUME NEW a \in Apis, Exit(a) PROVE OneTransaction'
  BY <1>22 DEF Exit, ProcessEnds, InFlight
<1>. QED BY <1>u, <1>1, <1>2, <1>3, <1>4, <1>5, <1>6, <1>7, <1>8, <1>9, <1>10,
           <1>11, <1>12, <1>13, <1>14, <1>15, <1>16, <1>17, <1>18, <1>19,
           <1>20, <1>21, <1>22 DEF Next, Serve

(* Until the first fault nothing is cancelled or draining. *)
LEMMA UndisturbedStep ==
  ASSUME TypeOK, Undisturbed, [Next]_vars
  PROVE  Undisturbed'
<1>. USE TicketApiAssumption DEF TypeOK, Undisturbed, NoFaultYet, db, process,
        request, history
<1>u. CASE UNCHANGED vars
  BY <1>u DEF vars
<1>1. ASSUME NEW r \in Reqs, Deny(r) PROVE Undisturbed'
  BY <1>1 DEF Deny, Goto, Answer
<1>2. ASSUME NEW r \in Reqs, Admit(r) PROVE Undisturbed'
  BY <1>2 DEF Admit, Goto
<1>3. ASSUME NEW r \in Reqs, BadRequest(r) PROVE Undisturbed'
  BY <1>3 DEF BadRequest, Goto, Answer
<1>4. ASSUME NEW r \in Reqs, Create(r) PROVE Undisturbed'
  BY <1>4 DEF Create, ToCreate, InsertTicket, Goto
<1>5. ASSUME NEW r \in Reqs, CreateFails(r) PROVE Undisturbed'
  BY <1>5 DEF CreateFails, ToCreate, CallFails, Fault, InsertTicket, Goto, Answer
<1>6. ASSUME NEW r \in Reqs, Close(r) PROVE Undisturbed'
  BY <1>6 DEF Close, ToClose, CloseRow, Goto
<1>7. ASSUME NEW r \in Reqs, CloseMissing(r) PROVE Undisturbed'
  BY <1>7 DEF CloseMissing, ToClose, Goto, Answer
<1>8. ASSUME NEW r \in Reqs, CloseFails(r) PROVE Undisturbed'
  BY <1>8 DEF CloseFails, ToClose, CallFails, Fault, CloseRow, Goto, Answer
<1>9. ASSUME NEW r \in Reqs, CountOpen(r) PROVE Undisturbed'
  BY <1>9 DEF CountOpen, Counted, Goto
<1>10. ASSUME NEW r \in Reqs, CountFails(r) PROVE Undisturbed'
  BY <1>10 DEF CountFails, CallFails, Fault, Goto, Answer
<1>11. ASSUME NEW r \in Reqs, SetGauge(r) PROVE Undisturbed'
  BY <1>11 DEF SetGauge, GaugeSet, Goto, Answer
<1>12. ASSUME NEW r \in Reqs, WriteAudit(r) PROVE Undisturbed'
  BY <1>12 DEF WriteAudit, AuditResult, Goto
<1>13. ASSUME NEW r \in Reqs, AuditLost(r) PROVE Undisturbed'
  BY <1>13 DEF AuditLost, CallFails, Fault, Goto
<1>14. ASSUME NEW r \in Reqs, Leave(r) PROVE Undisturbed'
  BY <1>14 DEF Leave, Fault
<1>15. ASSUME NEW r \in Reqs, NEW a \in Apis, NEW c \in Calls, Arrive(r, a, c)
      PROVE  Undisturbed'
  BY <1>15 DEF Arrive, Goto
<1>16. ASSUME NEW a \in Apis, Boot(a) PROVE Undisturbed'
  BY <1>16 DEF Boot
<1>17. ASSUME NEW a \in Apis, BootCount(a) PROVE Undisturbed'
  BY <1>17 DEF BootCount, Counted
<1>18. ASSUME NEW a \in Apis, BootCountFails(a) PROVE Undisturbed'
  BY <1>18 DEF BootCountFails, Fault
<1>19. ASSUME NEW a \in Apis, BootSet(a) PROVE Undisturbed'
  BY <1>19 DEF BootSet, GaugeSet
<1>20. ASSUME NEW a \in Apis, Crash(a) PROVE Undisturbed'
  BY <1>20 DEF Crash, Fault, ProcessEnds, InFlight
<1>21. ASSUME NEW a \in Apis, Stop(a) PROVE Undisturbed'
  BY <1>21 DEF Stop, Fault
<1>22. ASSUME NEW a \in Apis, Exit(a) PROVE Undisturbed'
  BY <1>22 DEF Exit, ProcessEnds, InFlight
<1>. QED BY <1>u, <1>1, <1>2, <1>3, <1>4, <1>5, <1>6, <1>7, <1>8, <1>9, <1>10,
           <1>11, <1>12, <1>13, <1>14, <1>15, <1>16, <1>17, <1>18, <1>19,
           <1>20, <1>21, <1>22 DEF Next, Serve

(* Until the first fault every admitted request that has ended is in the   *)
(* log.                                                                    *)
LEMMA AdmittedAuditedStep ==
  ASSUME TypeOK, Provenance, Undisturbed, AdmittedAudited, [Next]_vars
  PROVE  AdmittedAudited'
<1>. USE TicketApiAssumption DEF TypeOK, Provenance, Undisturbed,
        AdmittedAudited, NoFaultYet, db, process, request, history
<1>u. CASE UNCHANGED vars
  BY <1>u DEF vars
<1>1. ASSUME NEW r \in Reqs, Deny(r) PROVE AdmittedAudited'
  BY <1>1 DEF Deny, Goto, Answer
<1>2. ASSUME NEW r \in Reqs, Admit(r) PROVE AdmittedAudited'
  BY <1>2 DEF Admit, Goto
<1>3. ASSUME NEW r \in Reqs, BadRequest(r) PROVE AdmittedAudited'
  BY <1>3 DEF BadRequest, Goto, Answer
<1>4. ASSUME NEW r \in Reqs, Create(r) PROVE AdmittedAudited'
  BY <1>4 DEF Create, ToCreate, InsertTicket, Goto
<1>5. ASSUME NEW r \in Reqs, CreateFails(r) PROVE AdmittedAudited'
  BY <1>5 DEF CreateFails, ToCreate, CallFails, Fault, InsertTicket, Goto, Answer
<1>6. ASSUME NEW r \in Reqs, Close(r) PROVE AdmittedAudited'
  BY <1>6 DEF Close, ToClose, CloseRow, Goto
<1>7. ASSUME NEW r \in Reqs, CloseMissing(r) PROVE AdmittedAudited'
  BY <1>7 DEF CloseMissing, ToClose, Goto, Answer
<1>8. ASSUME NEW r \in Reqs, CloseFails(r) PROVE AdmittedAudited'
  BY <1>8 DEF CloseFails, ToClose, CallFails, Fault, CloseRow, Goto, Answer
<1>9. ASSUME NEW r \in Reqs, CountOpen(r) PROVE AdmittedAudited'
  BY <1>9 DEF CountOpen, Counted, Goto
<1>10. ASSUME NEW r \in Reqs, CountFails(r) PROVE AdmittedAudited'
  BY <1>10 DEF CountFails, CallFails, Fault, Goto, Answer
<1>11. ASSUME NEW r \in Reqs, SetGauge(r) PROVE AdmittedAudited'
  BY <1>11 DEF SetGauge, GaugeSet, Goto, Answer
<1>12. ASSUME NEW r \in Reqs, WriteAudit(r) PROVE AdmittedAudited'
  BY <1>12 DEF WriteAudit, AuditResult, Goto
<1>13. ASSUME NEW r \in Reqs, AuditLost(r) PROVE AdmittedAudited'
  BY <1>13 DEF AuditLost, CallFails, Fault, Goto
<1>14. ASSUME NEW r \in Reqs, Leave(r) PROVE AdmittedAudited'
  BY <1>14 DEF Leave, Fault
<1>15. ASSUME NEW r \in Reqs, NEW a \in Apis, NEW c \in Calls, Arrive(r, a, c)
      PROVE  AdmittedAudited'
  BY <1>15 DEF Arrive, Goto
<1>16. ASSUME NEW a \in Apis, Boot(a) PROVE AdmittedAudited'
  BY <1>16 DEF Boot
<1>17. ASSUME NEW a \in Apis, BootCount(a) PROVE AdmittedAudited'
  BY <1>17 DEF BootCount, Counted
<1>18. ASSUME NEW a \in Apis, BootCountFails(a) PROVE AdmittedAudited'
  BY <1>18 DEF BootCountFails, Fault
<1>19. ASSUME NEW a \in Apis, BootSet(a) PROVE AdmittedAudited'
  BY <1>19 DEF BootSet, GaugeSet
<1>20. ASSUME NEW a \in Apis, Crash(a) PROVE AdmittedAudited'
  BY <1>20 DEF Crash, Fault, ProcessEnds, InFlight
<1>21. ASSUME NEW a \in Apis, Stop(a) PROVE AdmittedAudited'
  BY <1>21 DEF Stop, Fault
<1>22. ASSUME NEW a \in Apis, Exit(a) PROVE AdmittedAudited'
  BY <1>22 DEF Exit, ProcessEnds, InFlight
<1>. HIDE DEF TypeOK, Provenance, Undisturbed, AdmittedAudited, NoFaultYet
<1>. QED BY <1>u, <1>1, <1>2, <1>3, <1>4, <1>5, <1>6, <1>7, <1>8, <1>9, <1>10,
           <1>11, <1>12, <1>13, <1>14, <1>15, <1>16, <1>17, <1>18, <1>19,
           <1>20, <1>21, <1>22 DEF Next, Serve

(* The steps that are left while nothing fails: no call fails, no client   *)
(* leaves, no replica ends.                                                *)
LEMMA Faultless ==
  ASSUME TypeOK, Undisturbed, [Next]_vars, NoFaultYet'
  PROVE  /\ NoFaultYet
         /\ \/ UNCHANGED vars
            \/ \E r \in Reqs :
                 \/ Deny(r) \/ Admit(r) \/ BadRequest(r) \/ Create(r) \/ Close(r)
                 \/ CloseMissing(r) \/ CountOpen(r) \/ SetGauge(r) \/ WriteAudit(r)
                 \/ \E a \in Apis, c \in Calls : Arrive(r, a, c)
            \/ \E a \in Apis : Boot(a) \/ BootCount(a) \/ BootSet(a)
<1>t. budget \in 0 .. MaxFaults /\ MaxFaults \in Nat /\ at \in [Reqs -> Apis]
  BY TicketApiAssumption DEF TypeOK
<1>1. ASSUME NEW kind, Fault(kind) PROVE FALSE
  BY <1>t, <1>1 DEF Fault, NoFaultYet
<1>2. ASSUME NEW r \in Reqs, CallFails(r) PROVE FALSE
  BY <1>t, <1>1, <1>2 DEF CallFails, Undisturbed, NoFaultYet
<1>3. ASSUME NEW a \in Apis, Exit(a) PROVE FALSE
  BY <1>3 DEF Exit, Undisturbed, NoFaultYet
<1>4. /\ \A r \in Reqs : ~CreateFails(r) /\ ~CloseFails(r) /\ ~CountFails(r)
                         /\ ~AuditLost(r) /\ ~Leave(r)
      /\ \A a \in Apis : ~BootCountFails(a) /\ ~Crash(a) /\ ~Stop(a) /\ ~Exit(a)
  BY <1>1, <1>2, <1>3 DEF CreateFails, CloseFails, CountFails, AuditLost, Leave,
                          BootCountFails, Crash, Stop
<1>5. \/ UNCHANGED vars
      \/ \E r \in Reqs :
           \/ Deny(r) \/ Admit(r) \/ BadRequest(r) \/ Create(r) \/ Close(r)
           \/ CloseMissing(r) \/ CountOpen(r) \/ SetGauge(r) \/ WriteAudit(r)
           \/ \E a \in Apis, c \in Calls : Arrive(r, a, c)
      \/ \E a \in Apis : Boot(a) \/ BootCount(a) \/ BootSet(a)
  BY <1>4 DEF Next, Serve
<1>6. budget' = budget
  BY <1>5 DEF vars, Deny, Admit, BadRequest, Create, Close, CloseMissing, CountOpen,
              SetGauge, WriteAudit, Arrive, Boot, BootCount, BootSet
<1>. QED BY <1>5, <1>6 DEF NoFaultYet

(* Refreshed survives a step that neither writes a ticket nor counts nor   *)
(* Sets.                                                                   *)
LEMMA RefreshedKept ==
  ASSUME Refreshed, NoFaultYet, UNCHANGED <<ticket, gauge, seen, lastCount, lastSet>>,
         \A q \in Reqs : /\ pc'[q] = "count" <=> pc[q] = "count"
                         /\ pc'[q] = "set" => pc[q] = "set"
                         /\ pc[q] \in {"audit", "end"} => pc'[q] \in {"audit", "end"},
         \A b \in Apis : /\ api'[b] = "up" => api[b] = "up"
                         /\ api'[b] = "set" => api[b] = "set"
  PROVE  Refreshed'
<1>1. OpenTickets' = OpenTickets
  BY DEF OpenTickets
<1>2. Refreshing(lastCount)' => Refreshing(lastCount)
  BY DEF Refreshing
<1>. QED BY <1>1, <1>2 DEF Refreshed

(* A count is of the tickets as they are, and nothing has been Set from it. *)
LEMMA RefreshedByCount ==
  ASSUME TypeOK, Refreshed, NoFaultYet, NEW x \in Actors, Counted(x),
         UNCHANGED <<ticket, gauge, lastSet>>,
         ~(x \in Reqs /\ pc[x] \in {"audit", "end"}), ~(x \in Apis /\ api[x] = "up"),
         \A q \in Reqs : pc[q] \in {"audit", "end"} => pc'[q] \in {"audit", "end"},
         \A b \in Apis : api'[b] = "up" => api[b] = "up"
  PROVE  Refreshed'
<1>1. OpenTickets' = OpenTickets
  BY DEF OpenTickets
<1>2. lastCount' = x /\ seen'[x] = Cardinality(OpenTickets)
  BY DEF Counted, TypeOK
<1>3. \A a \in Apis : api'[a] = "up" => lastSet'[a] # x
  BY TicketApiAssumption DEF Refreshed
<1>. QED BY <1>1, <1>2, <1>3 DEF Refreshed

(* A Set brings the last count to a gauge, or one that is out of date. *)
LEMMA RefreshedBySet ==
  ASSUME TypeOK, Refreshed, NoFaultYet, NEW a \in Apis, NEW x \in Actors,
         GaugeSet(a, x), Refreshing(x), ~Refreshing(x)',
         UNCHANGED <<ticket, lastCount>>,
         x = a \/ (x \in Reqs /\ pc'[x] \in {"audit", "end"}),
         \A q \in Reqs : /\ pc'[q] = "count" <=> pc[q] = "count"
                         /\ pc'[q] = "set" => pc[q] = "set"
                         /\ pc[q] \in {"audit", "end"} => pc'[q] \in {"audit", "end"},
         \A b \in Apis : /\ api'[b] = "up" => api[b] = "up" \/ b = a
                         /\ api'[b] = "set" => api[b] = "set"
  PROVE  Refreshed'
<1>1. OpenTickets' = OpenTickets
  BY DEF OpenTickets
<1>2. /\ gauge' = [gauge EXCEPT ![a] = seen[x]] /\ gauge \in [Apis -> Nat]
      /\ lastSet' = [lastSet EXCEPT ![a] = x] /\ DOMAIN lastSet = Apis
      /\ seen' = [seen EXCEPT ![x] = 0] /\ DOMAIN seen = Actors
  BY DEF GaugeSet, TypeOK
<1>3. ASSUME NEW b \in Apis, api'[b] = "up"
      PROVE  \/ lastSet'[b] \in Reqs /\ pc'[lastSet'[b]] \in {"audit", "end"}
             \/ lastSet'[b] = b
  <2>1. CASE b = a
    BY <1>2, <2>1
  <2>2. CASE b # a
    BY <1>2, <1>3, <2>2 DEF Refreshed
  <2>. QED BY <2>1, <2>2
<1>4. ASSUME \A r \in Reqs : pc'[r] # "count"
      PROVE  /\ Refreshing(lastCount)' => seen'[lastCount] = Cardinality(OpenTickets)
             /\ \A b \in Apis : api'[b] = "up" /\ lastSet'[b] = lastCount =>
                  gauge'[b] = Cardinality(OpenTickets)
  <2>1. /\ Refreshing(lastCount) => seen[lastCount] = Cardinality(OpenTickets)
        /\ \A b \in Apis : api[b] = "up" /\ lastSet[b] = lastCount =>
             gauge[b] = Cardinality(OpenTickets)
    BY <1>4 DEF Refreshed
  <2>2. Refreshing(lastCount)' => Refreshing(lastCount) /\ lastCount # x
    BY DEF Refreshing
  <2>3. Refreshing(lastCount) => lastCount \in Actors
    BY DEF Refreshing, Actors
  <2>4. Refreshing(lastCount)' => seen'[lastCount] = Cardinality(OpenTickets)
    BY <1>2, <2>1, <2>2, <2>3
  <2>5. ASSUME NEW b \in Apis, api'[b] = "up", lastSet'[b] = lastCount
        PROVE  gauge'[b] = Cardinality(OpenTickets)
    <3>1. CASE b = a
      BY <1>2, <2>1, <2>5, <3>1
    <3>2. CASE b # a
      BY <1>2, <2>1, <2>5, <3>2
    <3>. QED BY <3>1, <3>2
  <2>. QED BY <2>4, <2>5
<1>. QED BY <1>1, <1>3, <1>4 DEF Refreshed

(* Every step keeps Refreshed. *)
LEMMA RefreshedStep ==
  ASSUME TypeOK, Undisturbed, Refreshed, [Next]_vars
  PROVE  Refreshed'
<1>. SUFFICES ASSUME NoFaultYet' PROVE Refreshed'
  BY DEF Refreshed
<1>f. NoFaultYet
  BY Faultless
<1>t. pc \in [Reqs -> {"idle", "guard", "handle", "count", "set", "audit", "end"}]
      /\ api \in [Apis -> {"down", "count", "set", "up", "draining"}]
      /\ at \in [Reqs -> Apis] /\ Reqs \subseteq Actors /\ Apis \subseteq Actors
      /\ Apis \cap Reqs = {}
  BY TicketApiAssumption DEF TypeOK, Actors
<1>. USE DEF db, process, request, history, Goto
<1>u. CASE UNCHANGED vars
  BY <1>u, <1>f, RefreshedKept DEF vars
<1>1. ASSUME NEW r \in Reqs, Deny(r) \/ Admit(r) \/ BadRequest(r) PROVE Refreshed'
  BY <1>1, <1>f, <1>t, RefreshedKept DEF Deny, Admit, BadRequest, Answer
<1>2. ASSUME NEW r \in Reqs, CloseMissing(r) \/ WriteAudit(r) PROVE Refreshed'
  BY <1>2, <1>f, <1>t, RefreshedKept DEF CloseMissing, ToClose, WriteAudit, Answer
<1>3. ASSUME NEW r \in Reqs, NEW a \in Apis, NEW c \in Calls, Arrive(r, a, c)
      PROVE  Refreshed'
  BY <1>3, <1>f, <1>t, RefreshedKept DEF Arrive
<1>4. ASSUME NEW a \in Apis, Boot(a) PROVE Refreshed'
  BY <1>4, <1>f, <1>t, RefreshedKept DEF Boot
<1>5. ASSUME NEW r \in Reqs, Create(r) \/ Close(r) PROVE Refreshed'
  <2>1. /\ pc[r] = "handle" /\ pc' = [pc EXCEPT ![r] = "count"]
        /\ UNCHANGED <<api, lastSet>>
    BY <1>5 DEF Create, Close, ToCreate, ToClose
  <2>2. pc'[r] = "count" /\ \A q \in Reqs : q # r => pc'[q] = pc[q]
    BY <1>t, <2>1
  <2>3. \A a \in Apis : api'[a] = "up" =>
          \/ lastSet'[a] \in Reqs /\ pc'[lastSet'[a]] \in {"audit", "end"}
          \/ lastSet'[a] = a
    BY <1>f, <2>1, <2>2 DEF Refreshed
  <2>. QED BY <2>2, <2>3 DEF Refreshed
<1>6. ASSUME NEW r \in Reqs, CountOpen(r) PROVE Refreshed'
  BY <1>6, <1>f, <1>t, RefreshedByCount DEF CountOpen
<1>7. ASSUME NEW a \in Apis, BootCount(a) PROVE Refreshed'
  BY <1>7, <1>f, <1>t, RefreshedByCount DEF BootCount
<1>8. ASSUME NEW r \in Reqs, SetGauge(r) PROVE Refreshed'
  <2>1. at[r] \in Apis /\ r \in Actors /\ GaugeSet(at[r], r)
    BY <1>8, <1>t DEF SetGauge
  <2>2. Refreshing(r) /\ ~Refreshing(r)'
    BY <1>8, <1>t DEF SetGauge, Refreshing
  <2>. QED BY <1>8, <1>f, <1>t, <2>1, <2>2, RefreshedBySet DEF SetGauge, Answer
<1>9. ASSUME NEW a \in Apis, BootSet(a) PROVE Refreshed'
  <2>1. a \in Actors /\ GaugeSet(a, a)
    BY <1>9, <1>t DEF BootSet
  <2>2. Refreshing(a) /\ ~Refreshing(a)'
    BY <1>9, <1>t DEF BootSet, Refreshing
  <2>3. api' = [api EXCEPT ![a] = "up"] /\ UNCHANGED <<ticket, lastCount, pc>>
    BY <1>9 DEF BootSet
  <2>4. \A b \in Apis : /\ api'[b] = "up" => api[b] = "up" \/ b = a
                        /\ api'[b] = "set" => api[b] = "set"
    BY <1>t, <2>3
  <2>5. \A q \in Reqs : /\ pc'[q] = "count" <=> pc[q] = "count"
                        /\ pc'[q] = "set" => pc[q] = "set"
                        /\ pc[q] \in {"audit", "end"} => pc'[q] \in {"audit", "end"}
    BY <2>3
  <2>6. UNCHANGED <<ticket, lastCount>>
    BY <2>3
  <2>. QED BY <1>f, <2>1, <2>2, <2>4, <2>5, <2>6, RefreshedBySet
<1>. QED BY <1>u, <1>1, <1>2, <1>3, <1>4, <1>5, <1>6, <1>7, <1>8, <1>9, Faultless

(* Accounted survives a step that leaves the rows, the counters and what   *)
(* requests have closed.                                                   *)
LEMMA AccountedKept ==
  ASSUME TypeOK, Accounted, NoFaultYet,
         UNCHANGED <<ticket, jobs, created, enqueued, closed>>,
         \A q \in Reqs : /\ q \in jobs \/ ticket[q] # "absent" => at'[q] = at[q]
                         /\ HasClosed(q)' <=> HasClosed(q)
                         /\ HasClosed(q) => at'[q] = at[q] /\ call'[q] = call[q]
  PROVE  Accounted'
<1>1. ASSUME NEW a \in Apis
      PROVE  /\ CreatedAt(a)' = CreatedAt(a) /\ EnqueuedAt(a)' = EnqueuedAt(a)
             /\ ClosedAt(a)' = ClosedAt(a)
  BY DEF CreatedAt, EnqueuedAt, ClosedAt, TypeOK, Tickets
<1>. QED BY <1>1 DEF Accounted

(* One more in a set is one more in its count. *)
LEMMA OneMore ==
  ASSUME NEW S \in SUBSET Reqs, NEW r \in Reqs, r \notin S
  PROVE  Cardinality(S \cup {r}) = Cardinality(S) + 1
<1>. IsFiniteSet(S)
  BY TicketApiAssumption, FS_Subset
<1>. QED BY FS_AddElement

(* Every step keeps Accounted. *)
LEMMA AccountedStep ==
  ASSUME TypeOK, Provenance, Effects, OneTransaction, Undisturbed, Accounted, [Next]_vars
  PROVE  Accounted'
<1>. SUFFICES ASSUME NoFaultYet' PROVE Accounted'
  BY DEF Accounted
<1>f. NoFaultYet
  BY Faultless
<1>t. pc \in [Reqs -> {"idle", "guard", "handle", "count", "set", "audit", "end"}]
      /\ code \in [Reqs -> Codes] /\ at \in [Reqs -> Apis]
      /\ jobs \subseteq Reqs /\ ticket \in [Reqs -> {"absent", "open", "closed"}]
      /\ DOMAIN call = Reqs
  BY DEF TypeOK, Tickets
<1>e. \A q \in Reqs : pc[q] \in Early =>
         ~HasClosed(q) /\ ticket[q] = "absent" /\ q \notin jobs
  BY DEF HasClosed, Effects, Early, Provenance, OneTransaction, Tickets
<1>. USE DEF db, process, request, history, Goto, Answer
<1>u. CASE UNCHANGED vars
  BY <1>u, <1>f, AccountedKept DEF vars, HasClosed
<1>1. ASSUME NEW r \in Reqs, Deny(r) \/ Admit(r) \/ BadRequest(r) \/ CloseMissing(r)
      PROVE  Accounted'
  <2>1. /\ pc[r] \in Early /\ pc'[r] \in {"handle", "audit", "end"} /\ code'[r] # "ok"
        /\ UNCHANGED <<db, process, call, at>>
        /\ \A q \in Reqs : q # r => pc'[q] = pc[q] /\ code'[q] = code[q]
    BY <1>1, <1>t DEF Deny, Admit, BadRequest, CloseMissing, ToClose, Early, Effects
  <2>2. \A q \in Reqs : HasClosed(q)' <=> HasClosed(q)
    BY <1>e, <2>1 DEF HasClosed
  <2>. QED BY <1>f, <2>1, <2>2, AccountedKept
<1>2. ASSUME NEW r \in Reqs, CountOpen(r) \/ SetGauge(r) \/ WriteAudit(r)
      PROVE  Accounted'
  <2>1. /\ pc[r] \in {"count", "set"} \/ (pc[r] = "audit" /\ code' = code)
        /\ pc'[r] = "set" \/ pc'[r] \in {"audit", "end"}
        /\ pc[r] = "count" => pc'[r] = "set"
        /\ pc[r] = "set" => code'[r] = "ok"
        /\ pc[r] = "audit" => pc'[r] = "end"
        /\ UNCHANGED <<ticket, jobs, created, enqueued, closed, call, at>>
        /\ \A q \in Reqs : q # r => pc'[q] = pc[q] /\ code'[q] = code[q]
    <3>1. CASE CountOpen(r)
      BY <1>t, <3>1 DEF CountOpen
    <3>2. CASE SetGauge(r)
      BY <1>t, <3>2 DEF SetGauge
    <3>3. CASE WriteAudit(r)
      BY <1>t, <3>3 DEF WriteAudit
    <3>. QED BY <1>2, <3>1, <3>2, <3>3
  <2>2. \A q \in Reqs : HasClosed(q)' <=> HasClosed(q)
    BY <2>1 DEF HasClosed
  <2>. QED BY <1>f, <2>1, <2>2, AccountedKept
<1>3. ASSUME NEW r \in Reqs, NEW a \in Apis, NEW c \in Calls, Arrive(r, a, c)
      PROVE  Accounted'
  <2>1. /\ pc[r] \in Early /\ pc'[r] = "guard" /\ code' = code
        /\ UNCHANGED <<db, process>>
        /\ \A q \in Reqs : q # r => pc'[q] = pc[q] /\ call'[q] = call[q] /\ at'[q] = at[q]
    BY <1>3, <1>t DEF Arrive, Early
  <2>2. ~HasClosed(r)'
    BY <2>1 DEF HasClosed, Effects
  <2>3. \A q \in Reqs : HasClosed(q)' <=> HasClosed(q)
    BY <1>e, <2>1, <2>2 DEF HasClosed
  <2>. QED BY <1>e, <1>f, <2>1, <2>3, AccountedKept
<1>4. ASSUME NEW a \in Apis, Boot(a) \/ BootCount(a) \/ BootSet(a) PROVE Accounted'
  BY <1>4, <1>f, AccountedKept DEF Boot, BootCount, BootSet, GaugeSet, Counted, HasClosed
<1>5. ASSUME NEW r \in Reqs, Create(r) PROVE Accounted'
  <2>1. /\ pc[r] = "handle" /\ call[r].op = "create" /\ at[r] \in Apis
        /\ UNCHANGED <<call, at, code, closed>>
        /\ pc' = [pc EXCEPT ![r] = "count"] /\ ticket' = [ticket EXCEPT ![r] = "open"]
        /\ created' = [created EXCEPT ![at[r]] = @ + 1]
        /\ \/ /\ jobs' = jobs \cup {r} /\ enqueued' = [enqueued EXCEPT ![at[r]] = @ + 1]
           \/ jobs' = jobs /\ enqueued' = enqueued
    BY <1>5, <1>t DEF Create, ToCreate, InsertTicket
  <2>2. ticket[r] = "absent" /\ r \notin jobs
    BY <1>e, <2>1 DEF Early
  <2>3. \A q \in Reqs : HasClosed(q)' <=> HasClosed(q)
    BY <1>t, <2>1 DEF HasClosed
  <2>4. \A t \in Tickets : ticket'[t] = "closed" => ticket[t] = "closed"
    BY <1>t, <2>1 DEF Tickets
  <2>5. \A t \in Tickets : ticket'[t] = "closed" =>
           \E q \in Reqs : HasClosed(q)' /\ call'[q].id = t
    BY <1>f, <2>1, <2>3, <2>4 DEF Accounted
  <2>6. ASSUME NEW b \in Apis
        PROVE  /\ created'[b] = Cardinality(CreatedAt(b)')
               /\ enqueued'[b] = Cardinality(EnqueuedAt(b)')
               /\ closed'[b] = Cardinality(ClosedAt(b)')
    <3>1. /\ created[b] = Cardinality(CreatedAt(b)) /\ b \in DOMAIN created
          /\ enqueued[b] = Cardinality(EnqueuedAt(b)) /\ b \in DOMAIN enqueued
          /\ closed[b] = Cardinality(ClosedAt(b))
      BY <1>f DEF Accounted, TypeOK
    <3>2. ClosedAt(b)' = ClosedAt(b)
      BY <2>1, <2>3 DEF ClosedAt
    <3>3. CreatedAt(b)' = IF b = at[r] THEN CreatedAt(b) \cup {r} ELSE CreatedAt(b)
      BY <1>t, <2>1, <2>2 DEF CreatedAt
    <3>4. EnqueuedAt(b)' = IF b = at[r] /\ jobs' # jobs THEN EnqueuedAt(b) \cup {r}
                                                       ELSE EnqueuedAt(b)
      BY <1>t, <2>1, <2>2 DEF EnqueuedAt
    <3>5. /\ Cardinality(CreatedAt(b) \cup {r}) = Cardinality(CreatedAt(b)) + 1
          /\ Cardinality(EnqueuedAt(b) \cup {r}) = Cardinality(EnqueuedAt(b)) + 1
      BY <1>t, <2>2, OneMore DEF CreatedAt, EnqueuedAt
    <3>6. created'[b] = Cardinality(CreatedAt(b)')
      BY <2>1, <3>1, <3>3, <3>5
    <3>7. enqueued'[b] = Cardinality(EnqueuedAt(b)')
      BY <2>1, <2>2, <3>1, <3>4, <3>5
    <3>. QED BY <2>1, <3>1, <3>2, <3>6, <3>7
  <2>. QED BY <2>5, <2>6 DEF Accounted
<1>6. ASSUME NEW r \in Reqs, Close(r) PROVE Accounted'
  <2>1. /\ pc[r] = "handle" /\ call[r].op = "close" /\ at[r] \in Apis
        /\ UNCHANGED <<call, at, code, jobs, created, enqueued>>
        /\ pc' = [pc EXCEPT ![r] = "count"]
        /\ ticket' = [ticket EXCEPT ![call[r].id] = "closed"] /\ ticket[call[r].id] # "absent"
        /\ closed' = [closed EXCEPT ![at[r]] = @ + 1]
    BY <1>6, <1>t DEF Close, ToClose, CloseRow
  <2>2. ~HasClosed(r) /\ HasClosed(r)'
    BY <1>e, <1>t, <2>1 DEF Early, HasClosed
  <2>3. \A q \in Reqs : q # r => (HasClosed(q)' <=> HasClosed(q))
    BY <1>t, <2>1 DEF HasClosed
  <2>4. \A t \in Tickets : ticket'[t] = "closed" => ticket[t] = "closed" \/ t = call[r].id
    BY <1>t, <2>1 DEF Tickets
  <2>5. \A t \in Tickets : ticket'[t] = "closed" =>
           \E q \in Reqs : HasClosed(q)' /\ call'[q].id = t
    BY <1>f, <2>1, <2>2, <2>3, <2>4 DEF Accounted
  <2>6. ASSUME NEW b \in Apis
        PROVE  /\ created'[b] = Cardinality(CreatedAt(b)')
               /\ enqueued'[b] = Cardinality(EnqueuedAt(b)')
               /\ closed'[b] = Cardinality(ClosedAt(b)')
    <3>1. /\ created[b] = Cardinality(CreatedAt(b))
          /\ enqueued[b] = Cardinality(EnqueuedAt(b))
          /\ closed[b] = Cardinality(ClosedAt(b)) /\ b \in DOMAIN closed
      BY <1>f DEF Accounted, TypeOK
    <3>2. CreatedAt(b)' = CreatedAt(b) /\ EnqueuedAt(b)' = EnqueuedAt(b)
      BY <1>t, <2>1 DEF CreatedAt, EnqueuedAt
    <3>3. ClosedAt(b)' = IF b = at[r] THEN ClosedAt(b) \cup {r} ELSE ClosedAt(b)
      BY <2>1, <2>2, <2>3 DEF ClosedAt
    <3>4. Cardinality(ClosedAt(b) \cup {r}) = Cardinality(ClosedAt(b)) + 1
      BY <2>2, OneMore DEF ClosedAt
    <3>5. closed'[b] = Cardinality(ClosedAt(b)')
      BY <2>1, <3>1, <3>3, <3>4
    <3>. QED BY <2>1, <3>1, <3>2, <3>5
  <2>. QED BY <2>5, <2>6 DEF Accounted
<1>. QED BY <1>u, <1>1, <1>2, <1>3, <1>4, <1>5, <1>6, Faultless

-----------------------------------------------------------------------------
(* The sum of a counter over the replicas.                                 *)

(* The order in which MapThenSumSet takes the replicas. *)
Pick(s) == CHOOSE x \in s : TRUE

(* The sums of f over the sets of replicas. *)
Sums(f) ==
  CHOOSE g : g = [s \in SUBSET Apis |-> IF s = {} THEN 0 ELSE f[Pick(s)] + g[s \ {Pick(s)}]]

(* The members of the sets that F gives to the replicas in s. *)
Members(F, s) == UNION {F[a] : a \in s}

(* MapThenSumSet is such a sum. *)
LEMMA TotalIsSum ==
  ASSUME NEW f
  PROVE  MapThenSumSet(LAMBDA a : f[a], Apis) = Sums(f)[Apis]
BY DEF MapThenSumSet, MapThenFoldSet, Sums, Pick

(* If every replica counts a set of its own, with no member in common, the *)
(* sum counts the members of them all.                                     *)
LEMMA TotalIsCount ==
  ASSUME NEW f, NEW F,
         \A a \in Apis : F[a] \in SUBSET Reqs /\ f[a] = Cardinality(F[a]),
         \A a, b \in Apis : a # b => F[a] \cap F[b] = {}
  PROVE  MapThenSumSet(LAMBDA a : f[a], Apis) = Cardinality(Members(F, Apis))
<1>. DEFINE G == [s \in SUBSET Apis |-> Cardinality(Members(F, s))]
            Step(g, s) == IF s = {} THEN 0 ELSE f[Pick(s)] + g[s \ {Pick(s)}]
            h == Sums(f)
<1>1. ASSUME NEW s \in SUBSET Apis
      PROVE  IsFiniteSet(Members(F, s)) /\ Cardinality(Members(F, s)) \in Nat
  <2>1. Members(F, s) \in SUBSET Reqs
    BY DEF Members
  <2>. QED BY <2>1, TicketApiAssumption, FS_Subset, FS_CardinalityType
<1>2. ASSUME NEW s \in SUBSET Apis PROVE G[s] = Step(G, s)
  <2>1. CASE s = {}
    <3>1. Members(F, s) = {}
      BY <2>1 DEF Members
    <3>. QED BY <2>1, <3>1, FS_EmptySet
  <2>2. CASE s # {}
    <3>. DEFINE p == Pick(s)
                rest == s \ {p}
    <3>1. p \in s /\ rest \in SUBSET Apis
      BY <2>2 DEF Pick
    <3>2. /\ Members(F, s) = F[p] \cup Members(F, rest)
          /\ F[p] \cap Members(F, rest) = {}
      BY <3>1 DEF Members
    <3>3. IsFiniteSet(F[p]) /\ Cardinality(F[p]) \in Nat
      BY <3>1, TicketApiAssumption, FS_Subset, FS_CardinalityType
    <3>4. IsFiniteSet(Members(F, rest)) /\ Cardinality(Members(F, rest)) \in Nat
      BY <1>1, <3>1
    <3>5. Cardinality(Members(F, s)) = Cardinality(F[p]) + Cardinality(Members(F, rest))
      <4>. DEFINE X == F[p]
                  Y == Members(F, rest)
      <4>1. IsFiniteSet(X) /\ IsFiniteSet(Y) /\ X \cap Y = {}
        BY <3>2, <3>3, <3>4
      <4>2. Cardinality(X) \in Nat /\ Cardinality(Y) \in Nat
        BY <3>3, <3>4
      <4>3. Members(F, s) = X \cup Y
        BY <3>2
      <4>. HIDE DEF X, Y
      <4>4. Cardinality(X \cup Y) = Cardinality(X) + Cardinality(Y) - Cardinality(X \cap Y)
        BY <4>1, FS_Union
      <4>5. Cardinality(X \cap Y) = 0
        BY <4>1, FS_EmptySet, Zenon
      <4>6. Cardinality(X \cup Y) = Cardinality(X) + Cardinality(Y)
        BY <4>2, <4>4, <4>5
      <4>. QED BY <4>3, <4>6 DEF X, Y
    <3>6. f[p] = Cardinality(F[p])
      BY <3>1
    <3>. HIDE DEF p
    <3>7. G[s] = f[p] + G[rest]
      BY <3>1, <3>5, <3>6
    <3>. QED BY <2>2, <3>7 DEF p
  <2>. QED BY <2>1, <2>2
<1>3. G = [s \in SUBSET Apis |-> Step(G, s)]
  <2>1. G = [s \in SUBSET Apis |-> G[s]]
    OBVIOUS
  <2>. HIDE DEF G, Step
  <2>2. [s \in SUBSET Apis |-> G[s]] = [s \in SUBSET Apis |-> Step(G, s)]
    BY <1>2
  <2>. QED BY <2>1, <2>2
<1>4. h = [s \in SUBSET Apis |-> Step(h, s)]
  <2>. HIDE DEF G
  <2>. QED BY <1>3 DEF Sums
<1>5. ASSUME NEW s \in SUBSET Apis PROVE h[s] = Step(h, s)
  <2>. HIDE DEF h, Step
  <2>. QED BY <1>4
<1>6. \A s \in SUBSET Apis : h[s] = G[s]
  <2>. DEFINE Wrong == {s \in SUBSET Apis : h[s] # G[s]}
  <2>. SUFFICES ASSUME Wrong # {} PROVE FALSE
    OBVIOUS
  <2>1. IsWellFoundedOn(StrictSubsetOrdering(Apis), SUBSET Apis)
    BY TicketApiAssumption, FS_StrictSubsetOrderingWellFounded, FS_FiniteSubsetsOfFinite
  <2>2. PICK s \in Wrong : \A q \in Wrong : ~(<<q, s>> \in StrictSubsetOrdering(Apis))
    <3>1. Wrong \subseteq SUBSET Apis
      OBVIOUS
    <3>. HIDE DEF Wrong
    <3>. QED BY <2>1, <3>1, WFMin
  <2>. DEFINE rest == s \ {Pick(s)}
  <2>. s \in SUBSET Apis
    OBVIOUS
  <2>. HIDE DEF h, G
  <2>3. CASE s = {}
    BY <1>2, <1>5, <2>3
  <2>4. CASE s # {}
    <3>1. rest \in SUBSET Apis /\ rest \subseteq s /\ rest # s
      BY <2>4 DEF Pick
    <3>2. <<rest, s>> \in StrictSubsetOrdering(Apis)
      BY <3>1 DEF StrictSubsetOrdering
    <3>3. h[rest] = G[rest]
      BY <2>2, <3>1, <3>2
    <3>. QED BY <1>2, <1>5, <2>4, <3>3
  <2>. QED BY <2>3, <2>4
<1>7. h[Apis] = Cardinality(Members(F, Apis))
  <2>1. Apis \in SUBSET Apis
    OBVIOUS
  <2>2. G[Apis] = Cardinality(Members(F, Apis))
    BY <2>1
  <2>. QED BY <1>6, <2>1, <2>2
<1>. QED BY <1>7, TotalIsSum

(* At rest the counters account for the rows of the tables. *)
LEMMA Totals ==
  ASSUME TypeOK, Provenance, Effects, OneTransaction, Accounted
  PROVE  CountersAccount
<1>. SUFFICES ASSUME NoFaultYet, AtRest
     PROVE  LET Total(f) == MapThenSumSet(LAMBDA a : f[a], Apis) IN
            /\ Total(created) = Cardinality({t \in Tickets : ticket[t] # "absent"})
            /\ Total(enqueued) = Cardinality(jobs)
            /\ Total(closed) >= Cardinality({t \in Tickets : ticket[t] = "closed"})
  BY DEF CountersAccount
<1>t. at \in [Reqs -> Apis] /\ jobs \subseteq Reqs
  BY DEF TypeOK, Tickets
<1>. DEFINE C == [a \in Apis |-> CreatedAt(a)]
            E == [a \in Apis |-> EnqueuedAt(a)]
            D == [a \in Apis |-> ClosedAt(a)]
            All == {r \in Reqs : HasClosed(r)}
<1>1. MapThenSumSet(LAMBDA a : created[a], Apis) = Cardinality({t \in Tickets : ticket[t] # "absent"})
  <2>1. Members(C, Apis) = {t \in Tickets : ticket[t] # "absent"}
    BY <1>t DEF Members, CreatedAt, Tickets
  <2>2. \A a \in Apis : C[a] \in SUBSET Reqs /\ created[a] = Cardinality(C[a])
    BY DEF Accounted, CreatedAt
  <2>3. \A a, b \in Apis : a # b => C[a] \cap C[b] = {}
    BY DEF CreatedAt
  <2>. HIDE DEF C
  <2>. QED BY <2>1, <2>2, <2>3, TotalIsCount
<1>2. MapThenSumSet(LAMBDA a : enqueued[a], Apis) = Cardinality(jobs)
  <2>1. Members(E, Apis) = jobs
    BY <1>t DEF Members, EnqueuedAt
  <2>2. \A a \in Apis : E[a] \in SUBSET Reqs /\ enqueued[a] = Cardinality(E[a])
    BY <1>t DEF Accounted, EnqueuedAt
  <2>3. \A a, b \in Apis : a # b => E[a] \cap E[b] = {}
    BY DEF EnqueuedAt
  <2>. HIDE DEF E
  <2>. QED BY <2>1, <2>2, <2>3, TotalIsCount
<1>3. MapThenSumSet(LAMBDA a : closed[a], Apis) = Cardinality(All)
  <2>1. Members(D, Apis) = All
    BY <1>t DEF Members, ClosedAt
  <2>2. \A a \in Apis : D[a] \in SUBSET Reqs /\ closed[a] = Cardinality(D[a])
    BY DEF Accounted, ClosedAt
  <2>3. \A a, b \in Apis : a # b => D[a] \cap D[b] = {}
    BY DEF ClosedAt
  <2>. HIDE DEF D, All
  <2>. QED BY <2>1, <2>2, <2>3, TotalIsCount
<1>4. Cardinality({t \in Tickets : ticket[t] = "closed"}) <= Cardinality(All)
  <2>. DEFINE Ids == {call[r].id : r \in All}
              id == [r \in All |-> call[r].id]
  <2>1. IsFiniteSet(All) /\ Cardinality(All) \in Nat
    BY TicketApiAssumption, FS_Subset, FS_CardinalityType
  <2>2. id \in Surjection(All, Ids)
    BY DEF Surjection
  <2>3. {t \in Tickets : ticket[t] = "closed"} \in SUBSET Ids
    BY DEF Accounted
  <2>. HIDE DEF All, Ids, id
  <2>4. IsFiniteSet(Ids) /\ Cardinality(Ids) <= Cardinality(All) /\ Cardinality(Ids) \in Nat
    BY <2>1, <2>2, FS_Surjection, FS_CardinalityType
  <2>5. Cardinality({t \in Tickets : ticket[t] = "closed"}) <= Cardinality(Ids)
        /\ Cardinality({t \in Tickets : ticket[t] = "closed"}) \in Nat
    BY <2>3, <2>4, FS_Subset, FS_CardinalityType
  <2>. QED BY <2>1, <2>4, <2>5
<1>5. Cardinality(All) \in Nat /\ Cardinality({t \in Tickets : ticket[t] = "closed"}) \in Nat
  BY TicketApiAssumption, FS_Subset, FS_CardinalityType DEF Tickets
<1>. HIDE DEF All
<1>. QED BY <1>1, <1>2, <1>3, <1>4, <1>5

-----------------------------------------------------------------------------
(* The inductive invariant holds initially ... *)
LEMMA InvInit == Init => IInv
<1>. SUFFICES ASSUME Init PROVE IInv
  OBVIOUS
<1>1. TypeOK
  BY TicketApiAssumption DEF Init, TypeOK, Tickets, Codes, Actors
<1>2. Provenance /\ Effects /\ OneTransaction /\ Undisturbed /\ AdmittedAudited
  BY DEF Init, Provenance, Effects, OneTransaction, Undisturbed, AdmittedAudited, Early, Tickets
<1>3. Refreshed
  BY TicketApiAssumption DEF Init, Refreshed, Refreshing
<1>4. Accounted
  <2>1. ASSUME NEW a \in Apis
        PROVE  CreatedAt(a) = {} /\ EnqueuedAt(a) = {} /\ ClosedAt(a) = {}
    BY DEF Init, CreatedAt, EnqueuedAt, ClosedAt, HasClosed, NoCall, Tickets
  <2>. QED BY <2>1, FS_EmptySet DEF Init, Accounted, Tickets
<1>. QED BY <1>1, <1>2, <1>3, <1>4 DEF IInv

(* ... and every step keeps it. *)
LEMMA InvStep == IInv /\ [Next]_vars => IInv'
<1>. SUFFICES ASSUME IInv, [Next]_vars PROVE IInv'
  OBVIOUS
<1>. /\ TypeOK /\ Provenance /\ Effects /\ OneTransaction /\ Undisturbed /\ AdmittedAudited
     /\ Refreshed /\ Accounted
  BY DEF IInv
<1>1. TypeOK' BY TypeStep
<1>2. Provenance' BY ProvenanceStep
<1>3. Effects' BY EffectsStep
<1>4. OneTransaction' BY OneTransactionStep
<1>5. Undisturbed' BY UndisturbedStep
<1>6. AdmittedAudited' BY AdmittedAuditedStep
<1>7. Refreshed' BY RefreshedStep
<1>8. Accounted' BY AccountedStep
<1>. QED BY <1>1, <1>2, <1>3, <1>4, <1>5, <1>6, <1>7, <1>8 DEF IInv

(* The inductive invariant holds in every reachable state, for any number  *)
(* of replicas, requests and faults.                                       *)
THEOREM Invariant == Spec => []IInv
<1>. QED BY InvInit, InvStep, PTL DEF Spec

(* Every variable keeps its type. *)
THEOREM TypeCorrect == Spec => []TypeOK
<1>1. IInv => TypeOK BY DEF IInv
<1>. QED BY <1>1, Invariant, PTL

(* CreateTicketAndEnqueue is atomic: no crash, cancellation or lost commit *)
(* reply leaves a high ticket without its job or a job without its ticket. *)
THEOREM TicketAndJob == Spec => []JobWithTicket
<1>1. IInv => JobWithTicket BY DEF IInv, OneTransaction, JobWithTicket
<1>. QED BY <1>1, Invariant, PTL

(* RequireMutate protects both routes: every ticket, every close and every *)
(* audit entry is the work of a request with role operator.                *)
THEOREM OperatorsOnly == Spec => []OnlyOperatorsMutate
<1>1. IInv => OnlyOperatorsMutate
  BY DEF IInv, Provenance, OnlyOperatorsMutate, Tickets
<1>. QED BY <1>1, Invariant, PTL

(* What auditing writes agrees with the tickets table, then and for ever:  *)
(* "ok" is written only for a change that is there.                        *)
THEOREM AuditTrue == Spec => []AuditFaithful
<1>1. IInv => AuditFaithful
  <2>. SUFFICES ASSUME IInv, NEW r \in Reqs
       PROVE  /\ audit[r] = "ok" => Applied(r)
              /\ audit[r] # "none" /\ code[r] \in {"bad", "missing", "failed"}
                    => audit[r] = "error"
    BY DEF AuditFaithful, Applied
  <2>1. audit[r] # "none" => audit[r] = AuditResult(code[r])
    BY DEF IInv, Effects
  <2>2. audit[r] = "ok" => code[r] = "ok"
    BY <2>1 DEF AuditResult
  <2>. QED BY <2>1, <2>2 DEF IInv, Effects, AuditResult
<1>. QED BY <1>1, Invariant, PTL

(* Until the first fault every admitted request leaves its audit entry. *)
THEOREM AuditComplete == Spec => []AdmittedAudited
<1>1. IInv => AdmittedAudited BY DEF IInv
<1>. QED BY <1>1, Invariant, PTL

(* tickets_open at rest: every gauge that the last count reached shows the *)
(* number of open tickets.  Only refreshes that overtook each other, or a  *)
(* replica that was not the last to count, leave it wrong.                 *)
THEOREM GaugeRight == Spec => []GaugeUnlessOvertaken
<1>1. IInv => GaugeUnlessOvertaken
  BY DEF IInv, Refreshed, GaugeUnlessOvertaken, AtRest
<1>. QED BY <1>1, Invariant, PTL

(* tickets_created_total, jobs_enqueued_total and tickets_closed_total,    *)
(* summed over the replicas, account for the rows when all is quiet.       *)
THEOREM CountersRight == Spec => []CountersAccount
<1>1. IInv => CountersAccount
  BY Totals DEF IInv
<1>. QED BY <1>1, Invariant, PTL

(* The UPDATE and the INSERTs of all requests only ever take a ticket from *)
(* absent to open and from open to closed.                                 *)
THEOREM Life == Spec => TicketLife
<1>1. IInv /\ [Next]_vars =>
        [\A t \in Tickets : ticket[t] # ticket'[t] =>
           <<ticket[t], ticket'[t]>> \in {<<"absent", "open">>, <<"open", "closed">>}]_vars
  BY LifeStep DEF IInv
<1>. QED BY <1>1, Invariant, PTL DEF Spec, TicketLife

=============================================================================

-------------------------- MODULE JobWorkerProofs --------------------------
(***************************************************************************)
(* Proofs about JobWorker, for any jobs, workers, attempts and faults.     *)
(*                                                                         *)
(* IInv is inductive.  Each of its conjuncts has a lemma, <Conjunct>Step,  *)
(* with one step per action of Next; InvInit, SafeStep and InvStep put     *)
(* them together, and the safety invariants of JobWorker follow.  The      *)
(* second half shows that every step, under Phase, is a step of JobQueue.  *)
(* What it says of a step assumes no more than Safe, so that RolloutProofs *)
(* can use it where jobs may go unannounced.                               *)
(***************************************************************************)
EXTENDS JobWorker, TLAPS

(* Every step keeps the types. *)
LEMMA TypeStep ==
  ASSUME TypeOK, Holding, RowLocks, [Next]_vars
  PROVE  TypeOK'
<1>. USE JobStoreAssumption, JobWorkerAssumption
        DEF storeVars,
            procVars, history, Goto, TypeOK, StoreTypeOK, Statuses, PCs
<1>u. CASE UNCHANGED vars
  BY <1>u DEF vars
<1>1. ASSUME NEW w \in Workers, Start(w) PROVE TypeOK'
  BY <1>1 DEF Start, Listen
<1>2. ASSUME NEW w \in Workers, ClaimNone(w) PROVE TypeOK'
  BY <1>2 DEF ClaimNone
<1>3. ASSUME NEW w \in Workers, PublishDepth(w) PROVE TypeOK'
  BY <1>3 DEF PublishDepth
<1>4. ASSUME NEW w \in Workers, ClaimError(w) PROVE TypeOK'
  BY <1>4 DEF ClaimError, CallFails, Fault, DrainReturns
<1>5. ASSUME NEW w \in Workers, ClaimSent(w) PROVE TypeOK'
  BY <1>5 DEF ClaimSent, ClaimLock
<1>6. ASSUME NEW w \in Workers, Claimed(w) PROVE TypeOK'
  <2>0. rowLock[w] \in Jobs
    BY <1>6 DEF Claimed, RowLocks
  <2>1. rowLock[w] \in Jobs /\ attempts[rowLock[w]] \in Nat
    BY <2>0
  <2>2. StoreTypeOK'
    BY <1>6, <2>1 DEF Claimed, ClaimCommit
  <2>3. job' \in [Workers -> Jobs \cup {NoJob}] /\ tries' \in [Workers -> Nat]
    BY <1>6, <2>1 DEF Claimed
  <2>. QED BY <1>6, <2>2, <2>3 DEF Claimed
<1>7. ASSUME NEW w \in Workers, ClaimReplyLost(w) PROVE TypeOK'
  <2>0. rowLock[w] \in Jobs
    BY <1>7 DEF ClaimReplyLost, RowLocks
  <2>1. rowLock[w] \in Jobs /\ attempts[rowLock[w]] \in Nat
    BY <2>0
  <2>2. StoreTypeOK'
    BY <1>7, <2>1 DEF ClaimReplyLost, ClaimCommit
  <2>3. budget' \in Nat
    BY <1>7 DEF ClaimReplyLost, CallFails, Fault
  <2>. QED BY <1>7, <2>2, <2>3 DEF ClaimReplyLost, DrainReturns
<1>8. ASSUME NEW w \in Workers, ClaimFails(w) PROVE TypeOK'
  BY <1>8 DEF ClaimFails, CallFails, Fault, ClaimRollback, DrainReturns
<1>9. ASSUME NEW w \in Workers, ExecuteRefuses(w) PROVE TypeOK'
  BY <1>9 DEF ExecuteRefuses, Executed
<1>10. ASSUME NEW w \in Workers, ExecuteFails(w) PROVE TypeOK'
  BY <1>10 DEF ExecuteFails, CallFails, Fault, Executed
<1>11. ASSUME NEW w \in Workers, WebhookStub(w) PROVE TypeOK'
  BY <1>11 DEF WebhookStub, Executed
<1>12. ASSUME NEW w \in Workers, Post(w) PROVE TypeOK'
  <2>0. job[w] \in Jobs
    BY <1>12 DEF Post, Holding
  <2>1. job[w] \in Jobs /\ posts[job[w]] \in Nat
    BY <2>0
  <2>. QED BY <1>12, <2>1 DEF Post
<1>13. ASSUME NEW w \in Workers, PostAccepted(w) PROVE TypeOK'
  <2>1. job[w] \in Jobs
    BY <1>13 DEF PostAccepted, Holding
  <2>. QED BY <1>13, <2>1 DEF PostAccepted, Executed
<1>14. ASSUME NEW w \in Workers, PostFails(w) PROVE TypeOK'
  BY <1>14 DEF PostFails, Executed
<1>15. ASSUME NEW w \in Workers, Settle(w) PROVE TypeOK'
  <2>0. /\ pc[w] = "settle" /\ job[w] \in Jobs
        /\ pc' = [pc EXCEPT ![w] = "claim"] /\ Forget(w)
        /\ UNCHANGED <<token, listener, stopping, budget, posts, acked>>
    BY <1>15 DEF Settle, Holding
  <2>1. CASE outcome[w] = "ok" /\ CompleteJob(job[w])
    BY <2>0, <2>1 DEF Forget, CompleteJob
  <2>2. CASE outcome[w] = "error" /\ tries[w] < MaxAttempts /\ RetryJob(job[w])
    BY <2>0, <2>2 DEF Forget, RetryJob
  <2>3. CASE outcome[w] = "error" /\ tries[w] >= MaxAttempts /\ GiveUpJob(job[w])
    BY <2>0, <2>3 DEF Forget, GiveUpJob
  <2>. QED BY <1>15, <2>1, <2>2, <2>3 DEF Settle, FailJob
<1>16. ASSUME NEW w \in Workers, SettleLost(w) PROVE TypeOK'
  BY <1>16 DEF SettleLost, CallFails, Fault, Forget
<1>17. ASSUME NEW w \in Workers, Wake(w) PROVE TypeOK'
  BY <1>17 DEF Wake
<1>18. ASSUME NEW w \in Workers, Poll(w) PROVE TypeOK'
  BY <1>18 DEF Poll
<1>19. ASSUME NEW w \in Workers, Exit(w) PROVE TypeOK'
  BY <1>19 DEF Exit, ProcessEnds, DropSession, Forget
<1>20. ASSUME NEW w \in Workers, Deliver(w) PROVE TypeOK'
  BY <1>20 DEF Deliver
<1>21. ASSUME NEW w \in Workers, LoseListen(w) PROVE TypeOK'
  BY <1>21 DEF LoseListen, Fault, DropSession
<1>22. ASSUME NEW w \in Workers, Stop(w) PROVE TypeOK'
  BY <1>22 DEF Stop, Fault
<1>23. ASSUME NEW w \in Workers, Crash(w) PROVE TypeOK'
  BY <1>23 DEF Crash, Fault, ProcessEnds, DropSession, Forget
<1>24. ASSUME NEW j \in Jobs, Submit(j) PROVE TypeOK'
  BY <1>24 DEF Submit, Insert
<1>25. ASSUME NEW j \in Jobs, RetryDue(j) PROVE TypeOK'
  BY <1>25 DEF RetryDue, BackoffElapses
<1>. QED
  BY <1>u, <1>1, <1>2, <1>3, <1>4, <1>5, <1>6, <1>7, <1>8, <1>9, <1>10,
     <1>11, <1>12, <1>13, <1>14, <1>15, <1>16, <1>17, <1>18, <1>19, <1>20,
     <1>21, <1>22, <1>23, <1>24, <1>25 DEF Next, Work

(* Every step keeps Holding. *)
LEMMA HoldingStep ==
  ASSUME TypeOK, Holding, RowLocks, [Next]_vars
  PROVE  Holding'
<1>t. /\ status \in [Jobs -> Statuses]
      /\ attempts \in [Jobs -> Nat]
      /\ lockedBy \in [Jobs -> Workers \cup {NoWorker}]
      /\ rowLock \in [Workers -> Jobs \cup {NoJob}]
      /\ pc \in [Workers -> PCs]
      /\ job \in [Workers -> Jobs \cup {NoJob}]
      /\ tries \in [Workers -> Nat]
  BY DEF TypeOK, StoreTypeOK
<1>. USE JobStoreAssumption, JobWorkerAssumption, <1>t
        DEF
            storeVars, procVars, history, Goto, Holding, RowLocks, Due
<1>u. CASE UNCHANGED vars
  BY <1>u DEF vars
<1>1. ASSUME NEW w \in Workers, Start(w) PROVE Holding'
  BY <1>1 DEF Start, Listen
<1>2. ASSUME NEW w \in Workers, ClaimNone(w) PROVE Holding'
  BY <1>2 DEF ClaimNone
<1>3. ASSUME NEW w \in Workers, PublishDepth(w) PROVE Holding'
  BY <1>3 DEF PublishDepth
<1>4. ASSUME NEW w \in Workers, ClaimError(w) PROVE Holding'
  BY <1>4 DEF ClaimError, CallFails, Fault, DrainReturns
<1>5. ASSUME NEW w \in Workers, ClaimSent(w) PROVE Holding'
  BY <1>5 DEF ClaimSent, ClaimLock
<1>6. ASSUME NEW w \in Workers, Claimed(w) PROVE Holding'
  BY <1>6 DEF Claimed, ClaimCommit
<1>7. ASSUME NEW w \in Workers, ClaimReplyLost(w) PROVE Holding'
  BY <1>7 DEF ClaimReplyLost, CallFails, Fault, ClaimCommit, DrainReturns
<1>8. ASSUME NEW w \in Workers, ClaimFails(w) PROVE Holding'
  BY <1>8 DEF ClaimFails, CallFails, Fault, ClaimRollback, DrainReturns
<1>9. ASSUME NEW w \in Workers, ExecuteRefuses(w) PROVE Holding'
  BY <1>9 DEF ExecuteRefuses, Executed
<1>10. ASSUME NEW w \in Workers, ExecuteFails(w) PROVE Holding'
  BY <1>10 DEF ExecuteFails, CallFails, Fault, Executed
<1>11. ASSUME NEW w \in Workers, WebhookStub(w) PROVE Holding'
  BY <1>11 DEF WebhookStub, Executed
<1>12. ASSUME NEW w \in Workers, Post(w) PROVE Holding'
  BY <1>12 DEF Post
<1>13. ASSUME NEW w \in Workers, PostAccepted(w) PROVE Holding'
  BY <1>13 DEF PostAccepted, Executed
<1>14. ASSUME NEW w \in Workers, PostFails(w) PROVE Holding'
  BY <1>14 DEF PostFails, Executed
<1>15. ASSUME NEW w \in Workers, Settle(w) PROVE Holding'
  <2>0. /\ pc[w] = "settle" /\ job[w] \in Jobs
        /\ pc' = [pc EXCEPT ![w] = "claim"] /\ Forget(w)
        /\ UNCHANGED <<token, listener, stopping, budget, posts, acked>>
    BY <1>15 DEF Settle
  <2>1. CASE outcome[w] = "ok" /\ CompleteJob(job[w])
    BY <2>0, <2>1 DEF Forget, CompleteJob
  <2>2. CASE outcome[w] = "error" /\ tries[w] < MaxAttempts /\ RetryJob(job[w])
    BY <2>0, <2>2 DEF Forget, RetryJob
  <2>3. CASE outcome[w] = "error" /\ tries[w] >= MaxAttempts /\ GiveUpJob(job[w])
    BY <2>0, <2>3 DEF Forget, GiveUpJob
  <2>. QED BY <1>15, <2>1, <2>2, <2>3 DEF Settle, FailJob
<1>16. ASSUME NEW w \in Workers, SettleLost(w) PROVE Holding'
  BY <1>16 DEF SettleLost, CallFails, Fault, Forget
<1>17. ASSUME NEW w \in Workers, Wake(w) PROVE Holding'
  BY <1>17 DEF Wake
<1>18. ASSUME NEW w \in Workers, Poll(w) PROVE Holding'
  BY <1>18 DEF Poll
<1>19. ASSUME NEW w \in Workers, Exit(w) PROVE Holding'
  BY <1>19 DEF Exit, ProcessEnds, DropSession, Forget
<1>20. ASSUME NEW w \in Workers, Deliver(w) PROVE Holding'
  BY <1>20 DEF Deliver
<1>21. ASSUME NEW w \in Workers, LoseListen(w) PROVE Holding'
  BY <1>21 DEF LoseListen, Fault, DropSession
<1>22. ASSUME NEW w \in Workers, Stop(w) PROVE Holding'
  BY <1>22 DEF Stop, Fault
<1>23. ASSUME NEW w \in Workers, Crash(w) PROVE Holding'
  BY <1>23 DEF Crash, Fault, ProcessEnds, DropSession, Forget
<1>24. ASSUME NEW j \in Jobs, Submit(j) PROVE Holding'
  BY <1>24 DEF Submit, Insert
<1>25. ASSUME NEW j \in Jobs, RetryDue(j) PROVE Holding'
  BY <1>25 DEF RetryDue, BackoffElapses
<1>. QED
  BY <1>u, <1>1, <1>2, <1>3, <1>4, <1>5, <1>6, <1>7, <1>8, <1>9, <1>10,
     <1>11, <1>12, <1>13, <1>14, <1>15, <1>16, <1>17, <1>18, <1>19, <1>20,
     <1>21, <1>22, <1>23, <1>24, <1>25 DEF Next, Work

(* Every step keeps RowLocks. *)
LEMMA RowLocksStep ==
  ASSUME TypeOK, Holding, RowLocks, [Next]_vars
  PROVE  RowLocks'
<1>t. /\ status \in [Jobs -> Statuses]
      /\ delayed \in [Jobs -> BOOLEAN]
      /\ rowLock \in [Workers -> Jobs \cup {NoJob}]
      /\ pc \in [Workers -> PCs]
      /\ job \in [Workers -> Jobs \cup {NoJob}]
  BY DEF TypeOK, StoreTypeOK
<1>. USE JobStoreAssumption, JobWorkerAssumption, <1>t
        DEF
            storeVars, procVars, history, Goto, Holding, RowLocks, Due,
            Candidate, Locked
<1>u. CASE UNCHANGED vars
  BY <1>u DEF vars
<1>1. ASSUME NEW w \in Workers, Start(w) PROVE RowLocks'
  BY <1>1 DEF Start, Listen
<1>2. ASSUME NEW w \in Workers, ClaimNone(w) PROVE RowLocks'
  BY <1>2 DEF ClaimNone
<1>3. ASSUME NEW w \in Workers, PublishDepth(w) PROVE RowLocks'
  BY <1>3 DEF PublishDepth
<1>4. ASSUME NEW w \in Workers, ClaimError(w) PROVE RowLocks'
  BY <1>4 DEF ClaimError, CallFails, Fault, DrainReturns
<1>5. ASSUME NEW w \in Workers, ClaimSent(w) PROVE RowLocks'
  BY <1>5 DEF ClaimSent, ClaimLock
<1>6. ASSUME NEW w \in Workers, Claimed(w) PROVE RowLocks'
  BY <1>6 DEF Claimed, ClaimCommit
<1>7. ASSUME NEW w \in Workers, ClaimReplyLost(w) PROVE RowLocks'
  BY <1>7 DEF ClaimReplyLost, CallFails, Fault, ClaimCommit, DrainReturns
<1>8. ASSUME NEW w \in Workers, ClaimFails(w) PROVE RowLocks'
  BY <1>8 DEF ClaimFails, CallFails, Fault, ClaimRollback, DrainReturns
<1>9. ASSUME NEW w \in Workers, ExecuteRefuses(w) PROVE RowLocks'
  BY <1>9 DEF ExecuteRefuses, Executed
<1>10. ASSUME NEW w \in Workers, ExecuteFails(w) PROVE RowLocks'
  BY <1>10 DEF ExecuteFails, CallFails, Fault, Executed
<1>11. ASSUME NEW w \in Workers, WebhookStub(w) PROVE RowLocks'
  BY <1>11 DEF WebhookStub, Executed
<1>12. ASSUME NEW w \in Workers, Post(w) PROVE RowLocks'
  BY <1>12 DEF Post
<1>13. ASSUME NEW w \in Workers, PostAccepted(w) PROVE RowLocks'
  BY <1>13 DEF PostAccepted, Executed
<1>14. ASSUME NEW w \in Workers, PostFails(w) PROVE RowLocks'
  BY <1>14 DEF PostFails, Executed
<1>15. ASSUME NEW w \in Workers, Settle(w) PROVE RowLocks'
  <2>0. /\ pc[w] = "settle" /\ job[w] \in Jobs
        /\ pc' = [pc EXCEPT ![w] = "claim"] /\ Forget(w)
        /\ UNCHANGED <<token, listener, stopping, budget, posts, acked>>
    BY <1>15 DEF Settle
  <2>1. CASE outcome[w] = "ok" /\ CompleteJob(job[w])
    BY <2>0, <2>1 DEF Forget, CompleteJob
  <2>2. CASE outcome[w] = "error" /\ tries[w] < MaxAttempts /\ RetryJob(job[w])
    BY <2>0, <2>2 DEF Forget, RetryJob
  <2>3. CASE outcome[w] = "error" /\ tries[w] >= MaxAttempts /\ GiveUpJob(job[w])
    BY <2>0, <2>3 DEF Forget, GiveUpJob
  <2>. QED BY <1>15, <2>1, <2>2, <2>3 DEF Settle, FailJob
<1>16. ASSUME NEW w \in Workers, SettleLost(w) PROVE RowLocks'
  BY <1>16 DEF SettleLost, CallFails, Fault, Forget
<1>17. ASSUME NEW w \in Workers, Wake(w) PROVE RowLocks'
  BY <1>17 DEF Wake
<1>18. ASSUME NEW w \in Workers, Poll(w) PROVE RowLocks'
  BY <1>18 DEF Poll
<1>19. ASSUME NEW w \in Workers, Exit(w) PROVE RowLocks'
  BY <1>19 DEF Exit, ProcessEnds, DropSession, Forget
<1>20. ASSUME NEW w \in Workers, Deliver(w) PROVE RowLocks'
  BY <1>20 DEF Deliver
<1>21. ASSUME NEW w \in Workers, LoseListen(w) PROVE RowLocks'
  BY <1>21 DEF LoseListen, Fault, DropSession
<1>22. ASSUME NEW w \in Workers, Stop(w) PROVE RowLocks'
  BY <1>22 DEF Stop, Fault
<1>23. ASSUME NEW w \in Workers, Crash(w) PROVE RowLocks'
  BY <1>23 DEF Crash, Fault, ProcessEnds, DropSession, Forget
<1>24. ASSUME NEW j \in Jobs, Submit(j) PROVE RowLocks'
  BY <1>24 DEF Submit, Insert
<1>25. ASSUME NEW j \in Jobs, RetryDue(j) PROVE RowLocks'
  BY <1>25 DEF RetryDue, BackoffElapses
<1>. QED
  BY <1>u, <1>1, <1>2, <1>3, <1>4, <1>5, <1>6, <1>7, <1>8, <1>9, <1>10,
     <1>11, <1>12, <1>13, <1>14, <1>15, <1>16, <1>17, <1>18, <1>19, <1>20,
     <1>21, <1>22, <1>23, <1>24, <1>25 DEF Next, Work

(* Every step keeps Counts. *)
LEMMA CountsStep ==
  ASSUME TypeOK, Holding, RowLocks, Counts, [Next]_vars
  PROVE  Counts'
<1>t. /\ status \in [Jobs -> Statuses]
      /\ attempts \in [Jobs -> Nat]
      /\ delayed \in [Jobs -> BOOLEAN]
      /\ rowLock \in [Workers -> Jobs \cup {NoJob}]
      /\ pc \in [Workers -> PCs]
      /\ job \in [Workers -> Jobs \cup {NoJob}]
      /\ tries \in [Workers -> Nat]
      /\ posts \in [Jobs -> Nat]
  BY DEF TypeOK, StoreTypeOK
<1>n. \A j \in Jobs : attempts[j] \in Nat /\ posts[j] \in Nat
  BY <1>t
<1>. USE JobStoreAssumption, JobWorkerAssumption, <1>t
        DEF
            storeVars, procVars, history, Goto, Holding, RowLocks, Due,
            Counts
<1>u. CASE UNCHANGED vars
  BY <1>u DEF vars
<1>1. ASSUME NEW w \in Workers, Start(w) PROVE Counts'
  BY <1>1 DEF Start, Listen
<1>2. ASSUME NEW w \in Workers, ClaimNone(w) PROVE Counts'
  BY <1>2 DEF ClaimNone
<1>3. ASSUME NEW w \in Workers, PublishDepth(w) PROVE Counts'
  BY <1>3 DEF PublishDepth
<1>4. ASSUME NEW w \in Workers, ClaimError(w) PROVE Counts'
  BY <1>4 DEF ClaimError, CallFails, Fault, DrainReturns
<1>5. ASSUME NEW w \in Workers, ClaimSent(w) PROVE Counts'
  BY <1>5 DEF ClaimSent, ClaimLock
<1>6. ASSUME NEW w \in Workers, Claimed(w) PROVE Counts'
  <2>1. /\ rowLock[w] \in Jobs /\ status[rowLock[w]] = "pending"
        /\ pc[w] = "claiming" /\ posts' = posts /\ delayed' = delayed
        /\ status' = [status EXCEPT ![rowLock[w]] = "running"]
        /\ attempts' = [attempts EXCEPT ![rowLock[w]] = @ + 1]
        /\ job' = [job EXCEPT ![w] = rowLock[w]]
        /\ pc' = [pc EXCEPT ![w] = "run"]
    BY <1>6 DEF Claimed, ClaimCommit
  <2>2. \A v \in Workers : pc[v] = "run" => job[v] \in Jobs /\ job[v] # rowLock[w]
    BY <2>1
  <2>3. ASSUME NEW v \in Workers, pc'[v] = "run"
        PROVE  posts'[job'[v]] < attempts'[job'[v]]
    <3>0. posts[rowLock[w]] \in Nat /\ attempts[rowLock[w]] \in Nat
      BY <2>1, <1>n
    <3>1. CASE v = w
      <4>1. job'[v] = rowLock[w] /\ attempts'[rowLock[w]] = attempts[rowLock[w]] + 1
        BY <2>1, <3>1
      <4>2. posts[rowLock[w]] <= attempts[rowLock[w]]
        BY <2>1
      <4>. QED BY <2>1, <3>0, <4>1, <4>2
    <3>2. CASE v # w
      BY <2>1, <2>2, <2>3, <3>2
    <3>. QED BY <3>1, <3>2
  <2>4. \A v \in Workers : pc'[v] = "posted" => posts'[job'[v]] > 0
    BY <2>1
  <2>. QED BY <2>1, <2>3, <2>4
<1>7. ASSUME NEW w \in Workers, ClaimReplyLost(w) PROVE Counts'
  BY <1>7 DEF ClaimReplyLost, CallFails, Fault, ClaimCommit, DrainReturns
<1>8. ASSUME NEW w \in Workers, ClaimFails(w) PROVE Counts'
  BY <1>8 DEF ClaimFails, CallFails, Fault, ClaimRollback, DrainReturns
<1>9. ASSUME NEW w \in Workers, ExecuteRefuses(w) PROVE Counts'
  BY <1>9 DEF ExecuteRefuses, Executed
<1>10. ASSUME NEW w \in Workers, ExecuteFails(w) PROVE Counts'
  BY <1>10 DEF ExecuteFails, CallFails, Fault, Executed
<1>11. ASSUME NEW w \in Workers, WebhookStub(w) PROVE Counts'
  BY <1>11 DEF WebhookStub, Executed
<1>12. ASSUME NEW w \in Workers, Post(w) PROVE Counts'
  <2>1. /\ job[w] \in Jobs /\ pc[w] = "run"
        /\ posts' = [posts EXCEPT ![job[w]] = @ + 1]
        /\ pc' = [pc EXCEPT ![w] = "posted"]
        /\ UNCHANGED <<status, attempts, delayed, job, lockedBy>>
    BY <1>12 DEF Post
  <2>2. \A v \in Workers : v # w /\ job[v] # NoJob => job[v] # job[w]
    BY <2>1
  <2>3. \A j \in Jobs : posts'[j] <= attempts[j]
    BY <2>1
  <2>4. \A v \in Workers : pc'[v] = "run" => posts'[job[v]] < attempts[job[v]]
    BY <2>1, <2>2
  <2>5. ASSUME NEW v \in Workers, pc'[v] = "posted"
        PROVE  posts'[job[v]] > 0
    <3>1. CASE v = w
      <4>1. posts[job[w]] \in Nat
        BY <2>1, <1>n
      <4>2. posts'[job[v]] = posts[job[w]] + 1
        BY <2>1, <3>1
      <4>. QED BY <4>1, <4>2
    <3>2. CASE v # w
      BY <2>1, <2>2, <2>5, <3>2
    <3>. QED BY <3>1, <3>2
  <2>. QED BY <2>1, <2>3, <2>4, <2>5
<1>13. ASSUME NEW w \in Workers, PostAccepted(w) PROVE Counts'
  BY <1>13 DEF PostAccepted, Executed
<1>14. ASSUME NEW w \in Workers, PostFails(w) PROVE Counts'
  BY <1>14 DEF PostFails, Executed
<1>15. ASSUME NEW w \in Workers, Settle(w) PROVE Counts'
  <2>0. /\ pc[w] = "settle" /\ job[w] \in Jobs
        /\ pc' = [pc EXCEPT ![w] = "claim"] /\ Forget(w)
        /\ UNCHANGED <<token, listener, stopping, budget, posts, acked>>
    BY <1>15 DEF Settle
  <2>1. CASE outcome[w] = "ok" /\ CompleteJob(job[w])
    BY <2>0, <2>1 DEF Forget, CompleteJob
  <2>2. CASE outcome[w] = "error" /\ tries[w] < MaxAttempts /\ RetryJob(job[w])
    BY <2>0, <2>2 DEF Forget, RetryJob
  <2>3. CASE outcome[w] = "error" /\ tries[w] >= MaxAttempts /\ GiveUpJob(job[w])
    BY <2>0, <2>3 DEF Forget, GiveUpJob
  <2>. QED BY <1>15, <2>1, <2>2, <2>3 DEF Settle, FailJob
<1>16. ASSUME NEW w \in Workers, SettleLost(w) PROVE Counts'
  BY <1>16 DEF SettleLost, CallFails, Fault, Forget
<1>17. ASSUME NEW w \in Workers, Wake(w) PROVE Counts'
  BY <1>17 DEF Wake
<1>18. ASSUME NEW w \in Workers, Poll(w) PROVE Counts'
  BY <1>18 DEF Poll
<1>19. ASSUME NEW w \in Workers, Exit(w) PROVE Counts'
  BY <1>19 DEF Exit, ProcessEnds, DropSession, Forget
<1>20. ASSUME NEW w \in Workers, Deliver(w) PROVE Counts'
  BY <1>20 DEF Deliver
<1>21. ASSUME NEW w \in Workers, LoseListen(w) PROVE Counts'
  BY <1>21 DEF LoseListen, Fault, DropSession
<1>22. ASSUME NEW w \in Workers, Stop(w) PROVE Counts'
  BY <1>22 DEF Stop, Fault
<1>23. ASSUME NEW w \in Workers, Crash(w) PROVE Counts'
  BY <1>23 DEF Crash, Fault, ProcessEnds, DropSession, Forget
<1>24. ASSUME NEW j \in Jobs, Submit(j) PROVE Counts'
  BY <1>24 DEF Submit, Insert
<1>25. ASSUME NEW j \in Jobs, RetryDue(j) PROVE Counts'
  BY <1>25 DEF RetryDue, BackoffElapses
<1>. QED
  BY <1>u, <1>1, <1>2, <1>3, <1>4, <1>5, <1>6, <1>7, <1>8, <1>9, <1>10,
     <1>11, <1>12, <1>13, <1>14, <1>15, <1>16, <1>17, <1>18, <1>19, <1>20,
     <1>21, <1>22, <1>23, <1>24, <1>25 DEF Next, Work

(* Every step keeps Acks. *)
LEMMA AcksStep ==
  ASSUME TypeOK, Holding, RowLocks, Acks, [Next]_vars
  PROVE  Acks'
<1>t. /\ status \in [Jobs -> Statuses]
      /\ rowLock \in [Workers -> Jobs \cup {NoJob}]
      /\ lockedBy \in [Jobs -> Workers \cup {NoWorker}]
      /\ pc \in [Workers -> PCs]
      /\ job \in [Workers -> Jobs \cup {NoJob}]
      /\ outcome \in [Workers -> {"ok", "error"}]
  BY DEF TypeOK, StoreTypeOK
<1>. USE JobStoreAssumption, JobWorkerAssumption, <1>t
        DEF
            storeVars, procVars, history, Goto, Holding, RowLocks, Due,
            Acks, AckedNeverRetried, DoneMeansDelivered
<1>u. CASE UNCHANGED vars
  BY <1>u DEF vars
<1>1. ASSUME NEW w \in Workers, Start(w) PROVE Acks'
  BY <1>1 DEF Start, Listen
<1>2. ASSUME NEW w \in Workers, ClaimNone(w) PROVE Acks'
  BY <1>2 DEF ClaimNone
<1>3. ASSUME NEW w \in Workers, PublishDepth(w) PROVE Acks'
  BY <1>3 DEF PublishDepth
<1>4. ASSUME NEW w \in Workers, ClaimError(w) PROVE Acks'
  BY <1>4 DEF ClaimError, CallFails, Fault, DrainReturns
<1>5. ASSUME NEW w \in Workers, ClaimSent(w) PROVE Acks'
  BY <1>5 DEF ClaimSent, ClaimLock
<1>6. ASSUME NEW w \in Workers, Claimed(w) PROVE Acks'
  BY <1>6 DEF Claimed, ClaimCommit
<1>7. ASSUME NEW w \in Workers, ClaimReplyLost(w) PROVE Acks'
  BY <1>7 DEF ClaimReplyLost, CallFails, Fault, ClaimCommit, DrainReturns
<1>8. ASSUME NEW w \in Workers, ClaimFails(w) PROVE Acks'
  BY <1>8 DEF ClaimFails, CallFails, Fault, ClaimRollback, DrainReturns
<1>9. ASSUME NEW w \in Workers, ExecuteRefuses(w) PROVE Acks'
  BY <1>9 DEF ExecuteRefuses, Executed
<1>10. ASSUME NEW w \in Workers, ExecuteFails(w) PROVE Acks'
  BY <1>10 DEF ExecuteFails, CallFails, Fault, Executed
<1>11. ASSUME NEW w \in Workers, WebhookStub(w) PROVE Acks'
  BY <1>11 DEF WebhookStub, Executed
<1>12. ASSUME NEW w \in Workers, Post(w) PROVE Acks'
  BY <1>12 DEF Post
<1>13. ASSUME NEW w \in Workers, PostAccepted(w) PROVE Acks'
  BY <1>13 DEF PostAccepted, Executed
<1>14. ASSUME NEW w \in Workers, PostFails(w) PROVE Acks'
  BY <1>14 DEF PostFails, Executed
<1>15. ASSUME NEW w \in Workers, Settle(w) PROVE Acks'
  <2>0. /\ pc[w] = "settle" /\ job[w] \in Jobs
        /\ pc' = [pc EXCEPT ![w] = "claim"] /\ Forget(w)
        /\ UNCHANGED <<token, listener, stopping, budget, posts, acked>>
    BY <1>15 DEF Settle
  <2>1. CASE outcome[w] = "ok" /\ CompleteJob(job[w])
    BY <2>0, <2>1 DEF Forget, CompleteJob
  <2>2. CASE outcome[w] = "error" /\ tries[w] < MaxAttempts /\ RetryJob(job[w])
    BY <2>0, <2>2 DEF Forget, RetryJob
  <2>3. CASE outcome[w] = "error" /\ tries[w] >= MaxAttempts /\ GiveUpJob(job[w])
    BY <2>0, <2>3 DEF Forget, GiveUpJob
  <2>. QED BY <1>15, <2>1, <2>2, <2>3 DEF Settle, FailJob
<1>16. ASSUME NEW w \in Workers, SettleLost(w) PROVE Acks'
  BY <1>16 DEF SettleLost, CallFails, Fault, Forget
<1>17. ASSUME NEW w \in Workers, Wake(w) PROVE Acks'
  BY <1>17 DEF Wake
<1>18. ASSUME NEW w \in Workers, Poll(w) PROVE Acks'
  BY <1>18 DEF Poll
<1>19. ASSUME NEW w \in Workers, Exit(w) PROVE Acks'
  BY <1>19 DEF Exit, ProcessEnds, DropSession, Forget
<1>20. ASSUME NEW w \in Workers, Deliver(w) PROVE Acks'
  BY <1>20 DEF Deliver
<1>21. ASSUME NEW w \in Workers, LoseListen(w) PROVE Acks'
  BY <1>21 DEF LoseListen, Fault, DropSession
<1>22. ASSUME NEW w \in Workers, Stop(w) PROVE Acks'
  BY <1>22 DEF Stop, Fault
<1>23. ASSUME NEW w \in Workers, Crash(w) PROVE Acks'
  BY <1>23 DEF Crash, Fault, ProcessEnds, DropSession, Forget
<1>24. ASSUME NEW j \in Jobs, Submit(j) PROVE Acks'
  BY <1>24 DEF Submit, Insert
<1>25. ASSUME NEW j \in Jobs, RetryDue(j) PROVE Acks'
  BY <1>25 DEF RetryDue, BackoffElapses
<1>. QED
  BY <1>u, <1>1, <1>2, <1>3, <1>4, <1>5, <1>6, <1>7, <1>8, <1>9, <1>10,
     <1>11, <1>12, <1>13, <1>14, <1>15, <1>16, <1>17, <1>18, <1>19, <1>20,
     <1>21, <1>22, <1>23, <1>24, <1>25 DEF Next, Work

(* Every step keeps Undisturbed. *)
LEMMA UndisturbedStep ==
  ASSUME TypeOK, Undisturbed, [Next]_vars
  PROVE  Undisturbed'
<1>t. /\ pc \in [Workers -> PCs]
      /\ budget \in Nat
  BY DEF TypeOK, StoreTypeOK
<1>. USE JobStoreAssumption, JobWorkerAssumption, <1>t
        DEF
            storeVars, procVars, history, Goto, Undisturbed
<1>u. CASE UNCHANGED vars
  BY <1>u DEF vars
<1>1. ASSUME NEW w \in Workers, Start(w) PROVE Undisturbed'
  BY <1>1 DEF Start, Listen
<1>2. ASSUME NEW w \in Workers, ClaimNone(w) PROVE Undisturbed'
  BY <1>2 DEF ClaimNone
<1>3. ASSUME NEW w \in Workers, PublishDepth(w) PROVE Undisturbed'
  BY <1>3 DEF PublishDepth
<1>4. ASSUME NEW w \in Workers, ClaimError(w) PROVE Undisturbed'
  BY <1>4 DEF ClaimError, CallFails, Fault, DrainReturns
<1>5. ASSUME NEW w \in Workers, ClaimSent(w) PROVE Undisturbed'
  BY <1>5 DEF ClaimSent, ClaimLock
<1>6. ASSUME NEW w \in Workers, Claimed(w) PROVE Undisturbed'
  BY <1>6 DEF Claimed, ClaimCommit
<1>7. ASSUME NEW w \in Workers, ClaimReplyLost(w) PROVE Undisturbed'
  BY <1>7 DEF ClaimReplyLost, CallFails, Fault, ClaimCommit, DrainReturns
<1>8. ASSUME NEW w \in Workers, ClaimFails(w) PROVE Undisturbed'
  BY <1>8 DEF ClaimFails, CallFails, Fault, ClaimRollback, DrainReturns
<1>9. ASSUME NEW w \in Workers, ExecuteRefuses(w) PROVE Undisturbed'
  BY <1>9 DEF ExecuteRefuses, Executed
<1>10. ASSUME NEW w \in Workers, ExecuteFails(w) PROVE Undisturbed'
  BY <1>10 DEF ExecuteFails, CallFails, Fault, Executed
<1>11. ASSUME NEW w \in Workers, WebhookStub(w) PROVE Undisturbed'
  BY <1>11 DEF WebhookStub, Executed
<1>12. ASSUME NEW w \in Workers, Post(w) PROVE Undisturbed'
  BY <1>12 DEF Post
<1>13. ASSUME NEW w \in Workers, PostAccepted(w) PROVE Undisturbed'
  BY <1>13 DEF PostAccepted, Executed
<1>14. ASSUME NEW w \in Workers, PostFails(w) PROVE Undisturbed'
  BY <1>14 DEF PostFails, Executed
<1>15. ASSUME NEW w \in Workers, Settle(w) PROVE Undisturbed'
  BY <1>15 DEF Settle, Forget, CompleteJob, FailJob, RetryJob, GiveUpJob
<1>16. ASSUME NEW w \in Workers, SettleLost(w) PROVE Undisturbed'
  BY <1>16 DEF SettleLost, CallFails, Fault, Forget
<1>17. ASSUME NEW w \in Workers, Wake(w) PROVE Undisturbed'
  BY <1>17 DEF Wake
<1>18. ASSUME NEW w \in Workers, Poll(w) PROVE Undisturbed'
  BY <1>18 DEF Poll
<1>19. ASSUME NEW w \in Workers, Exit(w) PROVE Undisturbed'
  BY <1>19 DEF Exit, ProcessEnds, DropSession, Forget
<1>20. ASSUME NEW w \in Workers, Deliver(w) PROVE Undisturbed'
  BY <1>20 DEF Deliver
<1>21. ASSUME NEW w \in Workers, LoseListen(w) PROVE Undisturbed'
  BY <1>21 DEF LoseListen, Fault, DropSession
<1>22. ASSUME NEW w \in Workers, Stop(w) PROVE Undisturbed'
  BY <1>22 DEF Stop, Fault
<1>23. ASSUME NEW w \in Workers, Crash(w) PROVE Undisturbed'
  BY <1>23 DEF Crash, Fault, ProcessEnds, DropSession, Forget
<1>24. ASSUME NEW j \in Jobs, Submit(j) PROVE Undisturbed'
  BY <1>24 DEF Submit, Insert
<1>25. ASSUME NEW j \in Jobs, RetryDue(j) PROVE Undisturbed'
  BY <1>25 DEF RetryDue, BackoffElapses
<1>. QED
  BY <1>u, <1>1, <1>2, <1>3, <1>4, <1>5, <1>6, <1>7, <1>8, <1>9, <1>10,
     <1>11, <1>12, <1>13, <1>14, <1>15, <1>16, <1>17, <1>18, <1>19, <1>20,
     <1>21, <1>22, <1>23, <1>24, <1>25 DEF Next, Work

(* A step that is no fault leaves no worker asleep on a job that nobody    *)
(* has tried.                                                              *)
LEMMA WokenStep ==
  ASSUME TypeOK, Holding, RowLocks, Counts, Undisturbed, [Next]_vars,
         NEW v \in Workers, NEW k \in Jobs, budget' = MaxFaults,
         budget = MaxFaults => Woken(v, k)
  PROVE  Woken(v, k)'
<1>t. /\ status \in [Jobs -> Statuses]
      /\ attempts \in [Jobs -> Nat]
      /\ delayed \in [Jobs -> BOOLEAN]
      /\ rowLock \in [Workers -> Jobs \cup {NoJob}]
      /\ inbox \in [Workers -> Nat]
      /\ pc \in [Workers -> PCs]
      /\ job \in [Workers -> Jobs \cup {NoJob}]
      /\ token \in [Workers -> BOOLEAN]
      /\ budget \in Nat
  BY DEF TypeOK, StoreTypeOK
<1>s. SUFFICES ASSUME pc'[v] \in {"depth", "select"},
                     status'[k] = "pending", attempts'[k] = 0
               PROVE token'[v] \/ inbox'[v] > 0 \/ Locked(k)'
  BY DEF Woken
<1>. USE JobStoreAssumption, JobWorkerAssumption, <1>t, <1>s
        DEF
            storeVars, procVars, history, Goto, Holding, RowLocks, Due,
            Counts, Undisturbed, Woken, Candidate, Locked
<1>u. CASE UNCHANGED vars
  BY <1>u DEF vars
<1>1. ASSUME NEW w \in Workers, Start(w) PROVE token'[v] \/ inbox'[v] > 0 \/ Locked(k)'
  BY <1>1 DEF Start, Listen
<1>2. ASSUME NEW w \in Workers, ClaimNone(w) PROVE token'[v] \/ inbox'[v] > 0 \/ Locked(k)'
  BY <1>2 DEF ClaimNone
<1>3. ASSUME NEW w \in Workers, PublishDepth(w) PROVE token'[v] \/ inbox'[v] > 0 \/ Locked(k)'
  BY <1>3 DEF PublishDepth
<1>4. ASSUME NEW w \in Workers, ClaimError(w) PROVE token'[v] \/ inbox'[v] > 0 \/ Locked(k)'
  BY <1>4 DEF ClaimError, CallFails, Fault, DrainReturns
<1>5. ASSUME NEW w \in Workers, ClaimSent(w) PROVE token'[v] \/ inbox'[v] > 0 \/ Locked(k)'
  BY <1>5 DEF ClaimSent, ClaimLock
<1>6. ASSUME NEW w \in Workers, Claimed(w) PROVE token'[v] \/ inbox'[v] > 0 \/ Locked(k)'
  BY <1>6 DEF Claimed, ClaimCommit
<1>7. ASSUME NEW w \in Workers, ClaimReplyLost(w) PROVE token'[v] \/ inbox'[v] > 0 \/ Locked(k)'
  BY <1>7 DEF ClaimReplyLost, CallFails, Fault, ClaimCommit, DrainReturns
<1>8. ASSUME NEW w \in Workers, ClaimFails(w) PROVE token'[v] \/ inbox'[v] > 0 \/ Locked(k)'
  BY <1>8 DEF ClaimFails, CallFails, Fault, ClaimRollback, DrainReturns
<1>9. ASSUME NEW w \in Workers, ExecuteRefuses(w) PROVE token'[v] \/ inbox'[v] > 0 \/ Locked(k)'
  BY <1>9 DEF ExecuteRefuses, Executed
<1>10. ASSUME NEW w \in Workers, ExecuteFails(w) PROVE token'[v] \/ inbox'[v] > 0 \/ Locked(k)'
  BY <1>10 DEF ExecuteFails, CallFails, Fault, Executed
<1>11. ASSUME NEW w \in Workers, WebhookStub(w) PROVE token'[v] \/ inbox'[v] > 0 \/ Locked(k)'
  BY <1>11 DEF WebhookStub, Executed
<1>12. ASSUME NEW w \in Workers, Post(w) PROVE token'[v] \/ inbox'[v] > 0 \/ Locked(k)'
  BY <1>12 DEF Post
<1>13. ASSUME NEW w \in Workers, PostAccepted(w) PROVE token'[v] \/ inbox'[v] > 0 \/ Locked(k)'
  BY <1>13 DEF PostAccepted, Executed
<1>14. ASSUME NEW w \in Workers, PostFails(w) PROVE token'[v] \/ inbox'[v] > 0 \/ Locked(k)'
  BY <1>14 DEF PostFails, Executed
<1>15. ASSUME NEW w \in Workers, Settle(w) PROVE token'[v] \/ inbox'[v] > 0 \/ Locked(k)'
  <2>0. /\ pc[w] = "settle" /\ job[w] \in Jobs
        /\ pc' = [pc EXCEPT ![w] = "claim"] /\ Forget(w)
        /\ UNCHANGED <<token, listener, stopping, budget, posts, acked>>
    BY <1>15 DEF Settle
  <2>1. CASE outcome[w] = "ok" /\ CompleteJob(job[w])
    BY <2>0, <2>1 DEF Forget, CompleteJob
  <2>2. CASE outcome[w] = "error" /\ tries[w] < MaxAttempts /\ RetryJob(job[w])
    BY <2>0, <2>2 DEF Forget, RetryJob
  <2>3. CASE outcome[w] = "error" /\ tries[w] >= MaxAttempts /\ GiveUpJob(job[w])
    BY <2>0, <2>3 DEF Forget, GiveUpJob
  <2>. QED BY <1>15, <2>1, <2>2, <2>3 DEF Settle, FailJob
<1>16. ASSUME NEW w \in Workers, SettleLost(w) PROVE token'[v] \/ inbox'[v] > 0 \/ Locked(k)'
  BY <1>16 DEF SettleLost, CallFails, Fault, Forget
<1>17. ASSUME NEW w \in Workers, Wake(w) PROVE token'[v] \/ inbox'[v] > 0 \/ Locked(k)'
  BY <1>17 DEF Wake
<1>18. ASSUME NEW w \in Workers, Poll(w) PROVE token'[v] \/ inbox'[v] > 0 \/ Locked(k)'
  BY <1>18 DEF Poll
<1>19. ASSUME NEW w \in Workers, Exit(w) PROVE token'[v] \/ inbox'[v] > 0 \/ Locked(k)'
  BY <1>19 DEF Exit, ProcessEnds, DropSession, Forget
<1>20. ASSUME NEW w \in Workers, Deliver(w) PROVE token'[v] \/ inbox'[v] > 0 \/ Locked(k)'
  BY <1>20 DEF Deliver
<1>21. ASSUME NEW w \in Workers, LoseListen(w) PROVE token'[v] \/ inbox'[v] > 0 \/ Locked(k)'
  BY <1>21 DEF LoseListen, Fault, DropSession
<1>22. ASSUME NEW w \in Workers, Stop(w) PROVE token'[v] \/ inbox'[v] > 0 \/ Locked(k)'
  BY <1>22 DEF Stop, Fault
<1>23. ASSUME NEW w \in Workers, Crash(w) PROVE token'[v] \/ inbox'[v] > 0 \/ Locked(k)'
  BY <1>23 DEF Crash, Fault, ProcessEnds, DropSession, Forget
<1>24. ASSUME NEW j \in Jobs, Submit(j) PROVE token'[v] \/ inbox'[v] > 0 \/ Locked(k)'
  BY <1>24 DEF Submit, Insert
<1>25. ASSUME NEW j \in Jobs, RetryDue(j) PROVE token'[v] \/ inbox'[v] > 0 \/ Locked(k)'
  BY <1>25 DEF RetryDue, BackoffElapses
<1>. QED
  BY <1>u, <1>1, <1>2, <1>3, <1>4, <1>5, <1>6, <1>7, <1>8, <1>9, <1>10,
     <1>11, <1>12, <1>13, <1>14, <1>15, <1>16, <1>17, <1>18, <1>19, <1>20,
     <1>21, <1>22, <1>23, <1>24, <1>25 DEF Next, Work

(* What the initial state gives, and the theorems of the specification. *)
LEMMA InvInit == Init => IInv
BY JobStoreAssumption, JobWorkerAssumption
   DEF Init, StoreInit, IInv, Safe, TypeOK, StoreTypeOK, Statuses, PCs, Holding,
       RowLocks, Counts, Acks, AckedNeverRetried, DoneMeansDelivered,
       Undisturbed, NoLostWakeup, Woken

(* Safe is inductive: each part is kept by the parts before it. *)
LEMMA SafeStep == Safe /\ [Next]_vars => Safe'
<1>. SUFFICES ASSUME Safe, [Next]_vars PROVE Safe'
  OBVIOUS
<1>. TypeOK /\ Holding /\ RowLocks /\ Counts /\ Acks /\ Undisturbed
  BY DEF Safe
<1>1. TypeOK' BY TypeStep
<1>2. Holding' BY HoldingStep
<1>3. RowLocks' BY RowLocksStep
<1>4. Counts' BY CountsStep
<1>5. Acks' BY AcksStep
<1>6. Undisturbed' BY UndisturbedStep
<1>. QED BY <1>1, <1>2, <1>3, <1>4, <1>5, <1>6 DEF Safe

(* And so is IInv. *)
LEMMA InvStep == IInv /\ [Next]_vars => IInv'
<1>. SUFFICES ASSUME IInv, [Next]_vars PROVE IInv'
  OBVIOUS
<1>1. Safe' BY SafeStep DEF IInv
<1>2. ASSUME NEW v \in Workers, NEW k \in Jobs, budget' = MaxFaults
      PROVE  Woken(v, k)'
  BY <1>2, WokenStep DEF IInv, Safe, NoLostWakeup
<1>. QED BY <1>1, <1>2 DEF IInv, NoLostWakeup

(* What Safe gives. *)
LEMMA SafeImplies ==
  Safe => /\ ExclusiveProcessing /\ AttemptsBounded
          /\ AckedNeverRetried /\ DoneMeansDelivered
<1>1. Safe => ExclusiveProcessing
  BY JobStoreAssumption DEF Safe, TypeOK, Holding, ExclusiveProcessing, Holds
<1>2. Safe => AttemptsBounded
  BY DEF Safe, TypeOK, StoreTypeOK, Counts, AttemptsBounded
<1>. QED BY <1>1, <1>2 DEF Safe, Acks

(* The inductive invariant holds in every reachable state, for any number  *)
(* of workers, jobs, attempts and faults.                                  *)
THEOREM Invariant == Spec => []IInv
<1>1. Init => IInv BY InvInit
<1>2. IInv /\ [Next]_vars => IInv' BY InvStep
<1>. QED BY <1>1, <1>2, PTL DEF Spec

(* Every variable keeps its type. *)
THEOREM TypeCorrect == Spec => []TypeOK
<1>1. IInv => TypeOK BY DEF IInv, Safe
<1>. QED BY <1>1, Invariant, PTL

(* However workers crash, stop and restart, no two process the same job,   *)
(* and the row's attempts, status and owner are those of the one that does: *)
(* the unconditional WHERE id = $1 of CompleteJob and FailJob is safe.     *)
THEOREM Exclusive == Spec => []ExclusiveProcessing
<1>1. IInv => ExclusiveProcessing BY SafeImplies DEF IInv
<1>. QED BY <1>1, Invariant, PTL

(* No schedule makes the workers start, or POST for, more than max_attempts *)
(* attempts of one job.                                                    *)
THEOREM Bounded == Spec => []AttemptsBounded
<1>1. IInv => AttemptsBounded BY SafeImplies DEF IInv
<1>. QED BY <1>1, Invariant, PTL

(* A job whose acceptance a worker has read is never retried nor failed. *)
THEOREM NeverRetried == Spec => []AckedNeverRetried
<1>1. IInv => AckedNeverRetried BY SafeImplies DEF IInv
<1>. QED BY <1>1, Invariant, PTL

(* A job in 'done' was delivered, or its worker had no URL. *)
THEOREM Delivered == Spec => []DoneMeansDelivered
<1>1. IInv => DoneMeansDelivered BY SafeImplies DEF IInv
<1>. QED BY <1>1, Invariant, PTL

(* Until the first fault, no worker goes to sleep on a job nobody has      *)
(* tried: LISTEN before the first drain, the buffered notifCh and SKIP     *)
(* LOCKED leave no gap.                                                    *)
THEOREM WakeupsKept == Spec => []NoLostWakeup
<1>1. IInv => NoLostWakeup BY DEF IInv
<1>. QED BY <1>1, Invariant, PTL

-----------------------------------------------------------------------------
(* The history of a row. *)

(* Five operations write status or attempts; every other step, a crash     *)
(* included, leaves them alone.                                            *)
LEMMA RowWriters ==
  ASSUME [Next]_vars
  PROVE  \/ UNCHANGED <<status, attempts>>
         \/ \E w \in Workers : Claimed(w) \/ ClaimReplyLost(w) \/ Settle(w)
         \/ \E j \in Jobs : Submit(j)
<1>. USE DEF storeVars, procVars
<1>1. ASSUME NEW w \in Workers, Start(w) \/ Wake(w) \/ Poll(w) \/ Exit(w)
                                \/ Deliver(w) \/ LoseListen(w) \/ Stop(w) \/ Crash(w)
      PROVE  UNCHANGED <<status, attempts>>
  BY <1>1 DEF Start, Wake, Poll, Exit, Deliver, LoseListen, Stop, Crash, Listen,
              ProcessEnds
<1>2. ASSUME NEW w \in Workers, ClaimNone(w) \/ PublishDepth(w) \/ ClaimError(w)
                                \/ ClaimSent(w) \/ ClaimFails(w) \/ SettleLost(w)
      PROVE  UNCHANGED <<status, attempts>>
  BY <1>2 DEF ClaimNone, PublishDepth, ClaimError, ClaimSent, ClaimFails,
              ClaimLock, ClaimRollback, SettleLost
<1>3. ASSUME NEW w \in Workers, ExecuteRefuses(w) \/ ExecuteFails(w)
                                \/ WebhookStub(w) \/ PostFails(w)
                                \/ Post(w) \/ PostAccepted(w)
      PROVE  UNCHANGED <<status, attempts>>
  BY <1>3 DEF ExecuteRefuses, ExecuteFails, WebhookStub, PostFails, Post,
              PostAccepted, Executed
<1>4. ASSUME NEW j \in Jobs, RetryDue(j)
      PROVE  UNCHANGED <<status, attempts>>
  BY <1>4 DEF RetryDue, BackoffElapses
<1>5. CASE UNCHANGED vars
  BY <1>5 DEF vars
<1>. QED BY <1>1, <1>2, <1>3, <1>4, <1>5 DEF Next, Work

(* What a step may do to one row. *)
LEMMA RowStep ==
  ASSUME Safe, [Next]_vars, NEW j \in Jobs
  PROVE  /\ status[j] \in {"done", "failed"} => status'[j] = status[j]
         /\ attempts'[j] \in {attempts[j], attempts[j] + 1}
         /\ status[j] = "running" /\ status'[j] # "running" => Held(j)
<1>. DEFINE Kept ==
         /\ status[j] \in {"done", "failed"} => status'[j] = status[j]
         /\ attempts'[j] \in {attempts[j], attempts[j] + 1}
         /\ status[j] = "running" /\ status'[j] # "running" => Held(j)
<1>t. status \in [Jobs -> Statuses] /\ attempts \in [Jobs -> Nat]
  BY DEF Safe, TypeOK, StoreTypeOK
<1>1. CASE UNCHANGED <<status, attempts>>
  BY <1>1
<1>2. ASSUME NEW w \in Workers, Claimed(w) \/ ClaimReplyLost(w)
      PROVE  Kept
  <2>1. rowLock[w] \in Jobs /\ status[rowLock[w]] = "pending"
    BY <1>2, JobStoreAssumption
       DEF Safe, TypeOK, StoreTypeOK, RowLocks, Due, Claimed, ClaimReplyLost
  <2>2. ClaimCommit(w)
    BY <1>2 DEF Claimed, ClaimReplyLost
  <2>. QED BY <1>t, <2>1, <2>2 DEF ClaimCommit
<1>3. ASSUME NEW w \in Workers, Settle(w)
      PROVE  Kept
  <2>1. job[w] \in Jobs /\ status[job[w]] = "running" /\ Held(job[w])
    BY <1>3, JobStoreAssumption DEF Safe, TypeOK, Holding, Settle, Held, Holds
  <2>2. CompleteJob(job[w]) \/ RetryJob(job[w]) \/ GiveUpJob(job[w])
    BY <1>3 DEF Settle, FailJob
  <2>3. status' = [status EXCEPT ![job[w]] = status'[job[w]]] /\ attempts' = attempts
    BY <1>t, <2>1, <2>2 DEF CompleteJob, RetryJob, GiveUpJob
  <2>. QED BY <1>t, <2>1, <2>3
<1>4. ASSUME NEW k \in Jobs, Submit(k)
      PROVE  Kept
  BY <1>t, <1>4 DEF Submit, Insert
<1>. QED BY <1>1, <1>2, <1>3, <1>4, RowWriters

(* Whatever workers and faults do, done and failed are final, attempts     *)
(* only grow, one at a time, and a running row is given back only through  *)
(* the worker that holds it (CompleteJob and FailJob, WHERE id = $1).      *)
THEOREM History == Spec => RowHistory
<1>1. IInv /\ [Next]_vars =>
        [\A j \in Jobs :
           /\ status[j] \in {"done", "failed"} => status'[j] = status[j]
           /\ attempts'[j] \in {attempts[j], attempts[j] + 1}
           /\ status[j] = "running" /\ status'[j] # "running" => Held(j)]_vars
  BY RowStep DEF IInv
<1>. QED BY <1>1, Invariant, PTL DEF Spec, RowHistory

-----------------------------------------------------------------------------
(* The refinement of JobQueue. *)

(* A step that leaves j's row alone and neither takes nor leaves j leaves  *)
(* its phase alone.                                                        *)
LEMMA PhaseKept ==
  ASSUME NEW j \in Jobs, status'[j] = status[j], Held(j)' <=> Held(j)
  PROVE  Phase(j)' = Phase(j)
BY DEF Phase

(* A step that moves k alone is a Move of the queue. *)
LEMMA OneMoves ==
  ASSUME NEW k \in Jobs, NEW from, NEW to,
         Phase(k) = from, Phase(k)' = to,
         \A j \in Jobs \ {k} : status'[j] = status[j] /\ (Held(j)' <=> Held(j))
  PROVE  Queue!Move(k, from, to)
<1>1. \A j \in Jobs \ {k} : Phase(j)' = Phase(j)
  BY PhaseKept
<1>. QED BY <1>1 DEF Queue!Move

(* A step that changes nothing the queue sees is a stuttering step of it. *)
LEMMA NothingMoves ==
  ASSUME \A j \in Jobs : status'[j] = status[j] /\ (Held(j)' <=> Held(j)),
         UNCHANGED <<attempts, posts, acked>>
  PROVE  UNCHANGED Queue!vars
<1>1. \A j \in Jobs : Phase(j)' = Phase(j)
  BY PhaseKept
<1>. QED BY <1>1 DEF Queue!vars

(* When the worker that holds k forgets it, nobody holds k: Holding makes  *)
(* it the only one.                                                        *)
LEMMA Forgotten ==
  ASSUME TypeOK, Holding, NEW w \in Workers, NEW k \in Jobs, job[w] = k,
         Forget(w)
  PROVE  /\ Held(k) /\ ~Held(k)'
         /\ \A j \in Jobs \ {k} : Held(j)' <=> Held(j)
BY JobStoreAssumption DEF TypeOK, Holding, Forget, Held, Holds

(* Forgetting nothing changes nothing. *)
LEMMA NothingForgotten ==
  ASSUME TypeOK, NEW w \in Workers, job[w] = NoJob, Forget(w)
  PROVE  \A j \in Jobs : Held(j)' <=> Held(j)
BY JobStoreAssumption DEF TypeOK, Forget, Held, Holds

(* A worker that drops its job without an UPDATE strands it. *)
LEMMA Stranded ==
  ASSUME Safe, NEW w \in Workers, NEW k \in Jobs, job[w] = k, Forget(w),
         UNCHANGED <<status, attempts, posts, acked>>
  PROVE  Queue!Strand(k)
<1>1. status[k] = "running" BY JobStoreAssumption DEF Safe, Holding
<1>2. /\ Held(k) /\ ~Held(k)'
      /\ \A j \in Jobs \ {k} : Held(j)' <=> Held(j)
  BY Forgotten DEF Safe
<1>3. Phase(k) = "held" /\ Phase(k)' = "stranded"
  BY <1>1, <1>2 DEF Phase
<1>4. Queue!Move(k, "held", "stranded")
  <2>. \A j \in Jobs \ {k} : status'[j] = status[j] /\ (Held(j)' <=> Held(j))
    BY <1>2
  <2>. QED BY <1>3, OneMoves
<1>. QED BY <1>4 DEF Queue!Strand

(* Claiming k, with or without a reply, takes it. *)
LEMMA Taken ==
  ASSUME Safe, NEW w \in Workers, NEW k \in Jobs, rowLock[w] = k,
         pc[w] = "claiming", ClaimCommit(w),
         \/ job' = [job EXCEPT ![w] = rowLock[w]]
         \/ job' = job,
         UNCHANGED <<posts, acked>>
  PROVE  Queue!Take(k)
<1>1. /\ status[k] = "pending" /\ job[w] = NoJob
      /\ status \in [Jobs -> Statuses] /\ job \in [Workers -> Jobs \cup {NoJob}]
  BY JobStoreAssumption DEF Safe, TypeOK, StoreTypeOK, Holding, RowLocks, Due
<1>2. /\ status' = [status EXCEPT ![k] = "running"]
      /\ attempts' = [attempts EXCEPT ![k] = @ + 1]
  BY DEF ClaimCommit
<1>3. attempts[k] < MaxAttempts
  BY <1>1 DEF Safe, Counts
<1>4. Phase(k) = "queued"
  BY <1>1 DEF Phase
<1>5. Phase(k)' \in {"held", "stranded"}
  BY <1>1, <1>2 DEF Phase
<1>6. \A j \in Jobs \ {k} : status'[j] = status[j] /\ (Held(j)' <=> Held(j))
  BY <1>1, <1>2, JobStoreAssumption DEF Held, Holds
<1>7. Queue!Move(k, "queued", "held") \/ Queue!Move(k, "queued", "stranded")
  BY <1>1, <1>4, <1>5, <1>6, OneMoves
<1>. QED BY <1>2, <1>3, <1>7 DEF Queue!Take

(* What Settle writes is what the queue does with a held job. *)
LEMMA Settling ==
  ASSUME Safe, NEW w \in Workers, NEW k \in Jobs, job[w] = k, Settle(w)
  PROVE  Queue!Finish(k) \/ Queue!Retry(k) \/ Queue!GiveUp(k)
<1>1. /\ status[k] = "running" /\ tries[w] = attempts[k]
      /\ attempts[k] \in Nat /\ attempts[k] <= MaxAttempts
      /\ pc[w] = "settle" /\ Forget(w) /\ status \in [Jobs -> Statuses]
      /\ UNCHANGED <<posts, acked>>
  BY JobStoreAssumption
     DEF Safe, TypeOK, StoreTypeOK, Holding, Counts, Settle, history
<1>2. /\ Held(k) /\ ~Held(k)'
      /\ \A j \in Jobs \ {k} : Held(j)' <=> Held(j)
  BY <1>1, Forgotten DEF Safe
<1>3. Phase(k) = "held"
  BY <1>1, <1>2 DEF Phase
<1>4. CASE outcome[w] = "ok" /\ CompleteJob(k)
  <2>1. k \in acked \/ Stubbed # {}
    BY <1>1, <1>4 DEF Safe, Acks
  <2>2. Phase(k)' = "done"
    BY <1>1, <1>4 DEF Phase, CompleteJob
  <2>3. \A j \in Jobs \ {k} : status'[j] = status[j]
    BY <1>1, <1>4 DEF CompleteJob
  <2>4. Queue!Move(k, "held", "done")
    BY <1>1, <1>2, <1>3, <2>2, <2>3, OneMoves
  <2>. QED BY <1>1, <1>4, <2>1, <2>4 DEF Queue!Finish, CompleteJob
<1>5. CASE outcome[w] = "error" /\ tries[w] < MaxAttempts /\ RetryJob(k)
  <2>1. k \notin acked
    BY <1>1, <1>5 DEF Safe, Acks
  <2>2. Phase(k)' = "queued"
    BY <1>1, <1>5 DEF Phase, RetryJob
  <2>3. \A j \in Jobs \ {k} : status'[j] = status[j]
    BY <1>1, <1>5 DEF RetryJob
  <2>4. Queue!Move(k, "held", "queued")
    BY <1>1, <1>2, <1>3, <2>2, <2>3, OneMoves
  <2>. QED BY <1>1, <1>5, <2>1, <2>4 DEF Queue!Retry, RetryJob
<1>6. CASE outcome[w] = "error" /\ tries[w] >= MaxAttempts /\ GiveUpJob(k)
  <2>1. k \notin acked
    BY <1>1, <1>6 DEF Safe, Acks
  <2>2. Phase(k)' = "failed"
    BY <1>1, <1>6 DEF Phase, GiveUpJob
  <2>3. \A j \in Jobs \ {k} : status'[j] = status[j]
    BY <1>1, <1>6 DEF GiveUpJob
  <2>4. Queue!Move(k, "held", "failed")
    BY <1>1, <1>2, <1>3, <2>2, <2>3, OneMoves
  <2>5. attempts[k] = MaxAttempts
    BY <1>1, <1>6, JobStoreAssumption
  <2>. QED BY <1>1, <1>6, <2>1, <2>4, <2>5 DEF Queue!GiveUp, GiveUpJob
<1>. QED BY <1>4, <1>5, <1>6 DEF Settle, FailJob

(* Sending and accepting touch only the histories. *)
LEMMA Sent ==
  ASSUME Safe, NEW w \in Workers, NEW k \in Jobs, job[w] = k,
         Post(w) \/ PostAccepted(w)
  PROVE  Queue!Send(k) \/ Queue!Accept(k)
<1>1. /\ status[k] = "running" /\ pc[w] \in {"run", "posted"}
      /\ k \notin acked
  BY JobStoreAssumption
     DEF Safe, TypeOK, Holding, Acks, Post, PostAccepted
<1>2. Held(k)
  BY <1>1, JobStoreAssumption DEF Held, Holds
<1>3. UNCHANGED <<status, job, attempts>>
  BY DEF Post, PostAccepted, Executed, storeVars
<1>4. \A j \in Jobs : Phase(j)' = Phase(j)
  BY <1>3 DEF Phase, Held, Holds
<1>5. Phase(k) = "held"
  BY <1>1, <1>2 DEF Phase
<1>6. CASE Post(w)
  <2>. posts[k] < attempts[k]
    BY <1>6 DEF Safe, Counts, Post
  <2>. QED BY <1>1, <1>3, <1>4, <1>5, <1>6 DEF Queue!Send, Post
<1>7. CASE PostAccepted(w)
  <2>. posts[k] > 0
    BY <1>7 DEF Safe, Counts, PostAccepted
  <2>. QED BY <1>1, <1>3, <1>4, <1>5, <1>7 DEF Queue!Accept, PostAccepted
<1>. QED BY <1>6, <1>7

(* A row that appears, announced or not, is queued. *)
LEMMA Enqueued ==
  ASSUME Safe, NEW j \in Jobs, status[j] = "absent",
         status' = [status EXCEPT ![j] = "pending"],
         UNCHANGED <<job, attempts, posts, acked>>
  PROVE  Queue!Enqueue(j)
<1>1. status \in [Jobs -> Statuses]
  BY DEF Safe, TypeOK, StoreTypeOK
<1>2. Phase(j) = "none" /\ Phase(j)' = "queued"
  BY <1>1 DEF Phase
<1>3. \A k \in Jobs \ {j} : status'[k] = status[k] /\ (Held(k)' <=> Held(k))
  BY DEF Held, Holds
<1>4. Queue!Move(j, "none", "queued")
  BY <1>2, <1>3, OneMoves
<1>. QED BY <1>4 DEF Queue!Enqueue

(* The initial state is the queue's. *)
LEMMA QueueInitially == Init => Queue!QueueInit
BY DEF Init, StoreInit, Queue!QueueInit, Phase

(* Every step of the workers, the table and the faults is a step of the    *)
(* queue, or nothing to it.                                                *)
LEMMA QueueStep ==
  ASSUME Safe, [Next]_vars
  PROVE  [Queue!QueueNext]_(Queue!vars)
<1>. USE DEF storeVars, procVars, history
<1>1. CASE UNCHANGED <<status, job, attempts, posts, acked>>
  <2>. \A j \in Jobs : status'[j] = status[j] /\ (Held(j)' <=> Held(j))
    BY <1>1 DEF Held, Holds
  <2>. QED BY <1>1, NothingMoves
<1>2. ASSUME NEW w \in Workers, Start(w) \/ Wake(w) \/ Poll(w) \/ Deliver(w)
                                \/ LoseListen(w) \/ Stop(w)
      PROVE  UNCHANGED <<status, job, attempts, posts, acked>>
  BY <1>2 DEF Start, Wake, Poll, Deliver, LoseListen, Stop, Listen
<1>3. ASSUME NEW w \in Workers, ClaimNone(w) \/ PublishDepth(w) \/ ClaimError(w)
                                \/ ClaimSent(w) \/ ClaimFails(w)
      PROVE  UNCHANGED <<status, job, attempts, posts, acked>>
  BY <1>3 DEF ClaimNone, PublishDepth, ClaimError, ClaimSent, ClaimFails,
              ClaimLock, ClaimRollback
<1>4. ASSUME NEW w \in Workers, ExecuteRefuses(w) \/ ExecuteFails(w)
                                \/ WebhookStub(w) \/ PostFails(w)
      PROVE  UNCHANGED <<status, job, attempts, posts, acked>>
  BY <1>4 DEF ExecuteRefuses, ExecuteFails, WebhookStub, PostFails, Executed
<1>5. ASSUME NEW w \in Workers, Claimed(w) \/ ClaimReplyLost(w)
      PROVE  Queue!QueueNext
  <2>1. rowLock[w] \in Jobs
    BY <1>5 DEF Safe, TypeOK, StoreTypeOK, RowLocks, Claimed, ClaimReplyLost
  <2>2. Queue!Take(rowLock[w])
    BY <1>5, <2>1, Taken DEF Claimed, ClaimReplyLost, history
  <2>. QED BY <2>1, <2>2 DEF Queue!QueueNext
<1>6. ASSUME NEW w \in Workers, Post(w) \/ PostAccepted(w)
      PROVE  Queue!QueueNext
  <2>1. job[w] \in Jobs
    BY <1>6 DEF Safe, TypeOK, Holding, Post, PostAccepted
  <2>. QED BY <1>6, <2>1, Sent DEF Queue!QueueNext
<1>7. ASSUME NEW w \in Workers, Settle(w)
      PROVE  Queue!QueueNext
  <2>1. job[w] \in Jobs
    BY <1>7 DEF Safe, TypeOK, Holding, Settle
  <2>. QED BY <1>7, <2>1, Settling DEF Queue!QueueNext
<1>8. ASSUME NEW w \in Workers, SettleLost(w)
      PROVE  Queue!QueueNext
  <2>1. job[w] \in Jobs
    BY <1>8 DEF Safe, TypeOK, Holding, SettleLost
  <2>2. Queue!Strand(job[w])
    BY <1>8, <2>1, Stranded DEF SettleLost
  <2>. QED BY <2>1, <2>2 DEF Queue!QueueNext
<1>9. ASSUME NEW w \in Workers, Exit(w) \/ Crash(w)
      PROVE  Queue!QueueNext \/ UNCHANGED Queue!vars
  <2>1. Forget(w) /\ UNCHANGED <<status, attempts, posts, acked>>
    BY <1>9 DEF Exit, Crash, ProcessEnds
  <2>2. CASE job[w] = NoJob
    <3>. \A j \in Jobs : status'[j] = status[j] /\ (Held(j)' <=> Held(j))
      BY <2>1, <2>2, NothingForgotten DEF Safe
    <3>. QED BY <2>1, NothingMoves
  <2>3. CASE job[w] \in Jobs
    <3>. Queue!Strand(job[w])
      BY <2>1, <2>3, Stranded
    <3>. QED BY <2>3 DEF Queue!QueueNext
  <2>. QED BY <2>2, <2>3 DEF Safe, TypeOK
<1>10. ASSUME NEW j \in Jobs, Submit(j)
       PROVE  Queue!QueueNext
  BY <1>10, Enqueued DEF Submit, Insert, Queue!QueueNext
<1>11. ASSUME NEW j \in Jobs, RetryDue(j)
       PROVE  UNCHANGED <<status, job, attempts, posts, acked>>
  BY <1>11 DEF RetryDue, BackoffElapses
<1>12. CASE UNCHANGED vars
  BY <1>1, <1>12 DEF vars
<1>. QED
  BY <1>1, <1>2, <1>3, <1>4, <1>5, <1>6, <1>7, <1>8, <1>9, <1>10, <1>11, <1>12
     DEF Next, Work

(* The workers, the table and the faults implement JobQueue. *)
THEOREM Refinement == Spec => ImplementsQueue
<1>1. Init => Queue!QueueInit BY QueueInitially
<1>2. IInv /\ [Next]_vars => [Queue!QueueNext]_(Queue!vars) BY QueueStep DEF IInv
<1>. QED BY <1>1, <1>2, Invariant, PTL DEF Spec, ImplementsQueue, Queue!QueueSpec

=============================================================================

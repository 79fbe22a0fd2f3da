--------------------------- MODULE RolloutProofs ---------------------------
(***************************************************************************)
(* Proofs about Migrate and about Rollout, for any api and worker          *)
(* processes and any list of statements.                                   *)
(*                                                                         *)
(* The first part proves SchemaInv inductive for Migrate alone.  In the    *)
(* second, a step of Rollout is a step of Migrate, and is to the workers   *)
(* and the table a step of theirs, a death outside Run, or a job that      *)
(* nobody is told of (QueueMoves): what each specification promises        *)
(* survives the other, but for the wake-ups of such jobs.                  *)
(***************************************************************************)
EXTENDS Rollout, JobWorkerProofs

-----------------------------------------------------------------------------
(* Migrate. *)

USE MigrateAssumption

(* What a step of one process leaves to the others. *)
LEMMA OthersStay ==
  ASSUME NEW p \in Procs, NEW q \in Procs, q # p, SchemaTypeOK, Step(p) \/ Die(p)
  PROVE  at'[q] = at[q]
BY DEF SchemaTypeOK, Step, Begin, Skip, Look, Write, Alter, DropTrigger,
       CreateTrigger, Fails, Die, Down

LEMMA SchemaTypeStep ==
  ASSUME SchemaTypeOK, InFlight, [SchemaNext]_schemaVars
  PROVE  SchemaTypeOK'
<1> USE DEF SchemaTypeOK, InFlight, Drop, Make, Up
<1>1. CASE UNCHANGED schemaVars
  BY <1>1 DEF schemaVars
<1>2. ASSUME NEW p \in Procs, Step(p) \/ Die(p)
      PROVE  SchemaTypeOK'
  <2>1. CASE Begin(p)  BY <2>1 DEF Begin, Migrating
  <2>2. CASE Skip(p)  BY <2>2 DEF Skip
  <2>3. CASE Look(p)  BY <2>3 DEF Look
  <2>4. CASE Write(p)
    <3>1. at[p] \in 1 .. Builds /\ at[p] + 1 \in 0 .. Up
      BY <2>4 DEF Write
    <3>2. at' \in [Procs -> 0 .. Up] /\ built' \subseteq 1 .. Builds
      BY <2>4, <3>1 DEF Write
    <3> QED  BY <2>4, <3>2 DEF Write
  <2>5. CASE Alter(p)
    <3>1. at[p] \in 1 .. Builds /\ at[p] + 1 \in 0 .. Up
      BY <2>5 DEF Alter
    <3>2. at' \in [Procs -> 0 .. Up] /\ built' \subseteq 1 .. Builds
      BY <2>5, <3>1 DEF Alter
    <3> QED  BY <2>5, <3>2 DEF Alter
  <2>6. CASE DropTrigger(p)
    <3>1. at' \in [Procs -> 0 .. Up]
      BY <2>6 DEF DropTrigger
    <3> QED  BY <2>6, <3>1 DEF DropTrigger
  <2>7. CASE CreateTrigger(p)  BY <2>7 DEF CreateTrigger
  <2>8. CASE Fails(p)  BY <2>8 DEF Fails, Down
  <2>9. CASE Die(p)  BY <2>9 DEF Die, Down
  <2> QED  BY <1>2, <2>1, <2>2, <2>3, <2>4, <2>5, <2>6, <2>7, <2>8, <2>9 DEF Step
<1> QED  BY <1>1, <1>2 DEF SchemaNext

LEMMA FlightStep ==
  ASSUME SchemaTypeOK, InFlight, [SchemaNext]_schemaVars
  PROVE  InFlight'
<1> USE DEF SchemaTypeOK, InFlight, Drop, Make, Up
<1>1. CASE UNCHANGED schemaVars
  BY <1>1 DEF schemaVars
<1>2. ASSUME NEW p \in Procs, Step(p) \/ Die(p)
      PROVE  InFlight'
  <2> SUFFICES ASSUME NEW q \in flight'
               PROVE  at'[q] \in 1 .. Builds \ Serial
    OBVIOUS
  <2>1. q # p => q \in flight /\ at'[q] = at[q]
    BY <1>2, OthersStay DEF Step, Begin, Skip, Look, Write, Alter, DropTrigger,
       CreateTrigger, Fails, Die, Down
  <2>2. q = p => Look(p)
    BY <1>2 DEF Step, Begin, Skip, Look, Write, Alter, DropTrigger,
       CreateTrigger, Fails, Die, Down
  <2> QED  BY <2>1, <2>2 DEF Look
<1> QED  BY <1>1, <1>2 DEF SchemaNext

LEMMA AloneStep ==
  ASSUME SchemaTypeOK, InFlight, AloneIsAlone, [SchemaNext]_schemaVars
  PROVE  AloneIsAlone'
<1> USE DEF SchemaTypeOK, AloneIsAlone, Migrating, Drop, Make, Up
<1>1. CASE UNCHANGED schemaVars
  BY <1>1 DEF schemaVars
<1>2. ASSUME NEW p \in Procs, Step(p) \/ Die(p)
      PROVE  AloneIsAlone'
  <2> SUFFICES ASSUME NEW a \in alone', NEW q \in Procs, q # a,
                      a \in Migrating', q \in Migrating'
               PROVE  FALSE
    OBVIOUS
  <2>1. CASE Begin(p)
    <3>1. Migrating' \subseteq Migrating \cup {p}
      BY <2>1 DEF Begin
    <3>2. CASE Migrating = {}
      BY <3>1, <3>2
    <3>3. CASE Migrating # {}
      BY <2>1, <3>1, <3>3 DEF Begin
    <3> QED  BY <3>2, <3>3
  <2>2. CASE ~Begin(p)
    <3>1. alone' = alone
      BY <1>2, <2>2 DEF Step, Skip, Look, Write, Alter, DropTrigger,
         CreateTrigger, Fails, Die
    <3>2. Migrating' \subseteq Migrating
      BY <1>2, <2>2 DEF InFlight, Step, Skip, Look, Write, Alter, DropTrigger,
         CreateTrigger, Fails, Die, Down
    <3> QED  BY <3>1, <3>2
  <2> QED  BY <2>1, <2>2
<1> QED  BY <1>1, <1>2 DEF SchemaNext

LEMMA ReadyStep ==
  ASSUME SchemaTypeOK, InFlight, SchemaReady, [SchemaNext]_schemaVars
  PROVE  SchemaReady'
<1> USE DEF SchemaTypeOK, InFlight, SchemaReady, Drop, Make, Up
<1>1. CASE UNCHANGED schemaVars
  BY <1>1 DEF schemaVars
<1>2. ASSUME NEW p \in Procs, Step(p) \/ Die(p)
      PROVE  SchemaReady'
  <2> SUFFICES ASSUME NEW q \in Procs, NEW i \in 1 .. Builds, at'[q] > i
               PROVE  i \in built'
    OBVIOUS
  <2>1. built \subseteq built'
    BY <1>2 DEF Step, Begin, Skip, Look, Write, Alter, DropTrigger,
       CreateTrigger, Fails, Die, Down
  <2>2. CASE q # p
    BY <1>2, <2>1, <2>2, OthersStay
  <2>3. CASE q = p
    <3>1. CASE Begin(p)  BY <2>3, <3>1 DEF Begin
    <3>2. CASE Skip(p)  BY <2>3, <3>2 DEF Skip
    <3>3. CASE Look(p)  BY <2>3, <3>3 DEF Look
    <3>4. CASE Write(p)  BY <2>3, <3>4 DEF Write
    <3>5. CASE Alter(p)  BY <2>3, <3>5 DEF Alter
    <3>6. CASE DropTrigger(p)  BY <2>3, <3>6 DEF DropTrigger
    <3>7. CASE CreateTrigger(p)  BY <2>3, <3>7 DEF CreateTrigger
    <3>8. CASE Fails(p)  BY <2>3, <3>8 DEF Fails, Down
    <3>9. CASE Die(p)  BY <2>3, <3>9 DEF Die, Down
    <3> QED
      BY <1>2, <3>1, <3>2, <3>3, <3>4, <3>5, <3>6, <3>7, <3>8, <3>9 DEF Step
  <2> QED  BY <2>2, <2>3
<1> QED  BY <1>1, <1>2 DEF SchemaNext

LEMMA TriggerStep ==
  ASSUME SchemaTypeOK, InFlight, TriggerBack, [SchemaNext]_schemaVars
  PROVE  TriggerBack'
<1> USE DEF SchemaTypeOK, InFlight, TriggerBack, Drop, Make, Up
<1>1. CASE UNCHANGED schemaVars
  BY <1>1 DEF schemaVars
<1>2. ASSUME NEW p \in Procs, Step(p) \/ Die(p)
      PROVE  TriggerBack'
  <2>1. CASE CreateTrigger(p)
    BY <2>1 DEF CreateTrigger
  <2>2. CASE ~CreateTrigger(p)
    <3>1. at'[p] # Up \/ at' = at
      BY <1>2, <2>2 DEF Step, Begin, Skip, Look, Write, Alter, DropTrigger,
         Fails, Die, Down
    <3>2. DropTrigger(p) \/ trigger' = trigger
      BY <1>2, <2>2 DEF Step, Begin, Skip, Look, Write, Alter, Fails, Die, Down
    <3> QED  BY <3>1, <3>2 DEF DropTrigger
  <2> QED  BY <2>1, <2>2
<1> QED  BY <1>1, <1>2 DEF SchemaNext

LEMMA AloneFineStep ==
  ASSUME SchemaTypeOK, InFlight, AloneIsAlone, AloneNeverFails, [SchemaNext]_schemaVars
  PROVE  AloneNeverFails'
<1> USE DEF SchemaTypeOK, InFlight, AloneNeverFails, Migrating, Drop, Make, Up
<1>1. CASE UNCHANGED schemaVars
  BY <1>1 DEF schemaVars
<1>2. ASSUME NEW p \in Procs, Step(p) \/ Die(p)
      PROVE  AloneNeverFails'
  <2> SUFFICES ASSUME NEW a \in Procs, a \in alone', a \in Migrating'
               PROVE  a \notin beaten' /\ ~(at'[a] = Make /\ trigger')
    OBVIOUS
  <2>1. CASE a = p
    <3>1. CASE Begin(p)  BY <2>1, <3>1 DEF Begin
    <3>2. CASE Skip(p)  BY <2>1, <3>2 DEF Skip
    <3>3. CASE Look(p)  BY <2>1, <3>3 DEF Look
    <3>4. CASE Write(p)  BY <2>1, <3>4 DEF Write
    <3>5. CASE Alter(p)  BY <2>1, <3>5 DEF Alter
    <3>6. CASE DropTrigger(p)  BY <2>1, <3>6 DEF DropTrigger
    <3>7. CASE CreateTrigger(p)  BY <2>1, <3>7 DEF CreateTrigger
    <3>8. CASE Fails(p)  BY <2>1, <3>8 DEF Fails, Down
    <3>9. CASE Die(p)  BY <2>1, <3>9 DEF Die, Down
    <3> QED
      BY <1>2, <3>1, <3>2, <3>3, <3>4, <3>5, <3>6, <3>7, <3>8, <3>9 DEF Step
  <2>2. CASE a # p
    <3>1. at'[a] = at[a] /\ a \in Migrating
      BY <1>2, <2>2, OthersStay
    <3>2. a \in alone /\ ~Begin(p)
      BY <1>2, <2>2, <3>1 DEF Step, Begin, Skip, Look, Write, Alter,
         DropTrigger, CreateTrigger, Fails, Die
    <3>3. p \notin Migrating
      BY <2>2, <3>1, <3>2 DEF AloneIsAlone
    <3>4. ~Write(p) /\ ~CreateTrigger(p) /\ ~DropTrigger(p)
      BY <3>3 DEF Write, CreateTrigger, DropTrigger
    <3>5. beaten' \subseteq beaten /\ trigger' = trigger
      BY <1>2, <3>2, <3>4 DEF Step, Skip, Look, Alter, Fails, Die, Down
    <3> QED  BY <3>1, <3>2, <3>5
  <2> QED  BY <2>1, <2>2
<1> QED  BY <1>1, <1>2 DEF SchemaNext

(* SchemaInv is inductive: store.Migrate, whatever the list and whoever runs it. *)
THEOREM SchemaInvariant == SchemaSpec => []SchemaInv
<1>1. SchemaInit => SchemaInv
  <2> SUFFICES ASSUME SchemaInit PROVE SchemaInv
    OBVIOUS
  <2> USE DEF SchemaInit, Drop, Make, Up
  <2>1. SchemaTypeOK
    <3>1. 0 \in 0 .. Up /\ 0 \in 0 .. MaxDeaths
      OBVIOUS
    <3>2. at \in [Procs -> 0 .. Up]
      BY <3>1
    <3> HIDE DEF Up
    <3> QED  BY <3>1, <3>2 DEF SchemaTypeOK
  <2>2. InFlight /\ AloneIsAlone /\ AloneNeverFails
    BY DEF InFlight, AloneIsAlone, AloneNeverFails
  <2>3. SchemaReady /\ TriggerBack
    BY DEF SchemaReady, TriggerBack
  <2> QED  BY <2>1, <2>2, <2>3 DEF SchemaInv
<1>2. SchemaInv /\ [SchemaNext]_schemaVars => SchemaInv'
  BY SchemaTypeStep, FlightStep, AloneStep, ReadyStep, TriggerStep, AloneFineStep
     DEF SchemaInv
<1> QED  BY <1>1, <1>2, PTL DEF SchemaSpec

(* A process that serves has the whole schema (store.Migrate's loop). *)
THEOREM Ready == SchemaSpec => []SchemaReady
<1>1. SchemaInv => SchemaReady
  BY DEF SchemaInv
<1> QED  BY <1>1, SchemaInvariant, PTL

(* Once every process serves, jobs_notify exists. *)
THEOREM TriggerThere == SchemaSpec => []TriggerBack
<1>1. SchemaInv => TriggerBack
  BY DEF SchemaInv
<1> QED  BY <1>1, SchemaInvariant, PTL

(* The migrations are idempotent for a process that runs them by itself. *)
THEOREM Idempotent == SchemaSpec => []AloneNeverFails
<1>1. SchemaInv => AloneNeverFails
  BY DEF SchemaInv
<1> QED  BY <1>1, SchemaInvariant, PTL

HIDE MigrateAssumption

-----------------------------------------------------------------------------
(* Rollout. *)

(* To Migrate, a step of a rollout is one of its own or none. *)
LEMMA SchemaMoves ==
  ASSUME [RolloutNext]_allVars
  PROVE  [SchemaNext]_schemaVars
<1>1. CASE UNCHANGED allVars
  BY <1>1 DEF allVars
<1>2. ASSUME NEW p \in Procs, Migrates(p) \/ Killed(p)
      PROVE  SchemaNext
  BY <1>2 DEF Migrates, Killed, SchemaNext
<1>3. ASSUME NEW w \in Workers, Starts(w) \/ Runs(w) \/ Ends(w)
      PROVE  [SchemaNext]_schemaVars
  <2>1. CASE Starts(w) \/ Runs(w)
    BY <2>1 DEF Starts, Runs
  <2>2. CASE Ends(w)
    <3>1. w \in Procs /\ Die(w)
      BY <2>2, RolloutAssumption DEF Ends, RolloutAssumption
    <3> QED  BY <3>1 DEF SchemaNext
  <2> QED  BY <1>3, <2>1, <2>2
<1>4. ASSUME NEW j \in Jobs,
             Commits(j) \/ (RetryDue(j) /\ UNCHANGED <<schemaVars, silent>>)
      PROVE  UNCHANGED schemaVars
  BY <1>4 DEF Commits
<1> QED  BY <1>1, <1>2, <1>3, <1>4 DEF RolloutNext

(* Processes that serve, crash and are stopped migrate as Migrate has it:  *)
(* Rollout implements it, its schema variables being those of Migrate.     *)
THEOREM ImplementsMigrate == RolloutSpec => SchemaSpec
<1>1. RolloutInit => SchemaInit
  BY DEF RolloutInit
<1>2. [RolloutNext]_allVars => [SchemaNext]_schemaVars
  BY SchemaMoves
<1> QED  BY <1>1, <1>2, PTL DEF RolloutSpec, SchemaSpec

(* A job is committed while the trigger is away. *)
Unannounced(j) ==
  /\ InsertSilently(j)
  /\ silent' = silent \cup {j}
  /\ UNCHANGED <<procVars, budget, history>>

(* A process that runs no Run goroutine dies. *)
DiesOutsideRun ==
  /\ budget > 0 /\ budget' = budget - 1
  /\ UNCHANGED <<storeVars, procVars, history, silent>>

(* To the workers and the table, a step of a rollout is one of theirs, or  *)
(* one of these two.                                                       *)
LEMMA QueueMoves ==
  ASSUME [RolloutNext]_allVars
  PROVE  \/ [Next]_vars /\ silent' = silent
         \/ \E j \in Jobs : Unannounced(j)
         \/ DiesOutsideRun
<1>1. CASE UNCHANGED allVars
  BY <1>1 DEF allVars
<1>2. ASSUME NEW p \in Procs, Migrates(p)
      PROVE  UNCHANGED vars /\ silent' = silent
  BY <1>2 DEF Migrates
<1>3. ASSUME NEW p \in Procs, Killed(p)
      PROVE  DiesOutsideRun
  BY <1>3 DEF Killed, Fault, DiesOutsideRun
<1>4. ASSUME NEW w \in Workers, Starts(w) \/ Runs(w) \/ Ends(w)
      PROVE  Next /\ silent' = silent
  BY <1>4 DEF Starts, Runs, Ends, Next
<1>5. ASSUME NEW j \in Jobs, Commits(j)
      PROVE  (Next /\ silent' = silent) \/ Unannounced(j)
  BY <1>5 DEF Commits, Next, Unannounced
<1>6. ASSUME NEW j \in Jobs, RetryDue(j), UNCHANGED silent
      PROVE  Next /\ silent' = silent
  BY <1>6 DEF Next
<1>. QED BY <1>1, <1>2, <1>3, <1>4, <1>5, <1>6 DEF RolloutNext

(* An unannounced job is, but for its wake-up, a job like another. *)
LEMMA UnannouncedSafe ==
  ASSUME Safe, NEW j \in Jobs, Unannounced(j)
  PROVE  Safe'
<1>. USE JobStoreAssumption DEF Unannounced, InsertSilently, procVars, history
<1>1. TypeOK'
  BY DEF Safe, TypeOK, StoreTypeOK, Statuses
<1>t. status \in [Jobs -> Statuses] /\ job \in [Workers -> Jobs \cup {NoJob}]
      /\ rowLock \in [Workers -> Jobs \cup {NoJob}]
  BY DEF Safe, TypeOK, StoreTypeOK
<1>2. Holding' /\ RowLocks'
  BY <1>t DEF Safe, Holding, RowLocks, Due
<1>3. Counts'
  BY <1>t DEF Safe, Counts
<1>4. Acks'
  BY <1>t DEF Safe, Acks, AckedNeverRetried, DoneMeansDelivered
<1>5. Undisturbed'
  BY DEF Safe, Undisturbed
<1>. QED BY <1>1, <1>2, <1>3, <1>4, <1>5 DEF Safe

(* A death outside Run only takes from the budget of faults. *)
LEMMA DeathSafe ==
  ASSUME Safe, DiesOutsideRun
  PROVE  Safe' /\ budget' # MaxFaults
<1>. USE JobWorkerAssumption DEF DiesOutsideRun, storeVars, procVars, history
<1>1. TypeOK'
  BY DEF Safe, TypeOK, StoreTypeOK
<1>2. budget \in Nat /\ budget <= MaxFaults
  BY DEF Safe, TypeOK, Undisturbed
<1>3. Holding' /\ RowLocks'
  BY DEF Safe, Holding, RowLocks, Due
<1>4. Counts' /\ Acks'
  BY DEF Safe, Counts, Acks, AckedNeverRetried, DoneMeansDelivered
<1>5. Undisturbed' /\ budget' # MaxFaults
  BY <1>2 DEF Undisturbed
<1>. QED BY <1>1, <1>3, <1>4, <1>5 DEF Safe

(* Every step keeps Safe and the wake-ups of announced jobs. *)
LEMMA SafeAndWoken ==
  ASSUME Safe, WakeupUnlessSilent, [RolloutNext]_allVars
  PROVE  Safe' /\ WakeupUnlessSilent'
<1>1. CASE [Next]_vars /\ silent' = silent
  <2>1. ASSUME budget' = MaxFaults, NEW v \in Workers, NEW k \in Jobs \ silent'
        PROVE  Woken(v, k)'
    BY <1>1, <2>1, WokenStep DEF Safe, WakeupUnlessSilent
  <2>. QED BY <1>1, <2>1, SafeStep DEF WakeupUnlessSilent
<1>2. ASSUME NEW j \in Jobs, Unannounced(j)
      PROVE  Safe' /\ WakeupUnlessSilent'
  <2>1. ASSUME budget' = MaxFaults, NEW v \in Workers, NEW k \in Jobs \ silent'
        PROVE  Woken(v, k)'
    <3>1. k \in Jobs \ silent /\ k # j
      BY <1>2, <2>1 DEF Unannounced
    <3>2. Woken(v, k)
      BY <1>2, <2>1, <3>1 DEF Unannounced, WakeupUnlessSilent
    <3>3. status'[k] = status[k]
      BY <1>2, <3>1 DEF Unannounced, InsertSilently, Safe, TypeOK, StoreTypeOK
    <3>. QED BY <1>2, <3>2, <3>3
         DEF Unannounced, InsertSilently, procVars, Woken, Locked
  <2>. QED BY <1>2, <2>1, UnannouncedSafe DEF WakeupUnlessSilent
<1>3. CASE DiesOutsideRun
  BY <1>3, DeathSafe DEF WakeupUnlessSilent
<1>. QED BY <1>1, <1>2, <1>3, QueueMoves

(* Run starts only by Start. *)
LEMMA StaysDown ==
  ASSUME NEW w \in Workers, NEW v \in Workers, pc \in [Workers -> PCs], pc[v] = "down",
         Work(w) \/ Wake(w) \/ Poll(w) \/ Deliver(w) \/ LoseListen(w) \/ Stop(w)
  PROVE  pc'[v] = "down"
<1>. USE DEF Goto, procVars
<1>1. CASE ClaimNone(w) \/ PublishDepth(w) \/ ClaimError(w) \/ ClaimSent(w)
  BY <1>1 DEF ClaimNone, PublishDepth, ClaimError, ClaimSent, DrainReturns
<1>2. CASE Claimed(w) \/ ClaimReplyLost(w) \/ ClaimFails(w)
  BY <1>2 DEF Claimed, ClaimReplyLost, ClaimFails, DrainReturns
<1>3. CASE ExecuteRefuses(w) \/ ExecuteFails(w) \/ WebhookStub(w) \/ PostFails(w)
  BY <1>3 DEF ExecuteRefuses, ExecuteFails, WebhookStub, PostFails, Executed
<1>4. CASE Post(w) \/ PostAccepted(w) \/ Settle(w) \/ SettleLost(w)
  BY <1>4 DEF Post, PostAccepted, Executed, Settle, SettleLost
<1>5. CASE Wake(w) \/ Poll(w) \/ Deliver(w) \/ LoseListen(w) \/ Stop(w)
  BY <1>5 DEF Wake, Poll, Deliver, LoseListen, Stop
<1>. QED BY <1>1, <1>2, <1>3, <1>4, <1>5 DEF Work

(* A worker leaves Run only with its process. *)
LEMMA RunsMigratedStep ==
  ASSUME SchemaTypeOK, InFlight, Safe, RunsMigrated, [RolloutNext]_allVars
  PROVE  RunsMigrated'
<1>. SUFFICES ASSUME NEW v \in Workers, pc'[v] # "down" PROVE at'[v] = Up
  BY DEF RunsMigrated, Serves
<1>t. /\ pc \in [Workers -> PCs] /\ v \in Procs /\ Workers \subseteq Procs
      /\ pc[v] # "down" => at[v] = Up
  BY RolloutAssumption DEF Safe, TypeOK, RunsMigrated, Serves
<1>1. CASE UNCHANGED allVars
  BY <1>1, <1>t DEF allVars, vars, procVars, schemaVars
<1>2. ASSUME NEW p \in Procs, Migrates(p)
      PROVE  at'[v] = Up
  <2>1. pc[v] # "down" /\ Step(p)
    BY <1>2 DEF Migrates, vars, procVars
  <2>2. CASE p = v
    BY <1>t, <2>1, <2>2, MigrateAssumption
       DEF SchemaTypeOK, InFlight, Step, Begin, Skip, Look, Write, Alter, DropTrigger,
           CreateTrigger, Fails, Drop, Make, Up
  <2>. QED BY <1>t, <2>1, <2>2, OthersStay
<1>3. ASSUME NEW p \in Procs, Killed(p)
      PROVE  at'[v] = Up
  <2>1. pc[v] # "down" /\ p # v /\ Die(p)
    BY <1>3 DEF Killed, procVars
  <2>. QED BY <1>t, <2>1, OthersStay
<1>4. ASSUME NEW w \in Workers, Starts(w) \/ Runs(w)
      PROVE  at'[v] = Up
  <2>1. at' = at
    BY <1>4 DEF Starts, Runs, schemaVars
  <2>2. CASE Starts(w)
    BY <1>t, <2>1, <2>2 DEF Starts, Serves, Start, Goto
  <2>3. CASE Runs(w)
    <3>1. pc[v] # "down"
      BY <1>t, <2>3, StaysDown DEF Runs
    <3>. QED BY <1>t, <2>1, <3>1
  <2>. QED BY <1>4, <2>2, <2>3
<1>5. ASSUME NEW w \in Workers, Ends(w)
      PROVE  at'[v] = Up
  <2>1. pc' = [pc EXCEPT ![w] = "down"] /\ Die(w)
    BY <1>5 DEF Ends, Exit, Crash, ProcessEnds, Goto
  <2>2. w # v /\ pc[v] # "down"
    BY <1>t, <2>1
  <2>. QED BY <1>t, <2>1, <2>2, OthersStay
<1>6. ASSUME NEW j \in Jobs, Commits(j) \/ (RetryDue(j) /\ UNCHANGED <<schemaVars, silent>>)
      PROVE  at'[v] = Up
  <2>1. UNCHANGED <<pc, at>>
    BY <1>6 DEF Commits, RetryDue, Submit, procVars, schemaVars
  <2>. QED BY <1>t, <2>1
<1>. QED BY <1>1, <1>2, <1>3, <1>4, <1>5, <1>6 DEF RolloutNext

(* RolloutInv is inductive. *)
THEOREM RolloutInvariant == RolloutSpec => []RolloutInv
<1>1. RolloutInit => Safe /\ WakeupUnlessSilent /\ RunsMigrated
  <2>. SUFFICES ASSUME RolloutInit PROVE Safe /\ WakeupUnlessSilent /\ RunsMigrated
    OBVIOUS
  <2>1. IInv
    BY InvInit DEF RolloutInit
  <2>2. \A w \in Workers : pc[w] = "down"
    BY DEF RolloutInit, Init
  <2>. QED BY <2>1, <2>2 DEF IInv, NoLostWakeup, WakeupUnlessSilent, RunsMigrated
<1>2. SchemaInv /\ Safe /\ WakeupUnlessSilent /\ RunsMigrated /\ [RolloutNext]_allVars
        => (Safe /\ WakeupUnlessSilent /\ RunsMigrated)'
  BY SafeAndWoken, RunsMigratedStep DEF SchemaInv
<1>3. RolloutSpec => []SchemaInv
  BY ImplementsMigrate, SchemaInvariant, PTL
<1>4. SchemaInv /\ Safe /\ WakeupUnlessSilent /\ RunsMigrated => RolloutInv
  BY DEF RolloutInv
<1>. QED BY <1>1, <1>2, <1>3, <1>4, PTL DEF RolloutSpec

(* Migrations beside the workers cost the wake-ups of the jobs committed   *)
(* between DROP TRIGGER and CREATE TRIGGER, and no others.                 *)
THEOREM OnlySilentSleep == RolloutSpec => []WakeupUnlessSilent
<1>1. RolloutInv => WakeupUnlessSilent BY DEF RolloutInv
<1>. QED BY <1>1, RolloutInvariant, PTL

(* Run works on the whole schema: a worker that claims jobs has returned    *)
(* from Migrate (cmd/worker/main.go).                                      *)
THEOREM RunsOnSchema ==
  RolloutSpec => [](\A w \in Workers : pc[w] # "down" => 1 .. Builds \subseteq built)
<1>1. ASSUME RolloutInv, NEW w \in Workers, pc[w] # "down"
      PROVE  1 .. Builds \subseteq built
  <2>1. w \in Procs /\ at[w] = Up
    BY <1>1, RolloutAssumption DEF RolloutInv, RunsMigrated, Serves
  <2>2. \A i \in 1 .. Builds : Up > i
    BY MigrateAssumption DEF Up
  <2>. QED BY <1>1, <2>1, <2>2 DEF RolloutInv, SchemaInv, SchemaReady
<1>2. RolloutInv => \A w \in Workers : pc[w] # "down" => 1 .. Builds \subseteq built
  BY <1>1
<1>. QED BY <1>2, RolloutInvariant, PTL

(* The promises of the workers and the table hold during a rollout.        *)
THEOREM RolloutKeepsSafety ==
  RolloutSpec => [](/\ ExclusiveProcessing /\ AttemptsBounded
                    /\ AckedNeverRetried /\ DoneMeansDelivered)
<1>1. RolloutInv => /\ ExclusiveProcessing /\ AttemptsBounded
                    /\ AckedNeverRetried /\ DoneMeansDelivered
  BY SafeImplies DEF RolloutInv
<1>. QED BY <1>1, RolloutInvariant, PTL

(* Rows have the same history during a rollout. *)
THEOREM RolloutKeepsHistory == RolloutSpec => RowHistory
<1>. DEFINE Rows == \A j \in Jobs :
              /\ status[j] \in {"done", "failed"} => status'[j] = status[j]
              /\ attempts'[j] \in {attempts[j], attempts[j] + 1}
              /\ status[j] = "running" /\ status'[j] # "running" => Held(j)
<1>1. ASSUME Safe, [RolloutNext]_allVars
      PROVE  Rows
  <2>1. CASE [Next]_vars
    BY <1>1, <2>1, RowStep
  <2>2. ASSUME NEW j \in Jobs, Unannounced(j) PROVE Rows
    BY <1>1, <2>2 DEF Unannounced, InsertSilently, Safe, TypeOK, StoreTypeOK
  <2>3. CASE DiesOutsideRun
    BY <2>3 DEF DiesOutsideRun, storeVars
  <2>. QED BY <1>1, <2>1, <2>2, <2>3, QueueMoves
<1>2. RolloutInv /\ [RolloutNext]_allVars => [Rows]_vars
  BY <1>1 DEF RolloutInv
<1>. QED BY <1>2, RolloutInvariant, PTL DEF RolloutSpec, RowHistory

(* And the rollout still implements the queue: a job that is not announced *)
(* is delayed, never lost, repeated or run twice.                          *)
THEOREM RolloutRefinement == RolloutSpec => ImplementsQueue
<1>1. RolloutInit => Queue!QueueInit
  BY QueueInitially DEF RolloutInit
<1>2. ASSUME Safe, [RolloutNext]_allVars
      PROVE  [Queue!QueueNext]_(Queue!vars)
  <2>1. CASE [Next]_vars
    BY <1>2, <2>1, QueueStep
  <2>2. ASSUME NEW j \in Jobs, Unannounced(j) PROVE Queue!QueueNext
    BY <1>2, <2>2, Enqueued
       DEF Unannounced, InsertSilently, procVars, history, Queue!QueueNext
  <2>3. CASE DiesOutsideRun
    <3>1. \A j \in Jobs : status'[j] = status[j] /\ (Held(j)' <=> Held(j))
      BY <2>3 DEF DiesOutsideRun, storeVars, procVars, Held, Holds
    <3>2. UNCHANGED <<attempts, posts, acked>>
      BY <2>3 DEF DiesOutsideRun, storeVars, history
    <3>. QED BY <3>1, <3>2, NothingMoves
  <2>. QED BY <1>2, <2>1, <2>2, <2>3, QueueMoves
<1>3. RolloutInv /\ [RolloutNext]_allVars => [Queue!QueueNext]_(Queue!vars)
  BY <1>2 DEF RolloutInv
<1>. QED BY <1>1, <1>3, RolloutInvariant, PTL
     DEF RolloutSpec, ImplementsQueue, Queue!QueueSpec

(* Jobs go unannounced only while some process is starting: while all      *)
(* serve, TriggerBack has the trigger there (store.go:79-82).              *)
THEOREM SilentStarts == RolloutSpec => SilentOnlyInRollout
<1>1. ASSUME SchemaInv, [RolloutNext]_allVars, silent' # silent
      PROVE  \E p \in Procs : ~Serves(p)
  <2>1. PICK j \in Jobs : Commits(j)
    BY <1>1 DEF RolloutNext, allVars, Migrates, Killed, Starts, Runs, Ends
  <2>2. ~trigger
    BY <1>1, <2>1 DEF Commits
  <2> QED  BY <1>1, <2>2 DEF SchemaInv, TriggerBack, Serves
<1>2. RolloutInv /\ [RolloutNext]_allVars
        => [silent' # silent => \E p \in Procs : ~Serves(p)]_allVars
  BY <1>1 DEF RolloutInv
<1> QED  BY <1>2, RolloutInvariant, PTL DEF RolloutSpec, SilentOnlyInRollout

=============================================================================

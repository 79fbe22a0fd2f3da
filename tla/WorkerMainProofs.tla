------------------------- MODULE WorkerMainProofs --------------------------
(* Proofs about WorkerMain: what its four goroutines may rely on.          *)
EXTENDS WorkerMain, TLAPS

LEMMA MainKeeps ==
  ASSUME Inv, MainStep
  PROVE  Inv'
<1> USE DEF Inv, TypeOK, Inside, Sent, Heading, OrderlyExit, Exited
<1>1. CASE Open  BY <1>1 DEF Open
<1>2. CASE OpenFails  BY <1>2 DEF OpenFails
<1>3. CASE Migrate  BY <1>3 DEF Migrate
<1>4. CASE MigrateFails  BY <1>4 DEF MigrateFails
<1>5. CASE SelectDone  BY <1>5 DEF SelectDone
<1>6. CASE SelectServerErr  BY <1>6 DEF SelectServerErr
<1>7. CASE SelectWorkerErr  BY <1>7 DEF SelectWorkerErr
<1>8. CASE Shutdown  BY <1>8 DEF Shutdown
<1>9. CASE ClosePool  BY <1>9 DEF ClosePool
<1>10. CASE PoolClosed
  <2>1. run \in {"none", "acquire", "returned"}
    BY <1>10 DEF PoolClosed
  <2> QED  BY <1>10, <2>1 DEF PoolClosed
<1> QED
  BY <1>1, <1>2, <1>3, <1>4, <1>5, <1>6, <1>7, <1>8, <1>9, <1>10 DEF MainStep

LEMMA RunKeeps ==
  ASSUME Inv, RunStep \/ RunDone
  PROVE  Inv'
<1> USE DEF Inv, TypeOK, Inside, Sent, Heading, OrderlyExit, Exited
<1>1. CASE AcquireListen  BY <1>1 DEF AcquireListen
<1>2. CASE AcquireFails  BY <1>2 DEF AcquireFails
<1>3. CASE Listen  BY <1>3 DEF Listen
<1>4. CASE ListenFails  BY <1>4 DEF ListenFails
<1>5. CASE Query  BY <1>5 DEF Query
<1>6. CASE QueryReturns  BY <1>6 DEF QueryReturns
<1>7. CASE Worked  BY <1>7 DEF Worked
<1>8. CASE DrainEnds  BY <1>8 DEF DrainEnds
<1>9. CASE Tick  BY <1>9 DEF Tick
<1>10. CASE RunDone  BY <1>10 DEF RunDone
<1>11. CASE Unwind  BY <1>11 DEF Unwind
<1> QED
  BY <1>1, <1>2, <1>3, <1>4, <1>5, <1>6, <1>7, <1>8, <1>9, <1>10, <1>11 DEF RunStep

LEMMA OthersKeep ==
  ASSUME Inv,
         ListenerStep \/ ListenerBroken \/ Probe \/ ProbeEnds \/ ServerFails \/ Signal
  PROVE  Inv'
<1> USE DEF Inv, TypeOK, Inside, Sent, Heading, OrderlyExit, Exited
<1>1. CASE ListenerStep
  <2>1. CASE ListenerRetries  BY <2>1 DEF ListenerRetries
  <2>2. CASE ListenerDone  BY <2>2 DEF ListenerDone
  <2> QED  BY <1>1, <2>1, <2>2 DEF ListenerStep
<1>2. CASE ListenerBroken  BY <1>2 DEF ListenerBroken
<1>3. CASE Probe  BY <1>3 DEF Probe
<1>4. CASE ProbeEnds  BY <1>4 DEF ProbeEnds
<1>5. CASE ServerFails  BY <1>5 DEF ServerFails
<1>6. CASE Signal  BY <1>6 DEF Signal
<1> QED  BY <1>1, <1>2, <1>3, <1>4, <1>5, <1>6

(* Inv is inductive: cmd/worker, whichever goroutine moves. *)
THEOREM Invariant == Spec => []Inv
<1>1. Init => Inv
  BY DEF Init, Inv, TypeOK, Inside, Sent, Heading, OrderlyExit, Exited
<1>2. Inv /\ [Next]_vars => Inv'
  <2> SUFFICES ASSUME Inv, [Next]_vars PROVE Inv'
    OBVIOUS
  <2>1. CASE UNCHANGED vars
    BY <2>1 DEF vars, Inv, TypeOK, Inside, Sent, Heading, OrderlyExit, Exited
  <2>2. CASE Next
    BY <2>2, MainKeeps, RunKeeps, OthersKeep DEF Next
  <2> QED  BY <2>1, <2>2
<1> QED  BY <1>1, <1>2, PTL DEF Spec

(* Run's deferred function gives the connection back after listenLoop has  *)
(* ended, never under it.                                                  *)
THEOREM OutlivesListener == Spec => []ConnOutlivesListener
<1>1. Inv => ConnOutlivesListener
  BY DEF Inv, TypeOK, Inside, ConnOutlivesListener
<1> QED  BY <1>1, Invariant, PTL

(* The process ends after Run, with the code of what ended it. *)
THEOREM ExitsInOrder == Spec => []OrderlyExit
<1>1. Inv => OrderlyExit
  BY DEF Inv
<1> QED  BY <1>1, Invariant, PTL

=============================================================================

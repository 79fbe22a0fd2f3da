---------------------------- MODULE RetryProofs ----------------------------
(* Proofs about Retry, for any poll, timeout and number of attempts a      *)
(* Duration can time.                                                      *)
EXTENDS Retry, DurationsProofs

USE RetryAssumption DEF RetryAssumption

(* The delay FailJob sends to Postgres is the one it is meant to be. *)
LEMMA DelayIsMeant ==
  ASSUME NEW a \in 1 .. MaxAttempts - 1
  PROVE  Delay[a] = Meant(a) /\ Meant(a) \in 0 .. 300
<1>1. a \in 1 .. 33
  OBVIOUS
<1>2. Meant(a) \in 0 .. 300
  <2>1. CASE a <= 8
    <3>1. a \in 0 .. 15
      BY <1>1, <2>1
    <3>2. Pow(a) \in Nat /\ Pow(a) <= 256
      BY <2>1, <3>1, Powers
    <3> QED  BY <2>1, <3>2 DEF Meant, Pow
  <2>2. CASE a > 8
    BY <2>2 DEF Meant
  <2> QED  BY <1>1, <2>1, <2>2
<1>0. Base \in Nat /\ 300 <= Base - 1 /\ Base < 2147483648
  BY DEF Base
<1>3. Meant(a) \in 0 .. Base - 1
  BY <1>0, <1>2
<1>4. Seconds(Of(Meant(a))) = Backoff(a)
  BY <1>1, BackoffDoubles
<1> DEFINE s == CHOOSE s \in 0 .. Base - 1 : Seconds(Of(s)) = Backoff(a)
<1>5. s \in 0 .. Base - 1 /\ Seconds(Of(s)) = Backoff(a)
  BY <1>3, <1>4, Zenon
<1>6. Delay[a] = s
  BY Zenon DEF Delay
<1> HIDE DEF s
<1>7. s = Meant(a)
  <2>1. s \in Nat /\ s < 2147483648
    BY <1>0, <1>5
  <2>2. Meant(a) \in Nat /\ Meant(a) < 2147483648
    BY <1>2
  <2> QED  BY <2>1, <2>2, <1>4, <1>5, SecondsInjective
<1> QED  BY <1>2, <1>6, <1>7

(* The parts that are about a single moment. *)
LEMMA TypeStep ==
  ASSUME TypeOK, Tries, Overdue, [Next]_vars
  PROVE  TypeOK' /\ Tries' /\ Overdue'
<1> DEFINE Numbers == /\ attempts \in 0 .. MaxAttempts
                      /\ wait \in Int
                      /\ tick \in 1 .. PollEvery
                      /\ busy \in 0 .. Timeout
                      /\ pause \in Int
           Statuses == status \in {"pending", "running", "done", "failed"}
<1>1. Numbers /\ Statuses
  BY DEF TypeOK
<1>2. ready' \in BOOLEAN
  <2>1. ready \in BOOLEAN
    BY DEF TypeOK
  <2>2. \/ ready' = FALSE
        \/ ready' = ready
        \/ ready' = (ready \/ tick = 1)
    BY DEF Next, Drain, Settle, Tick, vars
  <2> QED  BY <2>1, <2>2, Zenon
<1>3. Numbers' /\ Statuses' /\ Tries' /\ Overdue'
  <2>1. CASE Drain
    <3>1. CASE status = "pending" /\ wait <= 0
      <4>1. /\ status' = "running" /\ busy' = 0
            /\ wait' = wait /\ tick' = tick
            /\ attempts' = attempts + 1
            /\ pause' = IF attempts = 0 THEN 0 ELSE Delay[attempts] - wait
        BY <2>1, <3>1 DEF Drain
      <4>2. pause' \in Int
        <5>1. CASE attempts = 0
          BY <4>1, <5>1
        <5>2. CASE attempts > 0
          <6>1. attempts \in 1 .. MaxAttempts - 1
            BY <1>1, <3>1, <5>2 DEF Tries
          <6>2. Delay[attempts] - wait \in Int
            BY <1>1, <6>1, DelayIsMeant
          <6> QED  BY <4>1, <5>2, <6>2
        <5> QED  BY <1>1, <5>1, <5>2
      <4> QED  BY <1>1, <3>1, <4>1, <4>2 DEF Tries, Overdue
    <3>2. CASE ~(status = "pending" /\ wait <= 0)
      <4>1. /\ UNCHANGED <<status, attempts, busy, pause, wait, tick>>
            /\ ready' = FALSE
        BY <2>1, <3>2 DEF Drain
      <4> QED  BY <1>1, <3>2, <4>1 DEF Tries, Overdue
    <3> QED  BY <3>1, <3>2
  <2>2. CASE Settle
    <3>0. UNCHANGED <<attempts, tick, ready, busy, pause>>
      BY <2>2 DEF Settle
    <3>1. CASE attempts < MaxAttempts /\ status' = "pending" /\ wait' = Delay[attempts]
      <4>1. attempts \in 1 .. MaxAttempts - 1
        BY <1>1, <2>2, <3>1 DEF Settle, Tries
      <4>2. wait' \in 0 .. 300
        BY <3>1, <4>1, DelayIsMeant
      <4> QED  BY <1>1, <3>0, <3>1, <4>2 DEF Tries, Overdue
    <3>2. CASE status' \in {"done", "failed"} /\ UNCHANGED wait
      BY <1>1, <3>0, <3>2 DEF Tries, Overdue
    <3> QED  BY <2>2, <3>1, <3>2 DEF Settle
  <2>3. CASE Tick
    <3>0. /\ UNCHANGED <<status, attempts, pause>>
          /\ tick' = IF tick = 1 THEN PollEvery ELSE tick - 1
      BY <2>3 DEF Tick
    <3>1. CASE status = "pending"
      <4>1. /\ ~ready /\ busy' = busy
            /\ wait' = IF wait > -2 * PollEvery THEN wait - 1 ELSE wait
            /\ tick # 1 => ~ready'
            /\ tick = 1 => ready'
        BY <2>3, <3>1 DEF Tick
      <4>2. wait >= tick - PollEvery
        BY <3>1, <4>1 DEF Overdue
      <4>3. wait' = wait - 1
        BY <1>1, <4>1, <4>2
      <4> QED  BY <1>1, <3>0, <3>1, <4>1, <4>2, <4>3 DEF Tries, Overdue
    <3>2. CASE status = "running"
      <4>1. busy' = busy + 1 /\ busy < Timeout /\ wait' = wait
        BY <2>3, <3>2 DEF Tick
      <4> QED  BY <1>1, <3>0, <3>2, <4>1 DEF Tries, Overdue
    <3> QED  BY <2>3, <3>1, <3>2 DEF Tick
  <2>4. CASE UNCHANGED vars
    BY <1>1, <2>4 DEF vars, Tries, Overdue
  <2> QED  BY <2>1, <2>2, <2>3, <2>4 DEF Next
<1> QED  BY <1>2, <1>3 DEF TypeOK

LEMMA AtMostLate ==
  ASSUME NEW t \in Nat, NEW w \in Int, NEW p \in Nat, w >= t - p
  PROVE  w >= -p
OBVIOUS

(* The pause before a try is set by the claim and is the delay of the try  *)
(* before, and what the poll was late.                                     *)
LEMMA PauseStep ==
  ASSUME IInv, [Next]_vars
  PROVE  PacedRetries'
<1>1. TypeOK /\ Tries /\ Overdue
  BY DEF IInv
<1>2. TypeOK' /\ Overdue'
  BY <1>1, TypeStep
<1>3. status' = "pending" => wait' >= -PollEvery
  <2>1. wait' \in Int /\ tick' \in Nat
    BY <1>2 DEF TypeOK
  <2>2. CASE ready'
    BY <1>2, <2>1, <2>2 DEF Overdue
  <2>3. CASE ~ready'
    <3>1. status' = "pending" => wait' >= tick' - PollEvery
      BY <1>2, <2>3 DEF Overdue
    <3>2. PollEvery \in Nat
      OBVIOUS
    <3> QED  BY <2>1, <3>1, <3>2, AtMostLate
  <2> QED  BY <2>2, <2>3
<1> DEFINE Window(a) == Meant(a - 1) .. Meant(a - 1) + PollEvery
           Paused == status = "running" /\ attempts > 1 => pause \in Window(attempts)
<1>4. Paused
  BY DEF IInv, PacedRetries
<1>5. Paused'
  <2>1. CASE UNCHANGED <<status, attempts, pause>>
    BY <1>4, <2>1
  <2>2. CASE status' # "running"
    BY <2>2
  <2>3. CASE Drain /\ status = "pending" /\ wait <= 0 /\ attempts > 0
    <3>1. attempts \in 1 .. MaxAttempts - 1 /\ wait \in Int /\ -PollEvery <= wait
      BY <1>1, <2>3 DEF TypeOK, Tries, Overdue
    <3>2. attempts' - 1 = attempts
      BY <2>3, <3>1 DEF Drain
    <3>3. Delay[attempts] = Meant(attempts) /\ Meant(attempts) \in 0 .. 300
      BY <3>1, DelayIsMeant
    <3>4. pause' = Meant(attempts) - wait
      BY <2>3, <3>1, <3>3 DEF Drain
    <3>5. pause' \in Meant(attempts) .. Meant(attempts) + PollEvery
      BY <2>3, <3>1, <3>3, <3>4
    <3> QED  BY <3>2, <3>5
  <2>4. CASE Drain /\ status = "pending" /\ wait <= 0 /\ attempts = 0
    <3>1. attempts' = 1
      BY <2>4 DEF Drain
    <3> QED  BY <3>1
  <2> HIDE DEF Paused
  <2>5. Drain => \/ UNCHANGED <<status, attempts, pause>>
                 \/ status = "pending" /\ wait <= 0
    BY DEF Drain
  <2>6. attempts = 0 \/ attempts > 0
    BY <1>1 DEF TypeOK
  <2>7. Settle => status' # "running"
    BY DEF Settle
  <2>8. Tick \/ UNCHANGED vars => UNCHANGED <<status, attempts, pause>>
    BY DEF Tick, vars
  <2> QED
    BY <2>1, <2>2, <2>3, <2>4, <2>5, <2>6, <2>7, <2>8 DEF Next
<1> QED
  BY <1>3, <1>5 DEF PacedRetries

(* IInv is inductive. *)
THEOREM Invariant == Spec => []IInv
<1>1. Init => IInv
  <2> SUFFICES ASSUME Init
               PROVE  IInv
    OBVIOUS
  <2>1. TypeOK /\ Tries /\ Overdue
    BY DEF Init, TypeOK, Tries, Overdue
  <2>2. PacedRetries
    BY DEF Init, PacedRetries
  <2> QED  BY <2>1, <2>2 DEF IInv
<1>2. IInv /\ [Next]_vars => IInv'
  BY TypeStep, PauseStep DEF IInv
<1> QED  BY <1>1, <1>2, PTL DEF Spec

(* A failed job is tried again after the doubling, capped delay and at     *)
(* most one poll later.                                                    *)
THEOREM Paced == Spec => []PacedRetries
<1>1. IInv => PacedRetries
  BY DEF IInv
<1> QED  BY <1>1, Invariant, PTL

=============================================================================

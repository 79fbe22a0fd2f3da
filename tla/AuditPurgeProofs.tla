-------------------------- MODULE AuditPurgeProofs -------------------------
(* Proofs about DbOpen and AuditPurge, for any limits, any moment Postgres *)
(* is ready, and any entries, settings and calendar whose ages, like the   *)
(* retention, fit in a Duration.                                           *)
EXTENDS AuditPurge, DurationsProofs

USE DbOpenAssumption DEF DbOpenAssumption

-----------------------------------------------------------------------------
(* dbutil.Open. *)

LEMMA OpenInit == Init => IInv
<1> USE DEF IInv, TypeOK, Timely, PingedAtEachTick, EndsByDeadline, FailsOnlyIfLate
<1> SUFFICES ASSUME Init
             PROVE  IInv
  OBVIOUS
<1>1. now = 0 /\ readyAt \in Nat /\ pc \in {"ping", "failed"}
  BY DEF Init
<1>2. cancelled \in BOOLEAN /\ hung \in BOOLEAN
  BY DEF Init
<1>3. 0 \in Nat /\ 0 <= Deadline + 1
  OBVIOUS
<1> QED  BY <1>1, <1>2, <1>3

LEMMA OpenStep ==
  ASSUME IInv, [Next]_vars
  PROVE  IInv'
<1> USE DEF IInv, TypeOK, Timely, PingedAtEachTick, EndsByDeadline, FailsOnlyIfLate
<1>1. CASE PingAnswered
  BY <1>1 DEF PingAnswered
<1>2. CASE PingFails
  <2>1. CASE now > Deadline
    BY <1>2, <2>1 DEF PingFails, GiveUpOrSleep, PingDone
  <2>2. CASE now <= Deadline
    BY <1>2, <2>2 DEF PingFails, GiveUpOrSleep, PingDone
  <2> QED  BY <2>1, <2>2
<1>3. CASE PingHangs
  BY <1>3 DEF PingHangs, PingDone
<1>4. CASE Sleep
  BY <1>4 DEF Sleep
<1>5. CASE Cancel
  BY <1>5 DEF Cancel
<1>6. CASE UNCHANGED vars
  BY <1>6 DEF vars
<1> QED  BY <1>1, <1>2, <1>3, <1>4, <1>5, <1>6 DEF Next, Looks

(* IInv is an invariant of Open. *)
THEOREM Invariant == Spec => []IInv
<1> QED  BY OpenInit, OpenStep, PTL DEF Spec

(* Open's loop is over a tick after the deadline and never gives up before. *)
THEOREM OnTime == Spec => []EndsByDeadline
<1>1. IInv => EndsByDeadline
  BY DEF IInv
<1> QED  BY <1>1, Invariant, PTL

(* A Postgres ready within the first context is never missed, unless a     *)
(* ping hangs or the caller is cancelled.                                  *)
THEOREM NotMissed == Spec => []FailsOnlyIfLate
<1>1. IInv => FailsOnlyIfLate
  BY DEF IInv
<1> QED  BY <1>1, Invariant, PTL

-----------------------------------------------------------------------------
(* The cron job. *)

USE AuditPurgeAssumption DEF AuditPurgeAssumption

(* Every start of a process enters Open afresh; nothing else disturbs it. *)
LEMMA OpenInPurge ==
  ASSUME IInv, [PurgeNext]_purgeVars
  PROVE  IInv'
<1>1. CASE \E kind \in {"purge", "service"} : Launch(kind)
  <2>1. Init'
    BY <1>1 DEF Launch, Init
  <2>2. Init' => IInv'
    BY OpenInit, PTL
  <2> QED  BY <2>1, <2>2
<1>2. CASE Opens
  <2>1. Next
    BY <1>2 DEF Opens, Next
  <2> QED  BY <2>1, OpenStep
<1>3. CASE UNCHANGED vars
  BY <1>3, OpenStep
<1>4. \/ \E kind \in {"purge", "service"} : Launch(kind)
      \/ Opens
      \/ UNCHANGED vars
  BY DEF PurgeNext, Purge, EndsUnpurged, Ends, WriteAudit, Advance, purgeVars
<1> QED  BY <1>1, <1>2, <1>3, <1>4

(* While the retention fits in a Duration, the DELETE takes exactly the    *)
(* entries that are older, in days.                                        *)
LEMMA OlderMeansDays ==
  ASSUME PurgeTypeOK, InTable, Days <= Longest, NEW e \in log
  PROVE  OlderThan(e, Retention(Days)) <=> today - ts[e] > Days
<1>1. Days \in Nat /\ Days <= 106751
  BY DEF Days, PurgeTypeOK
<1>2. today - ts[e] \in Nat /\ today - ts[e] <= 106751
  <2>0. e \in Entries /\ ts[e] # -1 /\ ts[e] <= today
    BY DEF InTable
  <2>1. ts[e] \in 0 .. LastDay
    BY <2>0 DEF PurgeTypeOK
  <2>2. today \in 0 .. LastDay /\ LastDay <= 106751
    BY DEF PurgeTypeOK
  <2> QED  BY <2>0, <2>1, <2>2
<1> DEFINE n == Days
           k == today - ts[e]
<1>3. OlderThan(e, Retention(n))
        <=> Less(Hours(Times(24)[Of(n)]), Hours(Times(24)[Of(k)]))
  BY DEF OlderThan, Retention, Age
<1>4. Less(Hours(Times(24)[Of(n)]), Hours(Times(24)[Of(k)])) <=> n < k
  <2> HIDE DEF n, k
  <2>1. n \in Nat /\ n <= 106751 /\ k \in Nat /\ k <= 106751
    BY <1>1, <1>2 DEF n, k
  <2> QED  BY <2>1, DaysCompare
<1>5. n < k <=> k > n
  BY <1>1, <1>2
<1> QED  BY <1>3, <1>4, <1>5

(* The purge keeps the types, the history and the retention. *)
LEMMA PurgeStep ==
  ASSUME PurgeTypeOK, InTable, RetentionKept, [PurgeNext]_purgeVars
  PROVE  PurgeTypeOK' /\ InTable' /\ RetentionKept'
<1> USE DEF PurgeTypeOK, InTable
<1>1. CASE Purge
  <2> DEFINE old == {e \in log : OlderThan(e, Retention(Days))}
  <2>1. /\ log' = log \ old
        /\ deletedOn' = [e \in Entries |-> IF e \in old THEN today ELSE deletedOn[e]]
        /\ process' = "none" /\ UNCHANGED <<setting, today, ts>>
    BY <1>1 DEF Purge, Ends
  <2>2. old \subseteq log
    OBVIOUS
  <2>3. Days \in Nat /\ Days' = Days
    BY <2>1 DEF Days
  <2>4. \A e \in old : today - ts[e] > Days \/ Days > Longest
    BY <2>3, OlderMeansDays
  <2> HIDE DEF old
  <2>5. PurgeTypeOK'
    BY <2>1
  <2>6. InTable'
    BY <2>1, <2>2
  <2>7. RetentionKept'
    BY <2>1, <2>3, <2>4 DEF RetentionKept
  <2> QED  BY <2>5, <2>6, <2>7
<1>2. ASSUME NEW e \in Entries, WriteAudit(e)
      PROVE  PurgeTypeOK' /\ InTable' /\ RetentionKept'
  <2>1. /\ ts[e] = -1 /\ ts' = [ts EXCEPT ![e] = today]
        /\ log' = log \cup {e} /\ UNCHANGED <<process, setting, today, deletedOn>>
    BY <1>2 DEF WriteAudit
  <2>2. deletedOn[e] = -1
    BY <2>1
  <2>3. Days' = Days
    BY <2>1 DEF Days
  <2> QED  BY <2>1, <2>2, <2>3 DEF RetentionKept
<1>3. ASSUME NEW k \in Jumps, Advance(k)
      PROVE  PurgeTypeOK' /\ InTable' /\ RetentionKept'
  <2>1. today' = today + k /\ today' <= LastDay /\ UNCHANGED <<process, setting, audit>>
    BY <1>3 DEF Advance
  <2>2. k \in Nat
    OBVIOUS
  <2>3. Days' = Days
    BY <2>1 DEF Days
  <2> QED  BY <2>1, <2>2, <2>3 DEF RetentionKept, audit
<1>4. CASE /\ UNCHANGED <<setting, today, audit>>
           /\ process' \in {"none", "purge", "service"}
  <2>1. Days' = Days
    BY <1>4 DEF Days
  <2> QED  BY <1>4, <2>1 DEF RetentionKept, audit
<1>5. CASE \E kind \in {"purge", "service"} : Launch(kind)
  BY <1>4, <1>5 DEF Launch
<1>6. CASE Opens
  BY <1>4, <1>6 DEF Opens
<1>7. CASE EndsUnpurged
  BY <1>4, <1>7 DEF EndsUnpurged, Ends, audit
<1>8. CASE UNCHANGED purgeVars
  BY <1>4, <1>8 DEF purgeVars
<1> QED
  BY <1>1, <1>2, <1>3, <1>5, <1>6, <1>7, <1>8 DEF PurgeNext

(* PurgeInv is inductive. *)
THEOREM PurgeInvariant == PurgeSpec => []PurgeInv
<1>1. PurgeInit => PurgeInv
  <2> SUFFICES ASSUME PurgeInit
               PROVE  PurgeInv
    OBVIOUS
  <2>1. IInv
    BY OpenInit DEF PurgeInit
  <2>2. PurgeTypeOK /\ InTable /\ RetentionKept
    BY DEF PurgeInit, PurgeTypeOK, InTable, RetentionKept
  <2> QED  BY <2>1, <2>2 DEF PurgeInv
<1>2. PurgeInv /\ [PurgeNext]_purgeVars => PurgeInv'
  BY OpenInPurge, PurgeStep DEF PurgeInv
<1> QED  BY <1>1, <1>2, PTL DEF PurgeSpec

(* No entry is deleted before the retention is over, unless the setting    *)
(* does not fit in a Duration.                                             *)
THEOREM Retained == PurgeSpec => []RetentionKept
<1>1. PurgeInv => RetentionKept
  BY DEF PurgeInv
<1> QED  BY <1>1, PurgeInvariant, PTL

(* However often processes start, Open is on time and misses no Postgres   *)
(* that is ready.                                                          *)
THEOREM OpensOnTime == PurgeSpec => [](EndsByDeadline /\ FailsOnlyIfLate)
<1>1. PurgeInv => EndsByDeadline /\ FailsOnlyIfLate
  BY DEF PurgeInv, IInv
<1> QED  BY <1>1, PurgeInvariant, PTL

(* A purge that succeeds leaves the entries within the retention and no    *)
(* other, if the setting fits in a Duration.                               *)
THEOREM PurgeIsExact ==
  PurgeSpec =>
    [][Purge /\ Days <= Longest =>
         log' = {e \in log : today - ts[e] <= Days}]_purgeVars
<1>1. PurgeInv /\ [PurgeNext]_purgeVars =>
        [Purge /\ Days <= Longest =>
           log' = {e \in log : today - ts[e] <= Days}]_purgeVars
  <2> SUFFICES ASSUME PurgeInv, Purge, Days <= Longest
               PROVE  log' = {e \in log : today - ts[e] <= Days}
    OBVIOUS
  <2>1. log' = log \ {e \in log : OlderThan(e, Retention(Days))}
    BY DEF Purge
  <2>2. \A e \in log : OlderThan(e, Retention(Days)) <=> today - ts[e] > Days
    BY OlderMeansDays DEF PurgeInv
  <2>3. \A e \in log : today - ts[e] > Days <=> ~(today - ts[e] <= Days)
    BY DEF PurgeInv, PurgeTypeOK, InTable, Days
  <2> QED  BY <2>1, <2>2, <2>3
<1> QED  BY <1>1, PurgeInvariant, PTL DEF PurgeSpec

=============================================================================

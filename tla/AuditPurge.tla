----------------------------- MODULE AuditPurge ----------------------------
(***************************************************************************)
(* cmd/audit-purge and PurgeAuditOlderThan: a cron job that deletes the    *)
(* audit entries older than AUDIT_RETENTION_DAYS.  Days are whole, and a   *)
(* run takes less than one.                                                *)
(*                                                                         *)
(* A run begins with dbutil.Open, as the starts of api and worker do;      *)
(* theirs differs in the context, which a signal cancels.  The one of      *)
(* audit-purge lasts 60 s, longer than Open.                               *)
(***************************************************************************)
EXTENDS DbOpen, Durations

CONSTANTS
  Entries,      \* audit entries that may be written
  Settings,     \* AUDIT_RETENTION_DAYS: a number, or Unset
  Unset,        \* not set, no number, or not positive
  Longest,      \* days whose nanoseconds fit in 63 bits, at most 106751
  Jumps,        \* days that may pass at once
  LastDay       \* bound: when the clock stops; an age is such a number

ASSUME AuditPurgeAssumption ==
  /\ Unset = 0
  /\ Settings \subseteq Nat
  /\ Jumps \subseteq Nat \ {0}
  /\ Longest \in Nat /\ Longest <= 106751
  /\ LastDay \in Nat /\ LastDay <= Longest

VARIABLES
  process,      \* "none", "purge", or "service": an api or a worker
  setting,      \* the environment variable of the cron job
  today,
  log,          \* audit_log: entries in the table
  ts,           \* day an entry was written
  deletedOn     \* history: day an entry was deleted, or -1

audit     == <<log, ts, deletedOn>>
purgeVars == <<vars, process, setting, today, audit>>

PurgeInit ==
  /\ Init
  /\ process = "none"
  /\ setting \in Settings
  /\ today = 0
  /\ log = {}
  /\ ts = [e \in Entries |-> -1]
  /\ deletedOn = [e \in Entries |-> -1]

(* A process enters Open. *)
Launch(kind) ==
  /\ process = "none"
  /\ process' = kind
  /\ now' = 0
  /\ pc' \in {"ping", "failed"}
  /\ readyAt' \in Readies
  /\ cancelled' = FALSE /\ hung' = FALSE
  /\ UNCHANGED <<setting, today, audit>>

Opens ==
  /\ process # "none"
  /\ Looks \/ (process = "service" /\ Cancel)
  /\ UNCHANGED <<process, setting, today, audit>>

(* WriteAudit *)
WriteAudit(e) ==
  /\ ts[e] = -1
  /\ ts' = [ts EXCEPT ![e] = today]
  /\ log' = log \cup {e}
  /\ UNCHANGED <<vars, process, setting, today, deletedOn>>

Advance(k) ==
  /\ process = "none"
  /\ today + k <= LastDay
  /\ today' = today + k
  /\ UNCHANGED <<vars, process, setting, audit>>

Days == IF setting = Unset THEN 90 ELSE setting

(* How long ago an entry was written: real time, which does not wrap. *)
Age(e) == Hours(Times(24)[Of(today - ts[e])])

(* Mutant: the comparison is the wrong way round. *)
YoungerThan(e, d) == Less(Age(e), d)

(* ts < now() - d *)
OlderThan(e, d) == Less(d, Age(e))

Ends == process' = "none" /\ UNCHANGED <<vars, setting, today, ts>>

Purge ==
  LET old == {e \in log : OlderThan(e, Retention(Days))} IN
  /\ process = "purge"
  /\ pc = "opened"
  /\ log' = log \ old
  /\ deletedOn' = [e \in Entries |-> IF e \in old THEN today ELSE deletedOn[e]]
  /\ Ends

(* Open or the DELETE has failed; a service goes on to Migrate. *)
EndsUnpurged ==
  /\ process # "none"
  /\ pc \in {"opened", "failed"}
  /\ Ends
  /\ UNCHANGED <<log, deletedOn>>

PurgeNext ==
  \/ \E kind \in {"purge", "service"} : Launch(kind)
  \/ Opens \/ Purge \/ EndsUnpurged
  \/ \E e \in Entries : WriteAudit(e)
  \/ \E k \in Jumps : Advance(k)

PurgeSpec == PurgeInit /\ [][PurgeNext]_purgeVars

(* A process runs on.  Again and again the cron job finds Postgres ready   *)
(* and its DELETE succeeds.                                                *)
PurgeFairSpec ==
  /\ PurgeSpec
  /\ WF_purgeVars(Opens)
  /\ WF_purgeVars(EndsUnpurged)
  /\ SF_purgeVars(Purge)
  /\ SF_purgeVars(Launch("purge") /\ readyAt' = 0 /\ pc' = "ping")

-----------------------------------------------------------------------------
(* No entry is deleted before the retention is over ("rétention de l'audit *)
(* log en jours", README.md:40), unless the setting does not fit in a      *)
(* Duration: then it may wrap to the past.                                 *)
RetentionKept ==
  \A e \in Entries :
    deletedOn[e] # -1 => deletedOn[e] - ts[e] > Days \/ Days > Longest

(* An entry that is past the retention is deleted (main.go:1-2), however   *)
(* often a run fails.                                                      *)
PurgedInTheEnd ==
  \A e \in Entries : (e \in log /\ today - ts[e] > Days) ~> (e \notin log)

-----------------------------------------------------------------------------
(* The inductive invariant. *)

(* Every variable has its type. *)
PurgeTypeOK ==
  /\ process \in {"none", "purge", "service"}
  /\ setting \in Settings
  /\ today \in 0 .. LastDay
  /\ ts \in [Entries -> -1 .. LastDay]
  /\ deletedOn \in [Entries -> -1 .. LastDay]

(* An entry is in the table from the day it is written to the day it is    *)
(* deleted.                                                                *)
InTable ==
  /\ log = {e \in Entries : ts[e] # -1 /\ deletedOn[e] = -1}
  /\ \A e \in Entries : ts[e] <= today
  /\ \A e \in Entries : deletedOn[e] # -1 => ts[e] # -1

PurgeInv == IInv /\ PurgeTypeOK /\ InTable /\ RetentionKept

=============================================================================

---------------------------- MODULE MCAuditPurge ---------------------------
(* AuditPurge on a small instance: a pause of Open is a fifth of its        *)
(* deadline.  106751 days are the last number that fits in a Duration;     *)
(* 999999 stands for "keep everything".                                    *)
EXTENDS AuditPurge

TwoEntries == {1, 2}
Retentions == {Unset, 60, 106751, 999999}
Months     == {30, 61}
AnyTime    == {0, 1, 2, 4, 7}

=============================================================================

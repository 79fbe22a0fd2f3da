----------------------------- MODULE Durations -----------------------------
(***************************************************************************)
(* time.Duration as the code uses it: a signed 64-bit count of nanoseconds *)
(* whose products wrap.  A duration is four 16-bit words, low word first,  *)
(* in two's complement.                                                    *)
(***************************************************************************)
EXTENDS Integers

Base == 65536
Word == 0 .. Base - 1
Duration == Word \X Word \X Word \X Word

(* A number below 2^31. *)
Of(n) == <<n % Base, n \div Base, 0, 0>>

(* 1 << n *)
Shift(n) ==
  LET word(i) == IF n \div 16 = i THEN 2^(n % 16) ELSE 0
  IN  <<word(0), word(1), word(2), word(3)>>

(* Times a number below 2^15, modulo 2^64. *)
Times(m) == [a \in Duration |->
  LET w1 == a[1] * m
      w2 == a[2] * m + w1 \div Base
      w3 == a[3] * m + w2 \div Base
      w4 == a[4] * m + w3 \div Base
  IN  <<w1 % Base, w2 % Base, w3 % Base, w4 % Base>>]

(* a * time.Second, a * time.Hour *)
Seconds(a) == Times(1000)[Times(1000)[Times(1000)[a]]]
Hours(a)   == Seconds(Times(3600)[a])

Negative(a) == a[4] >= Base \div 2

Less(a, b) ==
  \/ Negative(a) /\ ~Negative(b)
  \/ /\ Negative(a) <=> Negative(b)
     /\ \E i \in 1 .. 4 : a[i] < b[i] /\ \A k \in i + 1 .. 4 : a[k] = b[k]

-----------------------------------------------------------------------------
(* The seconds the backoff is meant to be: doubling, at most five minutes. *)
Meant(attempts) == IF attempts <= 8 THEN 2^attempts ELSE 300

(* Mutant: the delay grows without the cap. *)
BackoffUncapped(attempts) == Seconds(Shift(attempts))

(* FailJob: the delay before the next attempt. *)
Backoff(attempts) ==
  LET backoff == Seconds(Shift(attempts))
      most    == Seconds(Of(5 * 60))
  IN  IF Less(most, backoff) THEN most ELSE backoff

(* Mutant: the hours of a day are forgotten. *)
RetentionInHours(days) == Hours(Of(days))

(* cmd/audit-purge: the retention given to PurgeAuditOlderThan. *)
Retention(days) == Hours(Times(24)[Of(days)])

=============================================================================

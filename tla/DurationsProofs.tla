-------------------------- MODULE DurationsProofs --------------------------
(* Proofs about Durations: what its words stand for, as far as nothing     *)
(* wraps.                                                                  *)
EXTENDS Durations, TLAPS

(* The number of nanoseconds, for a duration that is not negative. *)
Value(a) ==
  a[1] + 65536 * a[2] + 4294967296 * a[3] + 281474976710656 * a[4]

LEMMA WordIs ==
  ASSUME NEW x
  PROVE  x \in Word <=> x \in Nat /\ x < Base
<1>1. Base \in Nat
  BY DEF Base
<1> QED  BY <1>1 DEF Word

LEMMA Division ==
  ASSUME NEW n \in Nat
  PROVE  /\ n % Base \in Word
         /\ n % Base \in Nat
         /\ n \div Base \in Nat
         /\ n = Base * (n \div Base) + (n % Base)
<1>1. n % Base < Base /\ n % Base \in Nat
  BY DEF Base
<1>2. n \div Base \in Nat /\ n = Base * (n \div Base) + (n % Base)
  BY DEF Base
<1> QED  BY <1>1, <1>2, WordIs

LEMMA WordsOf ==
  ASSUME NEW a \in Duration, NEW i \in 1 .. 4
  PROVE  a[i] \in Nat /\ a[i] < Base
<1>1. \A x \in Word : x \in Nat /\ x < Base
  BY WordIs
<1>2. a[1] \in Word /\ a[2] \in Word /\ a[3] \in Word /\ a[4] \in Word
  BY DEF Duration
<1> QED
  BY <1>1, <1>2

LEMMA Distribute ==
  ASSUME NEW a1 \in Nat, NEW a2 \in Nat, NEW a3 \in Nat, NEW a4 \in Nat,
         NEW m \in Nat
  PROVE  (a1 + 65536 * a2 + 4294967296 * a3 + 281474976710656 * a4) * m
           = a1 * m + 65536 * (a2 * m) + 4294967296 * (a3 * m)
               + 281474976710656 * (a4 * m)
BY SMT

(* The carries of a long multiplication cancel. *)
LEMMA Carries ==
  ASSUME NEW b1 \in Nat, NEW b2 \in Nat, NEW b3 \in Nat, NEW b4 \in Nat,
         NEW q1 \in Nat, NEW q2 \in Nat, NEW q3 \in Nat, NEW q4 \in Nat,
         NEW p1 \in Nat, NEW p2 \in Nat, NEW p3 \in Nat, NEW p4 \in Nat,
         b1 = 65536 * q1 + p1, b2 + q1 = 65536 * q2 + p2,
         b3 + q2 = 65536 * q3 + p3, b4 + q3 = 65536 * q4 + p4
  PROVE  b1 + 65536 * b2 + 4294967296 * b3 + 281474976710656 * b4
           = p1 + 65536 * p2 + 4294967296 * p3 + 281474976710656 * p4
               + 18446744073709551616 * q4
BY SMT

(* A product that fits is the product. *)
LEMMA Product ==
  ASSUME NEW a \in Duration, NEW m \in Nat,
         Value(a) * m < 18446744073709551616
  PROVE  /\ Times(m)[a] \in Duration
         /\ Value(Times(m)[a]) = Value(a) * m
<1> DEFINE w1 == a[1] * m
           w2 == a[2] * m + w1 \div Base
           w3 == a[3] * m + w2 \div Base
           w4 == a[4] * m + w3 \div Base
           p  == <<w1 % Base, w2 % Base, w3 % Base, w4 % Base>>
<1>1. a[1] \in Nat /\ a[2] \in Nat /\ a[3] \in Nat /\ a[4] \in Nat
  BY WordsOf
<1>2. w1 \in Nat
  BY <1>1
<1>3. w2 \in Nat
  BY <1>1, <1>2, Division
<1>4. w3 \in Nat
  BY <1>1, <1>3, Division
<1>5. w4 \in Nat
  BY <1>1, <1>4, Division
<1>6. Times(m)[a] = p
  BY DEF Times
<1>a. w1 = a[1] * m /\ w2 = a[2] * m + w1 \div Base /\ w3 = a[3] * m + w2 \div Base /\ w4 = a[4] * m + w3 \div Base 
  OBVIOUS
<1>p. p  = <<w1 % Base, w2 % Base, w3 % Base, w4 % Base>>
  OBVIOUS
<1> HIDE DEF w1, w2, w3, w4, p
<1>7. p \in Duration
  BY <1>2, <1>3, <1>4, <1>5, <1>p, Division DEF Duration
<1>8. p[1] = w1 % Base /\ p[2] = w2 % Base /\ p[3] = w3 % Base /\ p[4] = w4 % Base
  BY <1>p
<1> DEFINE q1 == w1 \div Base
           q2 == w2 \div Base
           q3 == w3 \div Base
           q4 == w4 \div Base
<1>9. /\ q1 \in Nat /\ q2 \in Nat /\ q3 \in Nat /\ q4 \in Nat
      /\ p[1] \in Nat /\ p[2] \in Nat /\ p[3] \in Nat /\ p[4] \in Nat
  BY <1>2, <1>3, <1>4, <1>5, <1>8, Division
<1>10. /\ a[1] * m = Base * q1 + p[1]
       /\ a[2] * m + q1 = Base * q2 + p[2]
       /\ a[3] * m + q2 = Base * q3 + p[3]
       /\ a[4] * m + q3 = Base * q4 + p[4]
  BY <1>2, <1>3, <1>4, <1>5, <1>8, <1>a, Division
<1> HIDE DEF q1, q2, q3, q4
<1>11. Value(a) * m = Value(p) + 18446744073709551616 * q4
  <2>1. Value(a) * m = a[1] * m + 65536 * (a[2] * m) + 4294967296 * (a[3] * m)
                         + 281474976710656 * (a[4] * m)
    BY <1>1, Distribute DEF Value
  <2> DEFINE b1 == a[1] * m
             b2 == a[2] * m
             b3 == a[3] * m
             b4 == a[4] * m
  <2>2. b1 \in Nat /\ b2 \in Nat /\ b3 \in Nat /\ b4 \in Nat
    BY <1>1
  <2>3. /\ b1 = 65536 * q1 + p[1]
        /\ b2 + q1 = 65536 * q2 + p[2]
        /\ b3 + q2 = 65536 * q3 + p[3]
        /\ b4 + q3 = 65536 * q4 + p[4]
    BY <1>10 DEF Base
  <2>4. Value(a) * m = b1 + 65536 * b2 + 4294967296 * b3 + 281474976710656 * b4
    BY <2>1
  <2> HIDE DEF b1, b2, b3, b4
  <2>5. b1 + 65536 * b2 + 4294967296 * b3 + 281474976710656 * b4
          = p[1] + 65536 * p[2] + 4294967296 * p[3] + 281474976710656 * p[4]
              + 18446744073709551616 * q4
    BY <2>2, <2>3, <1>9, Carries
  <2> QED  BY <2>4, <2>5 DEF Value
<1>12. q4 = 0
  <2>1. Value(p) \in Nat
    BY <1>9 DEF Value, Base
  <2> QED  BY <2>1, <1>9, <1>11 DEF Base
<1>13. Value(p) \in Nat
  BY <1>9 DEF Value, Base
<1> QED
  BY <1>6, <1>7, <1>11, <1>12, <1>13 DEF Base

LEMMA Small ==
  ASSUME NEW n \in Nat, n < 2147483648
  PROVE  Of(n) \in Duration /\ Value(Of(n)) = n
<1>1. n \div Base \in Word /\ 0 \in Word
  BY WordIs DEF Base
<1>2. n % Base \in Word
  BY Division
<1>3. Of(n) \in Duration
  BY <1>1, <1>2 DEF Of, Duration
<1>4. Of(n)[1] = n % Base /\ Of(n)[2] = n \div Base /\ Of(n)[3] = 0 /\ Of(n)[4] = 0
  BY DEF Of
<1> QED  BY <1>3, <1>4, Division DEF Value, Base

LEMMA Fits ==
  ASSUME NEW n \in Nat, n <= 9223372036
  PROVE  /\ n * 1000 < 18446744073709551616
         /\ (n * 1000) * 1000 < 18446744073709551616
         /\ (n * 1000000) * 1000 < 18446744073709551616
         /\ (n * 1000) * 1000 = n * 1000000
         /\ (n * 1000000) * 1000 = n * 1000000000
BY SMT DEF Base

LEMMA SecondsValue ==
  ASSUME NEW a \in Duration, Value(a) \in Nat, Value(a) <= 9223372036
  PROVE  /\ Seconds(a) \in Duration
         /\ Value(Seconds(a)) = Value(a) * 1000000000
<1> DEFINE b == Times(1000)[a]
           c == Times(1000)[b]
           d == Times(1000)[c]
<1>1. Seconds(a) = d
  BY DEF Seconds
<1> HIDE DEF b, c, d
<1>2. b \in Duration /\ Value(b) = Value(a) * 1000
  <2>1. Value(a) * 1000 < 18446744073709551616
    BY Fits
  <2>2. Value(Times(1000)[a]) = Value(a) * 1000 /\ Times(1000)[a] \in Duration
    BY <2>1, Product
  <2> QED  BY <2>2 DEF b
<1>3. c \in Duration /\ Value(c) = Value(a) * 1000000
  <2>1. Value(b) * 1000 < 18446744073709551616
    BY <1>2, Fits
  <2>2. Value(Times(1000)[b]) = Value(b) * 1000 /\ Times(1000)[b] \in Duration
    BY <1>2, <2>1, Product
  <2> QED  BY <1>2, <2>2, Fits DEF c
<1>4. d \in Duration /\ Value(d) = Value(a) * 1000000000
  <2>1. Value(c) * 1000 < 18446744073709551616
    BY <1>3, Fits
  <2>2. Value(Times(1000)[c]) = Value(c) * 1000 /\ Times(1000)[c] \in Duration
    BY <1>3, <2>1, Product
  <2> QED  BY <1>3, <2>2, Fits DEF d
<1> QED  BY <1>1, <1>4

(* The highest word that differs decides. *)
LEMMA Words ==
  ASSUME NEW a, NEW b, ~Negative(a), ~Negative(b)
  PROVE  Less(a, b) <=>
           \/ a[1] < b[1] /\ a[2] = b[2] /\ a[3] = b[3] /\ a[4] = b[4]
           \/ a[2] < b[2] /\ a[3] = b[3] /\ a[4] = b[4]
           \/ a[3] < b[3] /\ a[4] = b[4]
           \/ a[4] < b[4]
<1> DEFINE P(i) == a[i] < b[i] /\ \A k \in i + 1 .. 4 : a[k] = b[k]
<1>1. Less(a, b) <=> \E i \in 1 .. 4 : P(i)
  BY Zenon DEF Less
<1>2. (\E i \in 1 .. 4 : P(i)) <=> P(1) \/ P(2) \/ P(3) \/ P(4)
  <2> HIDE DEF P
  <2>1. 1 .. 4 = {1, 2, 3, 4}
    OBVIOUS
  <2> QED  BY <2>1
<1>3. /\ P(1) <=> a[1] < b[1] /\ a[2] = b[2] /\ a[3] = b[3] /\ a[4] = b[4]
      /\ P(2) <=> a[2] < b[2] /\ a[3] = b[3] /\ a[4] = b[4]
      /\ P(3) <=> a[3] < b[3] /\ a[4] = b[4]
      /\ P(4) <=> a[4] < b[4]
  <2>1. 1 + 1 .. 4 = {2, 3, 4} /\ 2 + 1 .. 4 = {3, 4} /\ 3 + 1 .. 4 = {4} /\ 4 + 1 .. 4 = {}
    OBVIOUS
  <2> QED  BY <2>1
<1> HIDE DEF P
<1> QED  BY <1>1, <1>2, <1>3

LEMMA Lexicographic ==
  ASSUME NEW a1 \in Nat, NEW a2 \in Nat, NEW a3 \in Nat, NEW a4 \in Nat,
         NEW b1 \in Nat, NEW b2 \in Nat, NEW b3 \in Nat, NEW b4 \in Nat,
         a1 < 65536, a2 < 65536, a3 < 65536, b1 < 65536, b2 < 65536, b3 < 65536
  PROVE  (\/ a1 < b1 /\ a2 = b2 /\ a3 = b3 /\ a4 = b4
          \/ a2 < b2 /\ a3 = b3 /\ a4 = b4
          \/ a3 < b3 /\ a4 = b4
          \/ a4 < b4)
         <=> a1 + 65536 * a2 + 4294967296 * a3 + 281474976710656 * a4
               < b1 + 65536 * b2 + 4294967296 * b3 + 281474976710656 * b4
BY SMT

(* Durations that are not negative compare as their values. *)
LEMMA Order ==
  ASSUME NEW a \in Duration, NEW b \in Duration,
         Value(a) < 9223372036854775808, Value(b) < 9223372036854775808
  PROVE  Less(a, b) <=> Value(a) < Value(b)
<1>1. \A i \in 1 .. 4 : a[i] \in Nat /\ a[i] < 65536 /\ b[i] \in Nat /\ b[i] < 65536
  BY WordsOf DEF Base
<1>2. a[4] < 32768 /\ b[4] < 32768
  BY <1>1 DEF Value, Base
<1>3. ~Negative(a) /\ ~Negative(b)
  BY <1>1, <1>2 DEF Negative, Base
<1>4. (\/ a[1] < b[1] /\ a[2] = b[2] /\ a[3] = b[3] /\ a[4] = b[4]
       \/ a[2] < b[2] /\ a[3] = b[3] /\ a[4] = b[4]
       \/ a[3] < b[3] /\ a[4] = b[4]
       \/ a[4] < b[4])
      <=> Value(a) < Value(b)
  <2> DEFINE a1 == a[1]  a2 == a[2]  a3 == a[3]  a4 == a[4]
             b1 == b[1]  b2 == b[2]  b3 == b[3]  b4 == b[4]
             va == a1 + 65536 * a2 + 4294967296 * a3 + 281474976710656 * a4
             vb == b1 + 65536 * b2 + 4294967296 * b3 + 281474976710656 * b4
  <2>1. /\ a1 \in Nat /\ a2 \in Nat /\ a3 \in Nat /\ a4 \in Nat
        /\ b1 \in Nat /\ b2 \in Nat /\ b3 \in Nat /\ b4 \in Nat
        /\ a1 < 65536 /\ a2 < 65536 /\ a3 < 65536
        /\ b1 < 65536 /\ b2 < 65536 /\ b3 < 65536
    BY <1>1
  <2>2. Value(a) = va /\ Value(b) = vb
    BY DEF Value
  <2> HIDE DEF a1, a2, a3, a4, b1, b2, b3, b4
  <2>3. (\/ a1 < b1 /\ a2 = b2 /\ a3 = b3 /\ a4 = b4
         \/ a2 < b2 /\ a3 = b3 /\ a4 = b4
         \/ a3 < b3 /\ a4 = b4
         \/ a4 < b4)
        <=> va < vb
    BY <2>1, Lexicographic
  <2> HIDE DEF va, vb
  <2> QED  BY <2>2, <2>3 DEF a1, a2, a3, a4, b1, b2, b3, b4
<1> QED  BY <1>3, <1>4, Words

(* So many days, in nanoseconds. *)
LEMMA DaysValue ==
  ASSUME NEW n \in Nat, n <= 106751
  PROVE  /\ Hours(Times(24)[Of(n)]) \in Duration
         /\ Value(Hours(Times(24)[Of(n)])) = n * 86400000000000
<1> DEFINE a == Of(n)
           b == Times(24)[a]
           c == Times(3600)[b]
<1>1. a \in Duration /\ Value(a) = n
  BY Small
<1> HIDE DEF a
<1>2. b \in Duration /\ Value(b) = n * 24
  BY <1>1, Product
<1> HIDE DEF b
<1>3. c \in Duration /\ Value(c) = n * 86400
  BY <1>2, Product
<1> HIDE DEF c
<1>4. Seconds(c) \in Duration /\ Value(Seconds(c)) = n * 86400000000000
  BY <1>3, SecondsValue
<1> QED  BY <1>4 DEF a, b, c, Hours

(* Up to 106751 days, durations of whole days compare as the days do. *)
LEMMA DaysCompare ==
  ASSUME NEW n \in Nat, n <= 106751, NEW k \in Nat, k <= 106751
  PROVE  Less(Hours(Times(24)[Of(n)]), Hours(Times(24)[Of(k)])) <=> n < k
<1> DEFINE a == Hours(Times(24)[Of(n)])
           b == Hours(Times(24)[Of(k)])
<1>1. /\ a \in Duration /\ Value(a) = n * 86400000000000
      /\ b \in Duration /\ Value(b) = k * 86400000000000
  BY DaysValue
<1> HIDE DEF a, b
<1>2. Less(a, b) <=> Value(a) < Value(b)
  BY <1>1, Order
<1>3. Less(a, b) <=> n < k
  BY <1>1, <1>2
<1> QED  BY <1>3 DEF a, b

(* A name for the powers, which the provers match better than ^. *)
Pow(n) == 2^n

LEMMA Powers ==
  ASSUME NEW n \in 0 .. 15
  PROVE  /\ Pow(n) \in Word /\ Pow(n) \in Nat /\ Pow(n) >= 1 /\ Pow(n) <= 32768
         /\ n <= 1 => Pow(n) <= 2
         /\ n <= 8 => Pow(n) <= 256
         /\ n >= 9 => Pow(n) >= 512
<1>1. CASE n = 0
  BY <1>1, WordIs DEF Base, Pow
<1>2. CASE n = 1
  BY <1>2, WordIs DEF Base, Pow
<1>3. CASE n = 2
  BY <1>3, WordIs DEF Base, Pow
<1>4. CASE n = 3
  BY <1>4, WordIs DEF Base, Pow
<1>5. CASE n = 4
  BY <1>5, WordIs DEF Base, Pow
<1>6. CASE n = 5
  BY <1>6, WordIs DEF Base, Pow
<1>7. CASE n = 6
  BY <1>7, WordIs DEF Base, Pow
<1>8. CASE n = 7
  BY <1>8, WordIs DEF Base, Pow
<1>9. CASE n = 8
  BY <1>9, WordIs DEF Base, Pow
<1>10. CASE n = 9
  BY <1>10, WordIs DEF Base, Pow
<1>11. CASE n = 10
  BY <1>11, WordIs DEF Base, Pow
<1>12. CASE n = 11
  BY <1>12, WordIs DEF Base, Pow
<1>13. CASE n = 12
  BY <1>13, WordIs DEF Base, Pow
<1>14. CASE n = 13
  BY <1>14, WordIs DEF Base, Pow
<1>15. CASE n = 14
  BY <1>15, WordIs DEF Base, Pow
<1>16. CASE n = 15
  BY <1>16, WordIs DEF Base, Pow
<1> QED
  BY <1>1, <1>2, <1>3, <1>4, <1>5, <1>6, <1>7, <1>8, <1>9, <1>10, <1>11, <1>12, <1>13, <1>14, <1>15, <1>16

LEMMA ShiftValue ==
  ASSUME NEW n \in 1 .. 33
  PROVE  /\ Shift(n) \in Duration
         /\ Value(Shift(n)) \in Nat
         /\ Value(Shift(n)) <= 8589934592
         /\ n <= 8 => Value(Shift(n)) = Pow(n)
         /\ n >= 9 => Value(Shift(n)) >= 512
<1>0. 0 \in Word
  BY WordIs DEF Base
<1>1. CASE n <= 15
  <2>1. n \div 16 = 0 /\ n % 16 = n
    BY <1>1
  <2>2. Shift(n) = <<Pow(n), 0, 0, 0>>
    BY <2>1 DEF Shift, Pow
  <2>3. n \in 0 .. 15
    BY <1>1
  <2>4. Shift(n) \in Duration
    BY <1>0, <2>2, <2>3, Powers DEF Duration
  <2>5. Value(Shift(n)) = Pow(n)
    BY <2>2, <2>3, Powers DEF Value
  <2>6. Pow(n) \in Nat /\ Pow(n) <= 32768 /\ (n >= 9 => Pow(n) >= 512)
    BY <2>3, Powers
  <2> QED  BY <2>4, <2>5, <2>6
<1>2. CASE n \in 16 .. 31
  <2> DEFINE k == n - 16
  <2>1. n \div 16 = 1 /\ n % 16 = k /\ k \in 0 .. 15
    BY <1>2
  <2>2. Shift(n) = <<0, Pow(k), 0, 0>>
    BY <2>1 DEF Shift, Pow
  <2> HIDE DEF k
  <2>4. Shift(n) \in Duration
    BY <1>0, <2>1, <2>2, Powers DEF Duration
  <2>5. Value(Shift(n)) = 65536 * Pow(k)
    BY <2>1, <2>2, Powers DEF Value
  <2> QED  BY <1>2, <2>1, <2>4, <2>5, Powers
<1>3. CASE n \in 32 .. 33
  <2> DEFINE k == n - 32
  <2>1. n \div 16 = 2 /\ n % 16 = k /\ k \in 0 .. 1
    BY <1>3
  <2>2. Shift(n) = <<0, 0, Pow(k), 0>>
    BY <2>1 DEF Shift, Pow
  <2> HIDE DEF k
  <2>3. Pow(k) \in Word /\ Pow(k) \in Nat /\ Pow(k) >= 1 /\ Pow(k) <= 2
    BY <2>1, Powers
  <2>4. Shift(n) \in Duration
    BY <1>0, <2>2, <2>3 DEF Duration
  <2>5. Value(Shift(n)) = 4294967296 * Pow(k)
    BY <2>2, <2>3 DEF Value
  <2> QED  BY <1>3, <2>3, <2>4, <2>5
<1> QED  BY <1>1, <1>2, <1>3

(* FailJob's backoff is the doubling, capped delay for every number of     *)
(* attempts whose power of two, in seconds, fits in a Duration.            *)
THEOREM BackoffDoubles ==
  ASSUME NEW n \in 1 .. 33
  PROVE  Backoff(n) = Seconds(Of(Meant(n)))
<1> DEFINE backoff == Seconds(Shift(n))
           most    == Seconds(Of(300))
<1>1. 5 * 60 = 300
  OBVIOUS
<1>2. Backoff(n) = IF Less(most, backoff) THEN most ELSE backoff
  BY <1>1 DEF Backoff
<1>3. backoff \in Duration /\ Value(backoff) = Value(Shift(n)) * 1000000000
  BY ShiftValue, SecondsValue
<1>4. Of(300) \in Duration /\ Value(Of(300)) = 300
  BY Small
<1>5. most \in Duration /\ Value(most) = 300000000000
  BY <1>4, SecondsValue
<1> HIDE DEF backoff, most
<1>6. Less(most, backoff) <=> 300 < Value(Shift(n))
  <2>1. Value(backoff) < 9223372036854775808
    BY <1>3, ShiftValue
  <2>2. Less(most, backoff) <=> Value(most) < Value(backoff)
    BY <2>1, <1>3, <1>5, Order
  <2> QED  BY <1>3, <1>5, <2>2, ShiftValue
<1>7. CASE n >= 9
  BY <1>2, <1>6, <1>7, ShiftValue DEF Meant, most
<1>8. CASE n <= 8
  <2>1. Value(Shift(n)) = Pow(n) /\ Pow(n) \in 1 .. 256
    BY <1>8, ShiftValue, Powers
  <2>2. Shift(n) = Of(Pow(n))
    <3>1. n \div 16 = 0 /\ n % 16 = n
      BY <1>8
    <3>2. Pow(n) % Base = Pow(n) /\ Pow(n) \div Base = 0
      BY <2>1 DEF Base
    <3> QED  BY <3>1, <3>2 DEF Shift, Of, Pow
  <2>3. Meant(n) = Pow(n)
    BY <1>8 DEF Meant, Pow
  <2> QED  BY <1>2, <1>6, <2>1, <2>2, <2>3 DEF backoff
<1> QED  BY <1>7, <1>8

(* Different numbers of seconds are different durations. *)
LEMMA SecondsInjective ==
  ASSUME NEW n \in Nat, n < 2147483648, NEW k \in Nat, k < 2147483648,
         Seconds(Of(n)) = Seconds(Of(k))
  PROVE  n = k
<1>1. n <= 9223372036 /\ k <= 9223372036
  OBVIOUS
<1>2. /\ Of(n) \in Duration /\ Value(Of(n)) = n
      /\ Of(k) \in Duration /\ Value(Of(k)) = k
  BY <1>1, Small
<1>3. /\ Value(Seconds(Of(n))) = n * 1000000000
      /\ Value(Seconds(Of(k))) = k * 1000000000
  BY <1>1, <1>2, SecondsValue
<1>4. n * 1000000000 = k * 1000000000
  BY <1>3
<1> QED  BY <1>1, <1>4

=============================================================================

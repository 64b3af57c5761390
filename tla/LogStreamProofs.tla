------------------------- MODULE LogStreamProofs ----------------------------
(***************************************************************************)
(* LogStream for every size of the buffer, every line and every sequence   *)
(* of pieces: the text of numbers, that no operator writes outside data_,  *)
(* which lines lose their newline, and the time in a header.  The one      *)
(* assumption on numbers is that their digits fit in kMaxNumericSize.      *)
(***************************************************************************)
EXTENDS LogStream, Induction

(* The text of numbers.                                                    *)

\* What is left of the value after each round of the loop of convert().
LEMMA RestsIs ==
  ASSUME NEW v, NEW base, kMaxNumericSize \in Nat
  PROVE  \A k \in 0..kMaxNumericSize :
            Rests(v, base)[k] = IF k = 0 THEN v ELSE Quotient(Rests(v, base)[k - 1], base)
<1> DEFINE Is(f, n) == f = [k \in 0..n |-> IF k = 0 THEN v ELSE Quotient(f[k - 1], base)]
           S == {n \in Nat : \E f : Is(f, n)}
<1>1. 0 \in S
  <2> DEFINE f == [k \in 0..0 |-> v]
  <2>1. Is(f, 0)
    BY SMT
  <2> QED
    BY <2>1, Zenon
<1>2. \A n \in Nat : n \in S => n + 1 \in S
  <2> SUFFICES ASSUME NEW n \in Nat, NEW f, Is(f, n) PROVE \E g : Is(g, n + 1)
    OBVIOUS
  <2> DEFINE g == [k \in 0..(n + 1) |-> IF k <= n THEN f[k] ELSE Quotient(f[n], base)]
  <2>1. \A k \in 0..n : f[k] = IF k = 0 THEN v ELSE Quotient(f[k - 1], base)
    BY Zenon
  <2>4. \A k \in 0..(n + 1) : g[k] = IF k <= n THEN f[k] ELSE Quotient(f[n], base)
    BY Zenon
  <2>2. ASSUME NEW k \in 0..(n + 1)
        PROVE  g[k] = IF k = 0 THEN v ELSE Quotient(g[k - 1], base)
    <3> HIDE DEF g
    <3>1. CASE k \in 0..n
      <4>1. k # 0 => k - 1 \in 0..(n + 1) /\ k - 1 <= n
        BY <3>1
      <4>2. k # 0 => g[k - 1] = f[k - 1]
        BY <4>1, <2>4, Zenon
      <4>3. g[k] = f[k]
        BY <3>1, <2>4
      <4> QED
        BY <3>1, <2>1, <4>2, <4>3, Zenon
    <3>2. CASE k = n + 1
      <4>1. k - 1 = n /\ n \in 0..(n + 1) /\ k # 0 /\ ~(k <= n) /\ n <= n
        BY <3>2
      <4> QED
        BY <4>1, <2>4, Zenon
    <3> QED
      BY <3>1, <3>2
  <2>3. Is(g, n + 1)
    BY <2>2, Zenon
  <2> QED
    BY <2>3, Zenon
<1> HIDE DEF S
<1>3. kMaxNumericSize \in S
  BY <1>1, <1>2, Every, Zenon
<1>4. \E f : Is(f, kMaxNumericSize)
  BY <1>3, Zenon DEF S
<1>5. Rests(v, base) = CHOOSE f : Is(f, kMaxNumericSize)
  BY Zenon DEF Rests
<1>6. Is(Rests(v, base), kMaxNumericSize)
  BY <1>4, <1>5, Zenon
<1>7. ASSUME NEW f, Is(f, kMaxNumericSize), NEW k \in 0..kMaxNumericSize
      PROVE  f[k] = IF k = 0 THEN v ELSE Quotient(f[k - 1], base)
  BY <1>7, Zenon
<1> HIDE DEF Is
<1> QED
  BY <1>6, <1>7, Zenon

\* One round of the loop, on the absolute value a of i.
LEMMA Round ==
  ASSUME NEW r \in Int, NEW base \in {10, 16}
  PROVE  /\ Quotient(r, base) \in Int
         /\ r >= 0 => /\ Quotient(r, base) >= 0
                      /\ Remainder(r, base) = r - base * Quotient(r, base)
                      /\ Remainder(r, base) \in 0..(base - 1)
         /\ r <= 0 => /\ Quotient(r, base) <= 0
                      /\ -Remainder(r, base) = (-r) - base * (-Quotient(r, base))
                      /\ -Remainder(r, base) \in 0..(base - 1)
<1>1. CASE base = 10
  <2>1. CASE r >= 0
    <3>1. Quotient(r, 10) = r \div 10 /\ r \div 10 \in Nat /\ r - 10 * (r \div 10) \in 0..9
      BY <2>1, SMT DEF Quotient
    <3> QED
      BY <1>1, <2>1, <3>1, SMT DEF Remainder
  <2>2. CASE r < 0
    <3>1. /\ Quotient(r, 10) = -((-r) \div 10) /\ (-r) \div 10 \in Nat
          /\ (-r) - 10 * ((-r) \div 10) \in 0..9
      BY <2>2, SMT DEF Quotient
    <3> QED
      BY <1>1, <2>2, <3>1, SMT DEF Remainder
  <2> QED
    BY <2>1, <2>2
<1>2. CASE base = 16
  <2>1. CASE r >= 0
    <3>1. Quotient(r, 16) = r \div 16 /\ r \div 16 \in Nat /\ r - 16 * (r \div 16) \in 0..15
      BY <2>1, SMT DEF Quotient
    <3> QED
      BY <1>2, <2>1, <3>1, SMT DEF Remainder
  <2>2. CASE r < 0
    <3>1. /\ Quotient(r, 16) = -((-r) \div 16) /\ (-r) \div 16 \in Nat
          /\ (-r) - 16 * ((-r) \div 16) \in 0..15
      BY <2>2, SMT DEF Quotient
    <3> QED
      BY <1>2, <2>2, <3>1, SMT DEF Remainder
  <2> QED
    BY <2>1, <2>2
<1> QED
  BY <1>1, <1>2

\* The absolute value of i after k rounds.
Abs(v, base, k) == IF v < 0 THEN -Rests(v, base)[k] ELSE Rests(v, base)[k]

\* What is left keeps the sign of the value, and each round takes a digit off.
LEMMA AbsRests ==
  ASSUME NEW v \in Int, NEW base \in {10, 16}, kMaxNumericSize \in Nat
  PROVE  /\ \A k \in 0..kMaxNumericSize :
              Rests(v, base)[k] \in Int /\ Abs(v, base, k) \in Nat
         /\ Rests(v, base)[0] = v
         /\ \A k \in 1..kMaxNumericSize :
              LET digit == Abs(v, base, k - 1) - base * Abs(v, base, k)
              IN  /\ digit \in 0..(base - 1)
                  /\ Remainder(Rests(v, base)[k - 1], base)
                       = IF v < 0 THEN -digit ELSE digit
<1> DEFINE K == kMaxNumericSize
           r == Rests(v, base)
           S == {k \in Nat : k <= K => r[k] \in Int /\ Abs(v, base, k) \in Nat}
<1>1. \A k \in 0..K : r[k] = IF k = 0 THEN v ELSE Quotient(r[k - 1], base)
  BY RestsIs
<1>2. r[0] = v
  BY <1>1, SMT
<1>3. ASSUME NEW k \in Nat, k < K PROVE r[k + 1] = Quotient(r[k], base)
  <2>1. k + 1 \in 0..K /\ k + 1 # 0 /\ (k + 1) - 1 = k
    BY <1>3
  <2> HIDE DEF r
  <2> QED
    BY <1>1, <2>1, Zenon
<1>4. \A k : Abs(v, base, k) = IF v < 0 THEN -r[k] ELSE r[k]
  BY Zenon DEF Abs
<1> HIDE DEF r
<1>5. 0 \in S
  BY <1>2, <1>4, SMT
<1>6. ASSUME NEW k \in Nat, k \in S PROVE k + 1 \in S
  <2> SUFFICES ASSUME k < K PROVE r[k + 1] \in Int /\ Abs(v, base, k + 1) \in Nat
    BY SMT
  <2>1. r[k] \in Int /\ Abs(v, base, k) \in Nat /\ r[k + 1] = Quotient(r[k], base)
    BY <1>3, <1>6, SMT
  <2>2. /\ Quotient(r[k], base) \in Int
        /\ r[k] >= 0 => Quotient(r[k], base) >= 0
        /\ r[k] <= 0 => Quotient(r[k], base) <= 0
    BY <2>1, Round, Zenon
  <2> QED
    BY <1>4, <2>1, <2>2, SMT
<1>7. \A k \in Nat : k \in S
  <2> HIDE DEF S
  <2> QED
    BY <1>5, <1>6, Every, Zenon
<1>8. \A k \in 0..K : r[k] \in Int /\ Abs(v, base, k) \in Nat
  BY <1>7, SMT
<1>9. ASSUME NEW k \in 1..K
      PROVE  LET digit == Abs(v, base, k - 1) - base * Abs(v, base, k)
             IN  /\ digit \in 0..(base - 1)
                 /\ Remainder(r[k - 1], base) = IF v < 0 THEN -digit ELSE digit
  <2>1. PICK x, y : x = r[k - 1] /\ y = r[k]
    OBVIOUS
  <2>2. k - 1 \in Nat /\ k - 1 < K /\ (k - 1) + 1 = k /\ k - 1 \in 0..K /\ k \in 0..K
    BY SMT
  <2>3. y = Quotient(x, base) /\ x \in Int /\ y \in Int
    BY <1>3, <1>8, <2>1, <2>2, Zenon
  <2>4. v < 0 => x <= 0 /\ y <= 0 /\ Abs(v, base, k - 1) = -x /\ Abs(v, base, k) = -y
    BY <1>4, <1>8, <2>1, <2>2, SMT
  <2>5. ~(v < 0) => x >= 0 /\ y >= 0 /\ Abs(v, base, k - 1) = x /\ Abs(v, base, k) = y
    BY <1>4, <1>8, <2>1, <2>2, SMT
  <2>6. Remainder(x, base) \in Int
    BY <2>3, SMT DEF Remainder
  <2>7. CASE v < 0
    <3>1. /\ -Remainder(x, base) = (-x) - base * (-y)
          /\ -Remainder(x, base) \in 0..(base - 1)
      BY <2>3, <2>4, <2>7, Round, Zenon
    <3>2. Remainder(x, base) = -((-x) - base * (-y))
      BY <2>6, <3>1, SMT
    <3> QED
      BY <2>1, <2>4, <2>7, <3>1, <3>2, Zenon
  <2>8. CASE ~(v < 0)
    <3>1. /\ Remainder(x, base) = x - base * y
          /\ Remainder(x, base) \in 0..(base - 1)
      BY <2>3, <2>5, <2>8, Round, Zenon
    <3> QED
      BY <2>1, <2>5, <2>8, <3>1, Zenon
  <2> QED
    BY <2>7, <2>8
<1> QED
  BY <1>2, <1>8, <1>9, Zenon DEF r

\* The table of digits.
LEMMA ZeroIs ==
  ASSUME NEW d \in 0..9
  PROVE  zero(d) = d /\ zero(-d) = d
<1>1. digits \in [1..19 -> 0..9]
  BY SMT DEF digits
<1>2. /\ digits[1] = 9 /\ digits[2] = 8 /\ digits[3] = 7 /\ digits[4] = 6 /\ digits[5] = 5
      /\ digits[6] = 4 /\ digits[7] = 3 /\ digits[8] = 2 /\ digits[9] = 1
      /\ digits[10] = 0 /\ digits[11] = 1 /\ digits[12] = 2 /\ digits[13] = 3
      /\ digits[14] = 4 /\ digits[15] = 5 /\ digits[16] = 6 /\ digits[17] = 7
      /\ digits[18] = 8 /\ digits[19] = 9
  BY SMT DEF digits
<1> QED
  BY <1>2, SMT DEF zero

\* The loop ends in the first round that leaves 0.
LEMMA RoundsIs ==
  ASSUME NEW r, kMaxNumericSize \in Nat, NEW n \in 1..kMaxNumericSize, EndsAfter(r, n)
  PROVE  Rounds(r) = n
<1>1. ASSUME NEW k \in 1..kMaxNumericSize, EndsAfter(r, k) PROVE k = n
  BY <1>1, SMT DEF EndsAfter
<1> QED
  BY <1>1, Zenon DEF Rounds

\* The digit that the round k writes.
Digit(v, base, k) == Abs(v, base, k - 1) - base * Abs(v, base, k)

\* A function on 1..m is a sequence.
LEMMA SeqOf ==
  ASSUME NEW m \in Nat, NEW S, NEW f \in [1..m -> S]
  PROVE  f \in Seq(S) /\ Len(f) = m
BY SMT

\* convert() writes the digits of all rounds, the last one first, after the sign.
LEMMA Converted10 ==
  ASSUME NEW v \in Int, kMaxNumericSize \in Nat, NEW n \in 1..kMaxNumericSize,
         EndsAfter(Rests(v, 10), n)
  PROVE  IF v < 0 THEN /\ convert(v) \in Seq(Int) /\ Len(convert(v)) = n + 1
                       /\ convert(v)[1] = Minus
                       /\ \A j \in 1..n : convert(v)[j + 1] = Digit(v, 10, n + 1 - j)
         ELSE /\ convert(v) \in Seq(Int) /\ Len(convert(v)) = n
              /\ \A j \in 1..n : convert(v)[j] = Digit(v, 10, n + 1 - j)
<1> DEFINE r   == Rests(v, 10)
           buf == [k \in 1..n |-> zero(Remainder(r[k - 1], 10))]
<1>1. ASSUME NEW k \in 1..n
      PROVE  Digit(v, 10, k) \in 0..9 /\ buf[k] = Digit(v, 10, k)
  <2>1. k \in 1..kMaxNumericSize
    BY SMT
  <2>2. /\ Digit(v, 10, k) \in 0..(10 - 1)
        /\ Remainder(r[k - 1], 10) = IF v < 0 THEN -Digit(v, 10, k) ELSE Digit(v, 10, k)
    BY <2>1, AbsRests, Zenon DEF Digit
  <2>3. Digit(v, 10, k) \in 0..9
    BY <2>2
  <2> QED
    BY <2>2, <2>3, ZeroIs, Zenon
<1>2. Rounds(r) = n
  BY RoundsIs, Zenon
<1> HIDE DEF r
<1>3. buf \in Seq(Int) /\ Len(buf) = n
  <2>1. \A k \in 1..n : buf[k] \in Int
    BY <1>1, SMT
  <2> QED
    BY <2>1, SMTT(30)
<1>4. CASE v < 0
  <2>1. convert(v) = reverse(buf \o <<Minus>>)
    BY <1>2, <1>4, Zenon DEF convert, r
  <2> HIDE DEF buf
  <2>2. /\ Len(buf \o <<Minus>>) = n + 1 /\ (buf \o <<Minus>>)[n + 1] = Minus
        /\ \A k \in 1..n : (buf \o <<Minus>>)[k] = buf[k]
    BY <1>3, SMT
  <2>3. convert(v) = [k \in 1..(n + 1) |-> (buf \o <<Minus>>)[n + 2 - k]]
    BY <2>1, <2>2, SMT DEF reverse
  <2>4. \A k \in 1..(n + 1) : convert(v)[k] = IF k = 1 THEN Minus ELSE buf[n + 2 - k]
    BY <2>2, <2>3, SMT
  <2>5. \A k \in 1..(n + 1) : convert(v)[k] \in Int
    BY <1>3, <2>4, SMT DEF Minus
  <2>6. convert(v) \in Seq(Int) /\ Len(convert(v)) = n + 1
    <3>1. convert(v) \in [1..(n + 1) -> Int]
      BY <2>3, <2>5, Zenon
    <3>2. n + 1 \in Nat
      BY SMT
    <3> QED
      BY <3>1, <3>2, SeqOf, Zenon
  <2>7. convert(v)[1] = Minus
    BY <2>4, SMT
  <2>8. ASSUME NEW j \in 1..n PROVE convert(v)[j + 1] = Digit(v, 10, n + 1 - j)
    <3>1. n + 1 - j \in 1..n /\ j + 1 \in 1..(n + 1) /\ j + 1 # 1 /\ n + 2 - (j + 1) = n + 1 - j
      BY SMT
    <3> QED
      BY <1>1, <2>4, <3>1, Zenon
  <2> QED
    BY <1>4, <2>6, <2>7, <2>8, Zenon
<1>5. CASE ~(v < 0)
  <2>1. convert(v) = reverse(buf)
    <3>1. buf \o <<>> = buf
      BY <1>3, SMT
    <3>2. convert(v) = reverse(buf \o <<>>)
      BY <1>2, <1>5, Zenon DEF convert, r
    <3> QED
      BY <3>1, <3>2, Zenon
  <2> HIDE DEF buf
  <2>2. convert(v) = [k \in 1..n |-> buf[n + 1 - k]]
    BY <1>3, <2>1, SMT DEF reverse
  <2>3. ASSUME NEW j \in 1..n PROVE convert(v)[j] = Digit(v, 10, n + 1 - j)
    <3>1. n + 1 - j \in 1..n
      BY SMT
    <3> QED
      BY <1>1, <2>2, <3>1, Zenon
  <2>4. \A k \in 1..n : convert(v)[k] \in Int
    BY <1>3, <2>2, SMT
  <2>5. convert(v) \in Seq(Int) /\ Len(convert(v)) = n
    BY <2>2, <2>4, SMT
  <2> QED
    BY <1>5, <2>3, <2>5, Zenon
<1> QED
  BY <1>4, <1>5

\* convertHex() does so too.
LEMMA Converted16 ==
  ASSUME NEW v \in Nat, kMaxNumericSize \in Nat, NEW n \in 1..kMaxNumericSize,
         EndsAfter(Rests(v, 16), n)
  PROVE  /\ convertHex(v) \in Seq(Int) /\ Len(convertHex(v)) = n
         /\ \A j \in 1..n : convertHex(v)[j] = Digit(v, 16, n + 1 - j)
<1> DEFINE r   == Rests(v, 16)
           buf == [k \in 1..n |-> Remainder(r[k - 1], 16)]
<1>1. ASSUME NEW k \in 1..n
      PROVE  Digit(v, 16, k) \in Int /\ buf[k] = Digit(v, 16, k)
  <2>1. k \in 1..kMaxNumericSize /\ v \in Int /\ ~(v < 0)
    BY SMT
  <2>2. /\ Digit(v, 16, k) \in 0..(16 - 1)
        /\ Remainder(r[k - 1], 16) = IF v < 0 THEN -Digit(v, 16, k) ELSE Digit(v, 16, k)
    BY <2>1, AbsRests, Zenon DEF Digit
  <2>3. Digit(v, 16, k) \in Int
    BY <2>2
  <2> QED
    BY <2>1, <2>2, <2>3, Zenon
<1>2. Rounds(r) = n
  BY RoundsIs, Zenon
<1>3. convertHex(v) = reverse(buf)
  BY <1>2, Zenon DEF convertHex, r
<1> HIDE DEF r
<1>4. buf \in Seq(Int) /\ Len(buf) = n
  <2>1. \A k \in 1..n : buf[k] \in Int
    BY <1>1, SMTT(60)
  <2> QED
    BY <2>1, SMTT(30)
<1> HIDE DEF buf
<1>5. convertHex(v) = [k \in 1..n |-> buf[n + 1 - k]]
  BY <1>3, <1>4, SMT DEF reverse
<1>6. ASSUME NEW j \in 1..n PROVE convertHex(v)[j] = Digit(v, 16, n + 1 - j)
  <2>1. n + 1 - j \in 1..n
    BY SMT
  <2> QED
    BY <1>1, <1>5, <2>1, Zenon
<1>7. \A k \in 1..n : convertHex(v)[k] \in Int
  BY <1>4, <1>5, SMT
<1>8. convertHex(v) \in Seq(Int) /\ Len(convertHex(v)) = n
  BY <1>5, <1>7, SMT
<1> QED
  BY <1>6, <1>8, Zenon

\* What the digits of a number denote, after each of them.
LEMMA DenotedIs ==
  ASSUME NEW x, NEW L \in Nat, L = Len(x.digits)
  PROVE  \E n : /\ Denoted(x) = n[L] * (IF Head(x.digits) = Minus THEN -1 ELSE 1)
                /\ \A k \in 0..L : n[k] = IF k = 0 THEN 0
                                          ELSE IF x.digits[k] = Minus THEN n[k - 1]
                                          ELSE x.base * n[k - 1] + x.digits[k]
<1> DEFINE At(f, k) == IF k = 0 THEN 0
                       ELSE IF x.digits[k] = Minus THEN f[k - 1]
                       ELSE x.base * f[k - 1] + x.digits[k]
           Is(f, n) == f = [k \in 0..n |-> At(f, k)]
           S == {n \in Nat : \E f : Is(f, n)}
<1>1. 0 \in S
  <2> DEFINE f == [k \in 0..0 |-> 0]
  <2>1. Is(f, 0)
    BY SMT
  <2> QED
    BY <2>1, Zenon
<1>2. \A n \in Nat : n \in S => n + 1 \in S
  <2> SUFFICES ASSUME NEW n \in Nat, NEW f, Is(f, n) PROVE \E g : Is(g, n + 1)
    <3>1. \A n \in Nat : n + 1 \in Nat
      BY SMT
    <3> HIDE DEF Is
    <3> QED
      BY <3>1, Zenon
  <2> DEFINE g == [k \in 0..(n + 1) |-> IF k <= n THEN f[k] ELSE At(f, n + 1)]
  <2>1. \A k \in 0..n : f[k] = At(f, k)
    BY Zenon
  <2>2. \A k \in 0..(n + 1) : g[k] = IF k <= n THEN f[k] ELSE At(f, n + 1)
    BY Zenon
  <2>3. ASSUME NEW k \in 0..(n + 1) PROVE g[k] = At(g, k)
    <3> HIDE DEF g
    <3>1. k = 0 \/ (k - 1 \in 0..(n + 1) /\ k - 1 <= n)
      BY SMT
    <3>2. At(g, k) = At(f, k)
      BY <2>2, <3>1, Zenon
    <3>3. CASE k \in 0..n
      <4>1. g[k] = f[k]
        BY <2>2, <3>3, SMT
      <4> QED
        BY <2>1, <3>2, <3>3, <4>1, Zenon
    <3>4. CASE k = n + 1
      <4>1. ~(k <= n)
        BY <3>4, SMT
      <4>2. g[k] = At(f, n + 1)
        BY <2>2, <4>1, Zenon
      <4> QED
        BY <3>2, <3>4, <4>2, Zenon
    <3> QED
      BY <3>3, <3>4, SMT
  <2>4. Is(g, n + 1)
    BY <2>3, Zenon
  <2> QED
    BY <2>4, Zenon
<1> HIDE DEF S
<1>3. L \in S
  BY <1>1, <1>2, Every, Zenon
<1>4. \E f : Is(f, L)
  BY <1>3, Zenon DEF S
<1> DEFINE n == CHOOSE f : Is(f, L)
<1>5. Denoted(x) = n[L] * (IF Head(x.digits) = Minus THEN -1 ELSE 1)
  BY Zenon DEF Denoted
<1>6. Is(n, L)
  BY <1>4, Zenon
<1> HIDE DEF n
<1>7. \A k \in 0..L : n[k] = At(n, k)
  BY <1>6, Zenon
<1> QED
  BY <1>5, <1>7, Zenon

\* The digits, read back, give the number, and the first of them is not 0.
Writes(x, v, base, m, s) ==
  /\ x.base = base /\ x.value = v /\ s = IF v < 0 THEN 1 ELSE 0
  /\ Len(x.digits) = m + s /\ x.digits \in Seq(Int)
  /\ s = 1 => x.digits[1] = Minus
  /\ \A j \in 1..m : x.digits[j + s] = Digit(v, base, m + 1 - j)

\* Digits written that way, read from left to right, give the value.
LEMMA ReadBack ==
  ASSUME NEW v \in Int, NEW base \in {10, 16}, kMaxNumericSize \in Nat,
         NEW m \in 1..kMaxNumericSize, EndsAfter(Rests(v, base), m),
         NEW x, NEW s \in {0, 1}, Writes(x, v, base, m, s)
  PROVE  /\ \A i \in 2..Len(x.digits) : x.digits[i] \in 0..(x.base - 1)
         /\ Denoted(x) = x.value
         /\ Len(x.digits) > 1 => Head(x.digits) # 0
<1> DEFINE A(k) == Abs(v, base, k)
<1>1. /\ \A k \in 0..kMaxNumericSize : A(k) \in Nat
      /\ Rests(v, base)[0] = v
  BY AbsRests, Zenon
<1>2. A(0) = IF v < 0 THEN -v ELSE v
  BY <1>1, Zenon DEF Abs
<1>3. A(m) = 0 /\ (m > 1 => A(m - 1) # 0)
  <2>1. Rests(v, base)[m] = 0 /\ (m > 1 => Rests(v, base)[m - 1] # 0)
    <3>1. m > 1 => m - 1 \in 1..(m - 1)
      BY SMT
    <3> QED
      BY <3>1, Zenon DEF EndsAfter
  <2>2. \A k \in 0..kMaxNumericSize : Rests(v, base)[k] \in Int
    BY AbsRests, Zenon
  <2>3. m \in 0..kMaxNumericSize /\ m - 1 \in 0..kMaxNumericSize
    BY SMT
  <2>4. PICK y, z : y = Rests(v, base)[m] /\ z = Rests(v, base)[m - 1]
    OBVIOUS
  <2>5. y = 0 /\ z \in Int /\ (m > 1 => z # 0)
    BY <2>1, <2>2, <2>3, <2>4, Zenon
  <2>6. A(m) = (IF v < 0 THEN -y ELSE y) /\ A(m - 1) = (IF v < 0 THEN -z ELSE z)
    BY <2>4, Zenon DEF Abs
  <2>7. \A i \in Int : -i = 0 <=> i = 0
    BY SMT
  <2>8. y \in Int
    BY <2>5, SMT
  <2> QED
    BY <2>5, <2>6, <2>7, <2>8, Zenon
<1>4. ASSUME NEW k \in 1..m
      PROVE  Digit(v, base, k) = A(k - 1) - base * A(k) /\ Digit(v, base, k) \in 0..(base - 1)
  <2>1. k \in 1..kMaxNumericSize
    BY SMT
  <2> QED
    BY <2>1, AbsRests, Zenon DEF Digit
<1> HIDE DEF A
<1>5. \A k \in 0..m : A(k) \in Nat
  BY <1>1, SMT
<1>6. ASSUME NEW j \in 1..m
      PROVE  /\ x.digits[j + s] = A(m - j) - base * A(m - j + 1)
             /\ x.digits[j + s] \in 0..(base - 1)
  <2>1. m + 1 - j \in 1..m /\ (m + 1 - j) - 1 = m - j /\ m + 1 - j = m - j + 1
    BY SMT
  <2>2. x.digits[j + s] = Digit(v, base, m + 1 - j)
    BY Zenon DEF Writes
  <2> QED
    BY <1>4, <2>1, <2>2, Zenon
<1>7. \A i \in 2..Len(x.digits) : x.digits[i] \in 0..(x.base - 1)
  <2> SUFFICES ASSUME NEW i \in 2..(m + s) PROVE x.digits[i] \in 0..(base - 1)
    BY Zenon DEF Writes
  <2>1. i - s \in 1..m /\ (i - s) + s = i
    BY SMT
  <2> QED
    BY <1>6, <2>1, Zenon
<1>8. /\ s = 1 => Head(x.digits) = Minus
      /\ s = 0 => Head(x.digits) = A(m - 1)
  <2>1. Head(x.digits) = x.digits[1] /\ (s = 1 => x.digits[1] = Minus)
    BY SMT DEF Writes
  <2>2. 1 \in 1..m /\ m - 1 + 1 = m /\ base * 0 = 0 /\ (s = 0 => 1 + s = 1)
    BY SMT
  <2>3. s = 0 => x.digits[1] = A(m - 1) - base * A(m)
    BY <1>6, <2>2, Zenon
  <2>4. A(m - 1) - 0 = A(m - 1)
    BY <1>5, SMT
  <2> QED
    BY <1>3, <2>1, <2>2, <2>3, <2>4, Zenon
<1>9. Head(x.digits) = Minus <=> s = 1
  BY <1>5, <1>8, SMT DEF Minus
<1>10. Len(x.digits) > 1 => Head(x.digits) # 0
  <2>1. Len(x.digits) > 1 /\ s = 0 => m > 1
    BY SMT DEF Writes
  <2>2. Minus # 0
    BY SMT DEF Minus
  <2>3. s = 0 \/ s = 1
    OBVIOUS
  <2> QED
    BY <1>3, <1>8, <2>1, <2>2, <2>3, Zenon
<1>11. PICK n : /\ Denoted(x) = n[m + s] * (IF Head(x.digits) = Minus THEN -1 ELSE 1)
                /\ \A k \in 0..(m + s) : n[k] = IF k = 0 THEN 0
                                          ELSE IF x.digits[k] = Minus THEN n[k - 1]
                                          ELSE base * n[k - 1] + x.digits[k]
  <2>1. m + s \in Nat
    BY SMT
  <2>2. m + s = Len(x.digits) /\ x.base = base
    BY Zenon DEF Writes
  <2> QED
    BY <2>1, <2>2, DenotedIs, SMTT(60)
<1> DEFINE S == {j \in Nat : j <= m => n[j + s] = A(m - j)}
<1>12. 0 \in S
  <2>1. 0 \in 0..(m + s) /\ (s = 1 => 1 \in 0..(m + s)) /\ 1 # 0 /\ 1 - 1 = 0
    BY SMT
  <2>2. n[0] = 0
    BY <1>11, <2>1, Zenon
  <2>3. s = 1 => n[1] = 0
    BY <1>11, <2>1, <2>2, Zenon DEF Writes
  <2>4. n[0 + s] = 0
    BY <2>2, <2>3, SMT
  <2>5. m - 0 = m
    OBVIOUS
  <2> QED
    BY <1>3, <2>4, <2>5, Zenon
<1>13. ASSUME NEW j \in Nat, j \in S PROVE j + 1 \in S
  <2> SUFFICES ASSUME j < m PROVE n[j + 1 + s] = A(m - (j + 1))
    BY SMT
  <2>1. n[j + s] = A(m - j)
    BY <1>13, SMT
  <2>2. /\ j + 1 \in 1..m /\ j + 1 + s \in 0..(m + s) /\ j + 1 + s # 0
        /\ (j + 1 + s) - 1 = j + s /\ m - (j + 1) + 1 = m - j
    BY SMT
  <2>3. /\ x.digits[j + 1 + s] = A(m - (j + 1)) - base * A(m - j)
        /\ x.digits[j + 1 + s] \in 0..(base - 1)
    BY <1>6, <2>2, Zenon
  <2>4. x.digits[j + 1 + s] # Minus
    BY <2>3, SMT DEF Minus
  <2>5. n[j + 1 + s] = base * A(m - j) + x.digits[j + 1 + s]
    BY <1>11, <2>1, <2>2, <2>4, Zenon
  <2>6. A(m - j) \in Nat /\ A(m - (j + 1)) \in Nat
    BY <1>5, SMT
  <2> QED
    BY <2>3, <2>5, <2>6, SMT
<1>14. \A j \in Nat : j \in S
  <2> HIDE DEF S
  <2> QED
    BY <1>12, <1>13, Every, Zenon
<1>15. n[m + s] = A(0)
  BY <1>14, SMT
<1>16. Denoted(x) = v
  <2>1. s = 1 <=> v < 0
    BY SMT DEF Writes
  <2>2. Denoted(x) = (IF v < 0 THEN -v ELSE v) * (IF v < 0 THEN -1 ELSE 1)
    BY <1>2, <1>9, <1>11, <1>15, <2>1, Zenon
  <2> QED
    BY <2>2, SMT
<1> QED
  BY <1>7, <1>10, <1>16, Zenon DEF Writes

\* A number that is logged: convert() and convertHex() write it in the form
\* that NumeralForm asks for, and it fits in kMaxNumericSize.
WellWritten(x) ==
  /\ \A i \in 2..Len(x.digits) : x.digits[i] \in 0..(x.base - 1)
  /\ Denoted(x) = x.value
  /\ Len(x.digits) > 1 => Head(x.digits) # 0

\* convert() of a number that is logged.
LEMMA DecimalWritten ==
  ASSUME NEW v \in Ints \cup Errnos \cup LineNumbers
  PROVE  /\ WellWritten([value |-> v, base |-> 10, digits |-> convert(v)])
         /\ Len(convert(v)) \in 0..(kMaxNumericSize - 1)
<1> DEFINE x == [value |-> v, base |-> 10, digits |-> convert(v)]
           s == IF v < 0 THEN 1 ELSE 0
<1>1. kMaxNumericSize \in Nat /\ v \in Int
  BY LogStreamAssumption, SMT
<1>2. PICK m \in 1..(kMaxNumericSize - 2) : EndsAfter(Rests(v, 10), m)
  BY LogStreamAssumption, SMT
<1>3. m \in 1..kMaxNumericSize
  BY <1>1
<1>4. IF v < 0 THEN /\ convert(v) \in Seq(Int) /\ Len(convert(v)) = m + 1
                    /\ convert(v)[1] = Minus
                    /\ \A j \in 1..m : convert(v)[j + 1] = Digit(v, 10, m + 1 - j)
      ELSE /\ convert(v) \in Seq(Int) /\ Len(convert(v)) = m
           /\ \A j \in 1..m : convert(v)[j] = Digit(v, 10, m + 1 - j)
  BY <1>1, <1>2, <1>3, Converted10, Zenon
<1>5. Writes(x, v, 10, m, s)
  <2>1. x.base = 10 /\ x.value = v /\ x.digits = convert(v)
    BY Zenon
  <2> HIDE DEF x
  <2>2. CASE v < 0
    <3>1. s = 1
      BY <2>2
    <3> QED
      BY <1>4, <2>1, <2>2, <3>1, Zenon DEF Writes
  <2>3. CASE ~(v < 0)
    <3>1. s = 0 /\ m + 0 = m /\ \A j \in 1..m : j + 0 = j
      BY <2>3, SMT
    <3>2. /\ Len(convert(v)) = m + s /\ convert(v) \in Seq(Int)
          /\ \A j \in 1..m : convert(v)[j + s] = Digit(v, 10, m + 1 - j)
      BY <1>4, <2>3, <3>1, Zenon
    <3>3. ~(s = 1)
      BY <3>1
    <3> QED
      BY <2>1, <2>3, <3>2, <3>3, Zenon DEF Writes
  <2> QED
    BY <2>2, <2>3
<1>6. WellWritten(x)
  <2>1. s \in {0, 1} /\ 10 \in {10, 16}
    OBVIOUS
  <2> HIDE DEF x, s
  <2> QED
    BY <1>1, <1>2, <1>3, <1>5, <2>1, ReadBack, Zenon DEF WellWritten
<1>7. Len(convert(v)) \in 0..(kMaxNumericSize - 1)
  BY <1>1, <1>4, SMT
<1> QED
  BY <1>6, <1>7, Zenon

\* convertHex() of a pointer that is logged.
LEMMA HexWritten ==
  ASSUME NEW v \in Pointers
  PROVE  /\ WellWritten([value |-> v, base |-> 16, digits |-> convertHex(v)])
         /\ 2 + Len(convertHex(v)) \in 0..(kMaxNumericSize - 1)
<1> DEFINE x == [value |-> v, base |-> 16, digits |-> convertHex(v)]
<1>1. kMaxNumericSize \in Nat /\ v \in Nat
  BY LogStreamAssumption, SMT
<1>2. PICK m \in 1..(kMaxNumericSize - 3) : EndsAfter(Rests(v, 16), m)
  BY LogStreamAssumption, SMT
<1>3. m \in 1..kMaxNumericSize
  BY <1>1
<1>4. /\ convertHex(v) \in Seq(Int) /\ Len(convertHex(v)) = m
      /\ \A j \in 1..m : convertHex(v)[j] = Digit(v, 16, m + 1 - j)
  BY <1>1, <1>2, <1>3, Converted16, Zenon
<1>5. Writes(x, v, 16, m, 0)
  <2>1. x.base = 16 /\ x.value = v /\ x.digits = convertHex(v)
    BY Zenon
  <2> HIDE DEF x
  <2>2. m + 0 = m /\ ~(v < 0) /\ 0 # 1 /\ \A j \in 1..m : j + 0 = j
    BY <1>1
  <2>3. \A j \in 1..m : convertHex(v)[j + 0] = Digit(v, 16, m + 1 - j)
    BY <1>4, <2>2, Zenon
  <2> QED
    BY <1>4, <2>1, <2>2, <2>3, ZenonT(60) DEF Writes
<1>6. WellWritten(x)
  <2>1. 0 \in {0, 1} /\ 16 \in {10, 16} /\ v \in Int
    BY <1>1
  <2> HIDE DEF x
  <2> QED
    BY <1>1, <1>2, <1>3, <1>5, <2>1, ReadBack, Zenon DEF WellWritten
<1>7. 2 + Len(convertHex(v)) \in 0..(kMaxNumericSize - 1)
  BY <1>1, <1>4, SMT
<1> QED
  BY <1>6, <1>7, Zenon

\* Before the first number there is a 0.
LEMMA NoneWritten == WellWritten(NoText)
<1> DEFINE x == NoText
<1>1. /\ x.digits = <<0>> /\ x.base = 10 /\ x.value = 0
      /\ Len(x.digits) = 1 /\ Head(x.digits) = 0 /\ x.digits[1] = 0
  BY SMT DEF NoText
<1> HIDE DEF x
<1>2. PICK n : /\ Denoted(x) = n[1] * (IF Head(x.digits) = Minus THEN -1 ELSE 1)
               /\ \A k \in 0..1 : n[k] = IF k = 0 THEN 0
                                         ELSE IF x.digits[k] = Minus THEN n[k - 1]
                                         ELSE x.base * n[k - 1] + x.digits[k]
  <2>1. 1 \in Nat
    OBVIOUS
  <2> QED
    BY <1>1, <2>1, DenotedIs, Zenon
<1>3. Minus # 0 /\ 0 \in 0..1 /\ 1 \in 0..1 /\ 1 # 0 /\ 1 - 1 = 0
  BY SMT DEF Minus
<1>4. n[0] = 0 /\ n[1] = 10 * n[0] + 0
  BY <1>1, <1>2, <1>3, Zenon
<1>5. n[1] = 0
  BY <1>4
<1>6. Denoted(x) = 0
  BY <1>1, <1>2, <1>3, <1>5, SMT
<1> QED
  BY <1>1, <1>6, SMT DEF WellWritten, x

\* convert() and convertHex(): the text of every number in a log line, read back,
\* is that number, with no leading zero.
THEOREM NumbersReadBack == Spec => []NumeralForm
<1> DEFINE Fine == WellWritten(text)
<1>1. Init => Fine
  BY NoneWritten, Zenon DEF Init
<1>2. Fine /\ [Next]_vars => Fine'
  <2> SUFFICES ASSUME Fine, [Next]_vars PROVE WellWritten(text')
    BY Zenon DEF WellWritten, Denoted
  <2>0. ASSUME NEW b, NEW v, NEW base, NEW ds,
               WellWritten([value |-> v, base |-> base, digits |-> ds])
        PROVE  WellWritten(Logged(b, v, base, ds))
    BY <2>0, NoneWritten, Zenon DEF Logged
  <2>1. ASSUME NEW level \in 0..4, NEW t \in Times, NEW f \in FileLengths,
               NEW n \in LineNumbers, NEW e \in Errnos, Logger(level, t, f, n, e)
        PROVE  WellWritten(text')
    BY <2>0, <2>1, NoneWritten, DecimalWritten, Zenon DEF Logger, writeHeader
  <2>2. ASSUME NEW v \in Ints, putInt(v) PROVE WellWritten(text')
    BY <2>0, <2>2, DecimalWritten, Zenon DEF putInt
  <2>3. ASSUME NEW p \in Pointers, putPointer(p) PROVE WellWritten(text')
    BY <2>0, <2>3, HexWritten, Zenon DEF putPointer
  <2>4. CASE text' = NoText
    BY <2>4, NoneWritten, Zenon
  <2>5. CASE UNCHANGED vars
    BY <2>5, Zenon DEF vars
  <2> QED
    BY <2>1, <2>2, <2>3, <2>4, <2>5, Zenon DEF Next, putDouble, putString, finishLine
<1>3. Fine <=> NumeralForm
  BY Zenon DEF NumeralForm, WellWritten
<1> QED
  BY <1>1, <1>2, <1>3, PTL DEF Spec

-----------------------------------------------------------------------------
(* The buffer of a log line.                                               *)

Room(b) ==
  /\ b.curr \in Nat /\ b.top \in Nat
  /\ b.curr <= b.top /\ b.top <= kSmallBuffer /\ b.curr < kSmallBuffer

\* append() of a string, whatever its length, stays within data_.
LEMMA AppendFits ==
  ASSUME NEW b, Room(b), NEW len \in Nat
  PROVE  Room(append(b, len))
<1>1. kSmallBuffer \in Nat
  BY LogStreamAssumption
<1> DEFINE curr == b.curr
           high == b.top
<1>2. /\ curr \in Nat /\ high \in Nat
      /\ curr <= high /\ high <= kSmallBuffer /\ curr < kSmallBuffer
  BY DEF Room
<1>3. append(b, len) = IF kSmallBuffer - curr > len
                       THEN [curr |-> curr + len, top |-> Wider(high, curr + len)]
                       ELSE b
  BY Zenon DEF append, remain
<1>4. CASE kSmallBuffer - curr > len
  <2>1. /\ append(b, len).curr = curr + len
        /\ append(b, len).top = Wider(high, curr + len)
    BY <1>3, <1>4
  <2> HIDE DEF curr, high
  <2>2. /\ curr + len \in Nat /\ Wider(high, curr + len) \in Nat
        /\ curr + len <= Wider(high, curr + len)
        /\ Wider(high, curr + len) <= kSmallBuffer /\ curr + len < kSmallBuffer
    BY ONLY <1>1, <1>2, <1>4, len \in Nat DEF Wider
  <2> QED
    BY ONLY <2>1, <2>2 DEF Room
<1>5. CASE ~(kSmallBuffer - curr > len)
  BY <1>3, <1>5
<1> QED
  BY <1>4, <1>5

\* So does a number with its '\0', as formatInt() and the others write it.
LEMMA NumberFits ==
  ASSUME NEW b, Room(b), NEW len \in 0..(kMaxNumericSize - 1)
  PROVE  Room(formatNumber(b, len))
<1>1. kSmallBuffer \in Nat /\ kMaxNumericSize \in Nat
  BY LogStreamAssumption
<1> QED
  BY ONLY Room(b), len \in 0..(kMaxNumericSize - 1), <1>1
  DEF Room, formatNumber, RoomForNumber, remain, Wider

\* The pieces of the header are strings.
LEMMA HeadFits ==
  ASSUME NEW file \in FileLengths, NEW line \in LineNumbers
  PROVE  Room(headOf(file, line))
<1>1. Room(EmptyBuffer)
  BY LogStreamAssumption DEF Room, EmptyBuffer
<1>2. file \in Nat /\ TidLen \in Nat /\ Len(convert(line)) \in Nat
  <2>1. Len(convert(line)) \in 0..(kMaxNumericSize - 1)
    BY DecimalWritten, Zenon
  <2>2. file \in Nat /\ TidLen \in Nat /\ kMaxNumericSize \in Nat
    BY LogStreamAssumption
  <2> QED
    BY ONLY <2>1, <2>2
<1>3. formatFileAndLine(file, line) \in Nat
  BY ONLY <1>2 DEF formatFileAndLine, Wider
<1> DEFINE stamp == append(append(EmptyBuffer, 17), IF zoned THEN 8 ELSE 9)
           place == append(append(stamp, TidLen), formatFileAndLine(file, line))
<1>4. Room(append(EmptyBuffer, 17))
  BY <1>1, AppendFits
<1>5. Room(stamp)
  BY <1>4, AppendFits
<1>6. Room(append(stamp, TidLen))
  BY <1>2, <1>5, AppendFits
<1>7. Room(place)
  BY <1>3, <1>6, AppendFits
<1>8. Room(append(place, 6))
  BY <1>7, AppendFits
<1>9. Room(append(append(place, 6), 2))
  BY <1>8, AppendFits
<1> QED
  BY <1>9 DEF headOf

\* The text of errno is a number between strings.
LEMMA HeaderFits ==
  ASSUME NEW file \in FileLengths, NEW line \in LineNumbers,
         NEW saved_errno_ \in Errnos,
         writeHeader(file, line, saved_errno_)
  PROVE  Room(Now)'
<1> DEFINE head == headOf(file, line)
           named == append(append(head, Strerror), 8)
           number == formatNumber(named, Len(convert(saved_errno_)))
<1>1. Room(head)
  BY HeadFits
<1>2. CASE saved_errno_ = 0
  BY <1>1, <1>2 DEF writeHeader, Become, Now, Room
<1>3. CASE saved_errno_ # 0
  <2>1. Strerror \in Nat
    BY LogStreamAssumption
  <2>2. Room(append(head, Strerror))
    BY <1>1, <2>1, AppendFits
  <2>3. Room(named)
    BY <2>2, AppendFits
  <2>4. Len(convert(saved_errno_)) \in 0..(kMaxNumericSize - 1)
    BY DecimalWritten, Zenon
  <2>5. Room(number)
    BY <2>3, <2>4, NumberFits
  <2>6. Room(append(number, 2))
    BY <2>5, AppendFits
  <2> QED
    BY <1>3, <2>6 DEF writeHeader, Become, Now, Room
<1> QED
  BY <1>2, <1>3

\* A newline is a string of length 1, if it is written at all.
LEMMA NewlineFits ==
  ASSUME NEW b, Room(b)
  PROVE  /\ Room(newline(b))
         /\ newline(b) # b \/ newline(b).curr = kSmallBuffer - 1
<1>1. kSmallBuffer \in Nat
  BY LogStreamAssumption
<1>2. Room(newline(b))
  BY AppendFits DEF newline
<1>3. newline(b) # b \/ newline(b).curr = kSmallBuffer - 1
  <2> DEFINE curr == b.curr
  <2>1. curr \in Nat /\ curr < kSmallBuffer
    BY DEF Room
  <2>2. newline(b) = IF kSmallBuffer - curr >= 1 THEN append(b, 1) ELSE b
    BY Zenon DEF newline, remain
  <2>3. CASE kSmallBuffer - curr > 1
    <3>1. kSmallBuffer - curr >= 1
      BY ONLY <1>1, <2>1, <2>3, SMTT(60)
    <3>2. append(b, 1).curr = curr + 1
      BY <2>3 DEF append, remain
    <3>3. curr + 1 # curr
      BY ONLY <2>1
    <3> QED
      BY <2>2, <3>1, <3>2, <3>3
  <2>4. CASE ~(kSmallBuffer - curr > 1)
    <3>1. curr = kSmallBuffer - 1
      BY ONLY <1>1, <2>1, <2>4
    <3>2. append(b, 1) = b
      BY <2>4, Zenon DEF append, remain
    <3> QED
      BY <2>2, <3>1, <3>2
  <2> QED
    BY <2>3, <2>4
<1> QED
  BY <1>2, <1>3

-----------------------------------------------------------------------------
(* The buffer.                                                             *)

\* The inductive invariant: WithinBuffer, and a byte that append() and
\* formatNumber() never give away, which is what makes their tests enough.
BufferInv == Room(Now)

\* Every step leaves the buffer as the lemmas say.
LEMMA BufferStep == BufferInv /\ [Next]_vars => BufferInv'
<1> SUFFICES ASSUME BufferInv, [Next]_vars PROVE BufferInv'
  OBVIOUS
<1> USE DEF BufferInv
<1>1. ASSUME NEW level \in 0..4, NEW t \in Times, NEW f \in FileLengths,
             NEW n \in LineNumbers, NEW e \in Errnos, Logger(level, t, f, n, e)
      PROVE  Room(Now)'
  BY <1>1, HeaderFits DEF Logger
<1>2. ASSUME NEW v \in Ints, putInt(v) PROVE Room(Now)'
  <2>1. Len(convert(v)) \in 0..(kMaxNumericSize - 1)
    BY DecimalWritten, Zenon
  <2>2. Room(formatNumber(Now, Len(convert(v))))
    BY <2>1, NumberFits
  <2> QED
    BY <1>2, <2>2 DEF putInt, Become, Now, Room
<1>3. ASSUME NEW p \in Pointers, putPointer(p) PROVE Room(Now)'
  <2>1. 2 + Len(convertHex(p)) \in 0..(kMaxNumericSize - 1)
    BY HexWritten, Zenon
  <2>2. Room(formatNumber(Now, 2 + Len(convertHex(p))))
    BY <2>1, NumberFits
  <2> QED
    BY <1>3, <2>2 DEF putPointer, Become, Now, Room
<1>4. ASSUME NEW len \in Doubles, putDouble(len) PROVE Room(Now)'
  <2>1. len \in 0..(kMaxNumericSize - 1)
    BY LogStreamAssumption
  <2>2. Room(formatNumber(Now, len))
    BY <2>1, NumberFits
  <2> QED
    BY <1>4, <2>2 DEF putDouble, Become, Now, Room
<1>5. ASSUME NEW len \in Lengths, putString(len) PROVE Room(Now)'
  <2>1. len \in Nat
    BY LogStreamAssumption
  <2>2. Room(append(Now, len))
    BY <2>1, AppendFits
  <2> QED
    BY <1>5, <2>2 DEF putString, Become, Now, Room
<1>6. CASE finishLine
  <2>1. Room(newline(Now))
    BY NewlineFits
  <2> QED
    BY <1>6, <2>1 DEF finishLine, Become, Now, Room
<1>7. CASE UNCHANGED vars
  BY <1>7 DEF vars, Now, Room
<1> QED
  BY <1>1, <1>2, <1>3, <1>4, <1>5, <1>6, <1>7 DEF Next

\* The buffer invariant holds in every state.
LEMMA BufferHolds == Spec => []BufferInv
<1>1. Init => BufferInv
  BY LogStreamAssumption DEF Init, BufferInv, Room, Now
<1> QED
  BY <1>1, BufferStep, PTL DEF Spec

\* No operator of LogStream writes outside data_.
THEOREM NothingOutside == Spec => []WithinBuffer
<1>1. BufferInv => WithinBuffer
  BY DEF BufferInv, Room, Now, WithinBuffer
<1> QED
  BY <1>1, BufferHolds, PTL

\* Only a line that fills the buffer to its last byte loses its newline.
THEOREM NewlineKept == Spec => []LineEnds
<1>1. Init => LineEnds
  BY DEF Init, LineEnds
<1>2. BufferInv /\ LineEnds /\ [Next]_vars => LineEnds'
  <2> SUFFICES ASSUME BufferInv, LineEnds, [Next]_vars PROVE LineEnds'
    OBVIOUS
  <2>1. CASE finishLine
    <3>1. newline(Now) # Now \/ newline(Now).curr = kSmallBuffer - 1
      BY NewlineFits DEF BufferInv
    <3> QED
      BY <2>1, <3>1, Zenon DEF finishLine, Become, LineEnds
  <2>2. CASE UNCHANGED vars
    BY <2>2 DEF vars, LineEnds
  <2>3. CASE Next /\ ~finishLine
    <3>1. open'
      BY <2>3
      DEF Next, Logger, putInt, putPointer, putDouble, putString, Piece
    <3> QED
      BY <3>1, SMTT(60) DEF LineEnds
  <2> QED
    BY <2>1, <2>2, <2>3
<1> QED
  BY <1>1, <1>2, BufferHolds, PTL DEF Spec

-----------------------------------------------------------------------------
(* The time.                                                               *)

\* The inductive invariant: t_time is of the second that t_lastSecond says, so
\* that the conversion may be left out when the second has not changed.
TimeInv == TimeShown /\ t_time = t_lastSecond

\* The time shown in every header is the time of the line.
THEOREM RightTime == Spec => []TimeShown
<1>1. Init => TimeInv
  BY DEF Init, TimeInv, TimeShown
<1>2. TimeInv /\ [Next]_vars => TimeInv'
  <2> SUFFICES ASSUME TimeInv, [Next]_vars PROVE TimeInv'
    OBVIOUS
  <2> USE DEF TimeInv, TimeShown
  <2>1. ASSUME NEW level \in 0..4, NEW t \in Times, NEW f \in FileLengths,
               NEW n \in LineNumbers, NEW e \in Errnos,
               Logger(level, t, f, n, e)
        PROVE  TimeInv'
    <3>1. t \in Nat
      BY LogStreamAssumption
    <3>2. (t \div 1000000) * 1000000 + (t % 1000000) = t
      BY ONLY <3>1
    <3>3. formatTime(t) /\ time_' = t
      BY <2>1 DEF Logger
    <3>4. t_time' = t_lastSecond' /\ t_time' = secondsSinceEpoch(t)
      BY <3>3 DEF formatTime
    <3>5. shown' = [seconds |-> secondsSinceEpoch(t),
                    microseconds |-> microseconds(t)]
      BY <3>3, <3>4 DEF formatTime
    <3>6. shown'.seconds * kMicroSecondsPerSecond + shown'.microseconds = time_'
      BY <3>2, <3>3, <3>5
      DEF secondsSinceEpoch, microseconds, kMicroSecondsPerSecond
    <3> QED
      BY <3>4, <3>6
  <2>2. CASE /\ UNCHANGED timeVars
             /\ open' = open \/ open' = FALSE
    BY <2>2 DEF timeVars
  <2>3. CASE UNCHANGED vars
    BY <2>2, <2>3 DEF vars
  <2>4. CASE finishLine
    BY <2>2, <2>4, Zenon DEF finishLine
  <2>5. ASSUME Piece PROVE TimeInv'
    BY <2>2, <2>5 DEF Piece
  <2> QED
    BY <2>1, <2>3, <2>4, <2>5
    DEF Next, putInt, putPointer, putDouble, putString
<1>3. TimeInv => TimeShown
  BY DEF TimeInv
<1> QED
  BY <1>1, <1>2, <1>3, PTL DEF Spec
=============================================================================

--------------------------- MODULE BencodeProofs ---------------------------
(***************************************************************************)
(* Proofs about Bencode, for documents of any size.                        *)
(*                                                                         *)
(* The types hold whatever is parsed.  What is read is proved of Documents *)
(* that are well formed, and not of Oddities: there is a script of the     *)
(* tokens they consist of, and of where in it the parser's loops turn.     *)
(* Numbers are written without a sign and fit the fields they are for, and *)
(* the keys of hashes and peers come once: an int keeps less of a number   *)
(* than was written, and what comes twice is appended.                     *)
(* The invariant says that the parser is at a turn of the script with just *)
(* the fields read that come before it, or has read all, or, in a cut      *)
(* document, has strayed to where it can take nothing more.  The torrents  *)
(* that create_torrent writes and the response of the tracker have such    *)
(* scripts.                                                                *)
(*                                                                         *)
(* Decimal, Digits and FlattenSeq are recursive functions.  What they      *)
(* compute is proved by induction on a set of numbers (Induction), which   *)
(* follows from the well-foundedness of < on Nat.                          *)
(***************************************************************************)
EXTENDS Bencode, WellFoundedInduction, SequenceTheorems, TLAPS

-----------------------------------------------------------------------------
(* Induction.  The library has it for predicates, which the provers cannot *)
(* take; here it is for sets, from the well-foundedness of < on Nat.       *)

LEMMA Least ==
    ASSUME NEW T, T \subseteq Nat, T # {}
    PROVE  \E x \in T : \A y \in T : x <= y
<1>1. IsWellFoundedOn(OpToRel(<, Nat), Nat)
  BY NatLessThanWellFounded
<1>2. PICK x \in T : \A y \in T : ~ (<<y, x>> \in OpToRel(<, Nat))
  BY <1>1, WFMin
<1>3. \A y \in T : ~ (y < x)
  BY <1>2 DEF OpToRel
<1>4. QED
  BY <1>3

LEMMA Induction ==
    ASSUME NEW S, 0 \in S, \A n \in Nat : n \in S => n + 1 \in S
    PROVE  \A n \in Nat : n \in S
<1> DEFINE T == Nat \ S
<1> SUFFICES ASSUME T # {}
             PROVE  FALSE
  OBVIOUS
<1>1. T \subseteq Nat
  OBVIOUS
<1>2. PICK x \in T : \A y \in T : x <= y
  <2> HIDE DEF T
  <2>1. QED
    BY <1>1, Least
<1>3. x # 0 /\ x \in Nat
  OBVIOUS
<1>4. x - 1 \in Nat /\ x - 1 \notin T
  BY <1>2, <1>3
<1>5. QED
  BY <1>3, <1>4

-----------------------------------------------------------------------------
(* Numbers: what Decimal makes of bytes, and of those Digits writes.       *)

Counter(g, b, n) ==
    g = [k \in 0 .. n |-> IF k = 0 THEN 0 ELSE 10 * g[k - 1] + (b[k] - 48)]

LEMMA CounterExists ==
    ASSUME NEW b
    PROVE  \A n \in Nat : \E g : Counter(g, b, n)
<1> DEFINE S == {n \in Nat : \E g : Counter(g, b, n)}
<1>1. 0 \in S
  <2>1. Counter([k \in 0 .. 0 |-> 0], b, 0)
    BY DEF Counter
  <2>2. QED
    BY <2>1
<1>2. ASSUME NEW n \in Nat, n \in S
      PROVE  n + 1 \in S
  <2>1. PICK g : Counter(g, b, n)
    BY <1>2
  <2> DEFINE h == [k \in 0 .. n + 1 |-> IF k = n + 1 THEN 10 * g[n] + (b[n + 1] - 48) ELSE g[k]]
  <2>2. \A k \in 0 .. n + 1 : h[k] = IF k = 0 THEN 0 ELSE 10 * h[k - 1] + (b[k] - 48)
    <3> SUFFICES ASSUME NEW k \in 0 .. n + 1
                 PROVE  h[k] = IF k = 0 THEN 0 ELSE 10 * h[k - 1] + (b[k] - 48)
      OBVIOUS
    <3>1. CASE k = n + 1
      <4>1. k - 1 \in 0 .. n + 1 /\ k - 1 = n /\ n # n + 1
        BY <3>1
      <4>2. h[k - 1] = g[n] /\ h[k] = 10 * g[n] + (b[n + 1] - 48)
        BY <3>1, <4>1
      <4>3. QED
        BY <3>1, <4>2
    <3>2. CASE k # n + 1
      <4>1. k \in 0 .. n
        BY <3>2
      <4>2. g[k] = IF k = 0 THEN 0 ELSE 10 * g[k - 1] + (b[k] - 48)
        BY <2>1, <4>1 DEF Counter
      <4>3. h[k] = g[k] /\ (k # 0 => h[k - 1] = g[k - 1])
        BY <4>1
      <4>4. QED
        BY <4>2, <4>3
    <3>3. QED
      BY <3>1, <3>2
  <2>3. h = [k \in 0 .. n + 1 |-> h[k]]
    OBVIOUS
  <2> HIDE DEF h
  <2>4. Counter(h, b, n + 1)
    BY <2>2, <2>3 DEF Counter
  <2>5. QED
    BY <2>4
<1>3. QED
  <2> HIDE DEF S
  <2>1. \A n \in Nat : n \in S
    BY <1>1, <1>2, Induction
  <2>2. QED
    BY <2>1 DEF S

LEMMA CounterUnique ==
    ASSUME NEW b, NEW m \in Nat, NEW n \in Nat, m <= n,
           NEW g, Counter(g, b, m), NEW h, Counter(h, b, n)
    PROVE  g[m] = h[m]
<1> DEFINE S == {k \in Nat : k <= m => g[k] = h[k]}
<1>1. 0 \in S
  BY DEF Counter
<1>2. ASSUME NEW k \in Nat, k \in S
      PROVE  k + 1 \in S
  <2> SUFFICES ASSUME k + 1 <= m
               PROVE  g[k + 1] = h[k + 1]
    OBVIOUS
  <2>1. g[k] = h[k]
    BY <1>2
  <2>2. g[k + 1] = 10 * g[k] + (b[k + 1] - 48)
    <3>1. k + 1 \in 0 .. m /\ k + 1 # 0 /\ (k + 1) - 1 = k
      OBVIOUS
    <3>2. QED
      BY <3>1 DEF Counter
  <2>3. h[k + 1] = 10 * h[k] + (b[k + 1] - 48)
    <3>1. k + 1 \in 0 .. n /\ k + 1 # 0 /\ (k + 1) - 1 = k
      OBVIOUS
    <3>2. QED
      BY <3>1 DEF Counter
  <2>4. QED
    BY <2>1, <2>2, <2>3
<1>3. QED
  <2> HIDE DEF S
  <2>1. m \in S
    BY <1>1, <1>2, Induction
  <2>2. QED
    BY <2>1 DEF S

LEMMA DecimalIsCounter ==
    ASSUME NEW b, NEW n \in Nat
    PROVE  \E g : Counter(g, b, n) /\ Decimal(b, n) = g[n]
<1> DEFINE g == CHOOSE g : Counter(g, b, n)
<1>1. Counter(g, b, n)
  BY CounterExists
<1>2. Decimal(b, n) = g[n]
  BY DEF Decimal, Counter
<1>3. QED
  BY <1>1, <1>2

(* The recursion Decimal is meant to satisfy.                              *)
LEMMA DecimalSteps ==
    ASSUME NEW b, NEW n \in Nat
    PROVE  /\ Decimal(b, 0) = 0
           /\ Decimal(b, n + 1) = 10 * Decimal(b, n) + (b[n + 1] - 48)
<1>1. Decimal(b, 0) = 0
  <2>1. PICK g : Counter(g, b, 0) /\ Decimal(b, 0) = g[0]
    BY DecimalIsCounter
  <2>2. QED
    BY <2>1 DEF Counter
<1>2. PICK g : Counter(g, b, n) /\ Decimal(b, n) = g[n]
  BY DecimalIsCounter
<1>3. PICK h : Counter(h, b, n + 1) /\ Decimal(b, n + 1) = h[n + 1]
  BY DecimalIsCounter
<1>4. g[n] = h[n]
  BY <1>2, <1>3, CounterUnique
<1>5. h[n + 1] = 10 * h[n] + (b[n + 1] - 48)
  <2>1. n + 1 \in 0 .. n + 1 /\ n + 1 # 0 /\ (n + 1) - 1 = n
    OBVIOUS
  <2>2. QED
    BY <1>3, <2>1 DEF Counter
<1>6. QED
  BY <1>1, <1>2, <1>3, <1>4, <1>5

LEMMA DecimalIsNat ==
    ASSUME NEW b, NEW n \in Nat, \A i \in 1 .. n : b[i] \in Digit
    PROVE  Decimal(b, n) \in Nat
<1> DEFINE S == {k \in Nat : k <= n => Decimal(b, k) \in Nat}
<1>1. 0 \in S
  BY DecimalSteps
<1>2. ASSUME NEW k \in Nat, k \in S
      PROVE  k + 1 \in S
  <2> SUFFICES ASSUME k + 1 <= n
               PROVE  Decimal(b, k + 1) \in Nat
    OBVIOUS
  <2>1. Decimal(b, k) \in Nat
    BY <1>2
  <2>2. b[k + 1] - 48 \in Nat
    BY DEF Digit
  <2>3. Decimal(b, k + 1) = 10 * Decimal(b, k) + (b[k + 1] - 48)
    BY DecimalSteps
  <2>4. QED
    BY <2>1, <2>2, <2>3
<1>3. QED
  <2> HIDE DEF S
  <2>1. n \in S
    BY <1>1, <1>2, Induction
  <2>2. QED
    BY <2>1 DEF S

LEMMA DecimalLocal ==
    ASSUME NEW b, NEW c, NEW n \in Nat, \A i \in 1 .. n : b[i] = c[i]
    PROVE  Decimal(b, n) = Decimal(c, n)
<1> DEFINE S == {k \in Nat : k <= n => Decimal(b, k) = Decimal(c, k)}
<1>1. 0 \in S
  BY DecimalSteps
<1>2. ASSUME NEW k \in Nat, k \in S
      PROVE  k + 1 \in S
  <2> SUFFICES ASSUME k + 1 <= n
               PROVE  Decimal(b, k + 1) = Decimal(c, k + 1)
    OBVIOUS
  <2>1. Decimal(b, k) = Decimal(c, k) /\ b[k + 1] = c[k + 1]
    BY <1>2
  <2>2. QED
    BY <2>1, DecimalSteps
<1>3. QED
  <2> HIDE DEF S
  <2>1. n \in S
    BY <1>1, <1>2, Induction
  <2>2. QED
    BY <2>1 DEF S

(* Digits satisfies its equation.                                          *)
DigitsOf(g, k) ==
    IF k < 10 THEN <<48 + k>> ELSE Append(g[k \div 10], 48 + (k % 10))

Writer(g, n) == g = [k \in 0 .. n |-> DigitsOf(g, k)]

LEMMA WriterExists == \A n \in Nat : \E g : Writer(g, n)
<1> DEFINE S == {n \in Nat : \E g : Writer(g, n)}
<1>1. 0 \in S
  <2>1. Writer([k \in 0 .. 0 |-> <<48 + k>>], 0)
    BY DEF Writer, DigitsOf
  <2>2. QED
    BY <2>1
<1>2. ASSUME NEW n \in Nat, n \in S
      PROVE  n + 1 \in S
  <2>1. PICK g : Writer(g, n)
    BY <1>2
  <2> DEFINE h == [k \in 0 .. n + 1 |-> IF k = n + 1 THEN DigitsOf(g, n + 1) ELSE g[k]]
  <2>2. ASSUME NEW k \in 0 .. n + 1
        PROVE  h[k] = DigitsOf(h, k)
    <3>1. ASSUME k >= 10
          PROVE  h[k \div 10] = g[k \div 10]
      <4>1. k \div 10 \in 0 .. n
        BY <3>1
      <4>2. QED
        BY <4>1
    <3>2. DigitsOf(h, k) = DigitsOf(g, k)
      BY <3>1 DEF DigitsOf
    <3>3. CASE k = n + 1
      BY <3>2, <3>3
    <3>4. CASE k # n + 1
      <4>1. k \in 0 .. n
        BY <3>4
      <4>2. g[k] = DigitsOf(g, k)
        BY <2>1, <4>1 DEF Writer
      <4>3. QED
        BY <3>2, <4>1, <4>2
    <3>5. QED
      BY <3>3, <3>4
  <2>3. h = [k \in 0 .. n + 1 |-> h[k]]
    OBVIOUS
  <2> HIDE DEF h
  <2>4. Writer(h, n + 1)
    BY <2>2, <2>3 DEF Writer
  <2>5. QED
    BY <2>4
<1>3. QED
  <2> HIDE DEF S
  <2>1. \A n \in Nat : n \in S
    BY <1>1, <1>2, Induction
  <2>2. QED
    BY <2>1 DEF S

LEMMA WriterUnique ==
    ASSUME NEW m \in Nat, NEW n \in Nat, NEW g, Writer(g, m), NEW h, Writer(h, n),
           NEW k \in Nat, k <= m, k <= n
    PROVE  g[k] = h[k]
<1> DEFINE T == {j \in Nat : j <= m /\ j <= n /\ g[j] # h[j]}
<1> SUFFICES ASSUME T # {}
             PROVE  FALSE
  OBVIOUS
<1>1. PICK x \in T : \A y \in T : x <= y
  <2>1. T \subseteq Nat
    OBVIOUS
  <2> HIDE DEF T
  <2>2. QED
    BY <2>1, Least
<1>2. x \in 0 .. m /\ x \in 0 .. n
  OBVIOUS
<1>3. g[x] = DigitsOf(g, x) /\ h[x] = DigitsOf(h, x)
  BY <1>2 DEF Writer
<1>4. ASSUME x >= 10
      PROVE  g[x \div 10] = h[x \div 10]
  <2>1. x \div 10 \in Nat /\ x \div 10 < x
    BY <1>2, <1>4
  <2>2. x \div 10 \notin T
    BY <1>1, <1>2, <2>1
  <2>3. QED
    BY <1>2, <2>1, <2>2
<1>5. g[x] = h[x]
  BY <1>2, <1>3, <1>4 DEF DigitsOf
<1>6. QED
  BY <1>5

LEMMA DigitsSteps == \A n \in Nat : Digits[n] = DigitsOf(Digits, n)
<1> DEFINE G(n) == CHOOSE g : Writer(g, n)
           f == [n \in Nat |-> G(n)[n]]
<1>1. \A n \in Nat : Writer(G(n), n)
  BY WriterExists
<1> HIDE DEF G
<1>2. ASSUME NEW n \in Nat
      PROVE  f[n] = DigitsOf(f, n)
  <2>1. G(n)[n] = DigitsOf(G(n), n)
    BY <1>1 DEF Writer
  <2>2. ASSUME n >= 10
        PROVE  f[n \div 10] = G(n)[n \div 10]
    <3>1. n \div 10 \in Nat /\ n \div 10 <= n
      BY <2>2
    <3>2. G(n \div 10)[n \div 10] = G(n)[n \div 10]
      BY <1>1, <3>1, WriterUnique
    <3>3. QED
      BY <3>1, <3>2
  <2>3. DigitsOf(f, n) = DigitsOf(G(n), n)
    BY <2>2 DEF DigitsOf
  <2>4. QED
    BY <2>1, <2>3
<1>3. f = [n \in Nat |-> DigitsOf(f, n)]
  <2>1. f = [n \in Nat |-> f[n]]
    OBVIOUS
  <2> HIDE DEF f
  <2>2. QED
    BY <1>2, <2>1
<1> HIDE DEF f
<1>4. Digits = CHOOSE g : g = [n \in Nat |-> DigitsOf(g, n)]
  BY DEF Digits, DigitsOf
<1>5. Digits = [n \in Nat |-> DigitsOf(Digits, n)]
  BY <1>3, <1>4
<1>6. QED
  BY <1>5

(* Digits writes digits, at least one, and they say the number.            *)
LEMMA DigitsSay ==
    \A n \in Nat : /\ Digits[n] \in Seq(Digit) /\ Len(Digits[n]) \in Nat \ {0}
                   /\ Decimal(Digits[n], Len(Digits[n])) = n
<1> DEFINE Right(n) == /\ Digits[n] \in Seq(Digit) /\ Len(Digits[n]) \in Nat \ {0}
                       /\ Decimal(Digits[n], Len(Digits[n])) = n
           T == {n \in Nat : ~ Right(n)}
<1> SUFFICES ASSUME T # {}
             PROVE  FALSE
  OBVIOUS
<1>1. PICK n \in T : \A y \in T : n <= y
  <2>1. T \subseteq Nat
    OBVIOUS
  <2> HIDE DEF T
  <2>2. QED
    BY <2>1, Least
<1>2. n \in Nat /\ ~ Right(n)
  OBVIOUS
<1>3. CASE n < 10
  <2>1. Digits[n] = <<48 + n>>
    BY <1>2, <1>3, DigitsSteps DEF DigitsOf
  <2>2. 48 + n \in Digit
    BY <1>2, <1>3 DEF Digit
  <2>3. Digits[n] \in Seq(Digit) /\ Len(Digits[n]) = 1 /\ Digits[n][1] = 48 + n
    BY <2>1, <2>2
  <2>4. Decimal(Digits[n], 1) = n
    <3>1. Decimal(Digits[n], 0 + 1) = 10 * Decimal(Digits[n], 0) + (Digits[n][0 + 1] - 48)
          /\ Decimal(Digits[n], 0) = 0
      BY DecimalSteps
    <3>2. QED
      BY <1>2, <2>3, <3>1
  <2>5. QED
    BY <1>2, <2>3, <2>4
<1>4. CASE n >= 10
  <2> DEFINE m == n \div 10
             s == Digits[m]
             c == 48 + (n % 10)
             l == Len(s)
  <2>1. m \in Nat /\ m < n /\ n = 10 * m + (n % 10) /\ n % 10 \in 0 .. 9
    BY <1>2, <1>4
  <2>2. Right(m)
    BY <1>1, <1>2, <2>1
  <2>3. Digits[n] = Append(s, c)
    <3>1. Digits[n] = DigitsOf(Digits, n) /\ ~ (n < 10)
      BY <1>2, <1>4, DigitsSteps
    <3>2. QED
      BY <3>1 DEF DigitsOf
  <2>4. c \in Digit
    BY <2>1 DEF Digit
  <2> HIDE DEF m, c
  <2>5. s \in Seq(Digit) /\ l \in Nat \ {0} /\ Decimal(s, l) = m
    BY <2>2
  <2> HIDE DEF s
  <2>6. /\ Append(s, c) \in Seq(Digit) /\ Len(Append(s, c)) = l + 1
        /\ \A i \in 1 .. l : Append(s, c)[i] = s[i]
        /\ Append(s, c)[l + 1] = c
    BY <2>4, <2>5
  <2>7. Decimal(Append(s, c), l) = m
    BY <2>5, <2>6, DecimalLocal
  <2>8. Decimal(Append(s, c), l + 1) = 10 * m + (c - 48)
    <3> HIDE DEF l
    <3>1. Decimal(Append(s, c), l + 1)
             = 10 * Decimal(Append(s, c), l) + (Append(s, c)[l + 1] - 48)
      BY <2>5, DecimalSteps
    <3>2. QED
      BY <2>6, <2>7, <3>1
  <2>9. 10 * m + (c - 48) = n
    BY <2>1 DEF c
  <2>10. QED
    BY <1>2, <2>3, <2>5, <2>6, <2>8, <2>9
<1>5. QED
  BY <1>2, <1>3, <1>4

-----------------------------------------------------------------------------
(* Find finds the first one, and Number is said by the leading digits.     *)

LEMMA FindFirst ==
    ASSUME NEW b, NEW p \in Int, Found(b, p), data \in Seq(Byte)
    PROVE  /\ p \in Nat
           /\ Find(b, p) \in p .. Size - 1
           /\ data[Find(b, p) + 1] = b
           /\ \A r \in p .. Find(b, p) - 1 : data[r + 1] # b
<1> DEFINE T == {q \in p .. Size - 1 : data[q + 1] = b}
<1>1. Size \in Nat /\ p \in Nat
  BY DEF Size, Found
<1>2. T # {}
  BY DEF Found
<1> HIDE DEF T
<1>3. T \subseteq Nat
  BY <1>1 DEF T
<1>4. PICK q \in T : \A r \in T : q <= r
  BY <1>2, <1>3, Least
<1>5. q \in p .. Size - 1 /\ data[q + 1] = b
  BY DEF T
<1>6. \A r \in p .. q - 1 : data[r + 1] # b
  BY <1>1, <1>4, <1>5 DEF T
<1>7. QED
  BY <1>1, <1>5, <1>6 DEF Find

LEMMA FindThere ==
    ASSUME NEW b, NEW p \in Nat, data \in Seq(Byte),
           NEW q \in p .. Size - 1, data[q + 1] = b,
           \A r \in p .. q - 1 : data[r + 1] # b
    PROVE  Found(b, p) /\ Find(b, p) = q
<1>1. Found(b, p)
  BY DEF Found
<1>2. /\ Find(b, p) \in p .. Size - 1
      /\ data[Find(b, p) + 1] = b
      /\ \A r \in p .. Find(b, p) - 1 : data[r + 1] # b
  BY <1>1, FindFirst
<1>3. Size \in Nat
  BY DEF Size
<1>4. QED
  BY <1>1, <1>2, <1>3

LEMMA UnsignedIs ==
    ASSUME NEW b, Len(b) \in Nat, NEW n \in 1 .. Len(b),
           \A i \in 1 .. n : b[i] \in Digit,
           n < Len(b) => b[n + 1] \notin Digit
    PROVE  Unsigned(b) = Decimal(b, n)
<1> DEFINE Leads(k) == /\ \A i \in 1 .. k : b[i] \in Digit
                       /\ k < Len(b) => b[k + 1] \notin Digit
<1>1. \A k \in 1 .. Len(b) : Leads(k) => k = n
  <2> SUFFICES ASSUME NEW k \in 1 .. Len(b), Leads(k)
               PROVE  k = n
    OBVIOUS
  <2>1. ~ (k < n)
    OBVIOUS
  <2>2. ~ (n < k)
    OBVIOUS
  <2>3. QED
    BY <2>1, <2>2
<1>2. Leads(n)
  OBVIOUS
<1>3. n = CHOOSE k \in 1 .. Len(b) : Leads(k)
  BY <1>1, <1>2
<1>4. QED
  BY <1>3 DEF Unsigned

LEMMA NumberIs ==
    ASSUME NEW b, Len(b) \in Nat, NEW n \in 1 .. Len(b),
           \A i \in 1 .. n : b[i] \in Digit,
           n < Len(b) => b[n + 1] \notin Digit
    PROVE  Number(b) = Decimal(b, n) /\ Numeric(b)
<1>1. 1 \in 1 .. n /\ 1 \in 1 .. Len(b) /\ 1 .. 1 - 2 = {}
  OBVIOUS
<1>2. b[1] \in Digit
  BY <1>1
<1>3. Unsigned(b) = Decimal(b, n)
  BY UnsignedIs
<1>4. FirstDigit(b, 1)
  BY <1>1, <1>2 DEF FirstDigit
<1>5. QED
  BY <1>1, <1>2, <1>3, <1>4 DEF Number, Numeric

LEMMA LeadingDigits ==
    ASSUME NEW b \in Seq(Byte), b # <<>>, b[1] \in Digit
    PROVE  \E n \in 1 .. Len(b) : /\ \A i \in 1 .. n : b[i] \in Digit
                                  /\ n < Len(b) => b[n + 1] \notin Digit
<1>1. Len(b) \in Nat \ {0} /\ b[1] \in Digit
  OBVIOUS
<1> DEFINE T == {i \in 1 .. Len(b) : b[i] \notin Digit}
<1>2. CASE T = {}
  <2>1. \A i \in 1 .. Len(b) : b[i] \in Digit
    BY <1>2
  <2> DEFINE l == Len(b)
  <2>2. l \in 1 .. Len(b) /\ ~ (l < Len(b)) /\ 1 .. l = 1 .. Len(b)
    BY <1>1
  <2> HIDE DEF T, l
  <2>3. QED
    BY <2>1, <2>2
<1>3. CASE T # {}
  <2>1. T \subseteq Nat
    OBVIOUS
  <2>2. PICK x \in T : \A y \in T : x <= y
    <3> HIDE DEF T
    <3>1. QED
      BY <1>3, <2>1, Least
  <2>3. x \in 1 .. Len(b) /\ b[x] \notin Digit /\ x # 1
    BY <1>1
  <2>4. \A i \in 1 .. x - 1 : b[i] \in Digit
    BY <2>2, <2>3
  <2>5. x - 1 \in 1 .. Len(b) /\ (x - 1) + 1 = x
    BY <2>3
  <2>6. QED
    BY <2>3, <2>4, <2>5
<1>4. QED
  BY <1>2, <1>3

LEMMA UnsignedIsNat ==
    ASSUME NEW b \in Seq(Byte), b # <<>>, b[1] \in Digit
    PROVE  Unsigned(b) \in Nat
<1>1. PICK n \in 1 .. Len(b) : /\ \A i \in 1 .. n : b[i] \in Digit
                               /\ n < Len(b) => b[n + 1] \notin Digit
  BY LeadingDigits
<1>2. Unsigned(b) = Decimal(b, n)
  BY <1>1, UnsignedIs
<1>3. Decimal(b, n) \in Nat
  BY <1>1, DecimalIsNat
<1>4. QED
  BY <1>2, <1>3

(* What stoi and stoll take is a number, with a sign or without.           *)
LEMMA NumberIsInt ==
    ASSUME NEW b \in Seq(Byte), Numeric(b)
    PROVE  Number(b) \in Int
<1>1. PICK f \in 1 .. Len(b) : FirstDigit(b, f)
  BY DEF Numeric
<1>2. b # <<>> /\ Len(b) \in Nat
  BY <1>1
<1>3. CASE b[1] \in Digit
  BY <1>2, <1>3, UnsignedIsNat DEF Number
<1>4. CASE b[1] \notin Digit
  <2> DEFINE g == CHOOSE g \in 2 .. Len(b) : FirstDigit(b, g)
             tail == SubSeq(b, g, Len(b))
  <2>1. f # 1
    BY <1>1, <1>4 DEF FirstDigit
  <2>2. f \in 2 .. Len(b)
    BY <1>1, <1>2, <2>1
  <2>3. g \in 2 .. Len(b) /\ FirstDigit(b, g)
    BY <1>1, <2>2
  <2>4. Number(b) = IF b[g - 1] = Minus THEN -Unsigned(tail) ELSE Unsigned(tail)
    BY <1>4 DEF Number
  <2> HIDE DEF g
  <2>5. tail \in Seq(Byte) /\ tail # <<>> /\ tail[1] = b[g]
    <3>1. g \in Nat /\ 1 <= g /\ g <= Len(b) /\ Len(b) \in Nat
      BY <2>3
    <3>2. tail \in Seq(Byte)
      BY <1>2, <2>3
    <3>3. Len(tail) = Len(b) - g + 1
      BY <1>2, <3>1
    <3>4. tail # <<>>
      <4>1. Len(tail) # 0
        BY <3>1, <3>3
      <4>2. Len(<<>>) = 0
        OBVIOUS
      <4>3. QED
        BY <4>1, <4>2, Zenon
    <3>5. 1 \in 1 .. (Len(b) - g + 1) /\ g + 1 - 1 = g
      BY <3>1
    <3>6. tail[1] = b[g + 1 - 1]
      BY <1>2, <3>1, <3>5
    <3>7. QED
      BY <3>2, <3>4, <3>5, <3>6
  <2>6. tail[1] \in Digit
    BY <2>3, <2>5 DEF FirstDigit
  <2> HIDE DEF tail
  <2>7. Unsigned(tail) \in Nat
    BY <2>5, <2>6, UnsignedIsNat
  <2>8. QED
    BY <2>4, <2>7
<1>5. QED
  BY <1>3, <1>4

(* A byte that is no digit, space or sign is not where a number starts.    *)
LEMMA NoNumber ==
    ASSUME NEW b, Len(b) \in Nat, b[1] \notin Digit \cup Space \cup {Plus, Minus}
    PROVE  ~ Numeric(b)
<1> SUFFICES ASSUME NEW f \in 1 .. Len(b), FirstDigit(b, f)
             PROVE  FALSE
  BY DEF Numeric
<1>1. b[f] \in Digit
  BY DEF FirstDigit
<1>2. CASE f = 1
  BY <1>1, <1>2
<1>3. CASE f = 2
  <2>1. f > 1 /\ f - 1 = 1
    BY <1>3
  <2>2. b[f - 1] \in Space \cup {Plus, Minus}
    BY <2>1 DEF FirstDigit
  <2>3. QED
    BY <2>1, <2>2
<1>4. CASE f > 2
  <2>1. 1 \in 1 .. f - 2
    BY <1>4
  <2>2. b[1] \in Space
    BY <2>1 DEF FirstDigit
  <2>3. QED
    BY <2>2
<1>5. QED
  BY <1>2, <1>3, <1>4

LEMMA BytesThere ==
    ASSUME data \in Seq(Byte), NEW p \in Nat, NEW q \in Nat, q <= Size
    PROVE  /\ Bytes(p, q) \in Seq(Byte)
           /\ Len(Bytes(p, q)) = (IF p <= q THEN q - p ELSE 0)
           /\ \A i \in 1 .. Len(Bytes(p, q)) : Bytes(p, q)[i] = data[p + i]
<1>1. Size \in Nat /\ Size = Len(data)
  BY DEF Size
<1>2. /\ Bytes(p, q) \in Seq(Byte)
      /\ Len(Bytes(p, q)) = (IF p <= q THEN q - p ELSE 0)
      /\ \A i \in 1 .. Len(Bytes(p, q)) : Bytes(p, q)[i] = data[p + i]
  BY <1>1 DEF Bytes
<1>3. QED
  BY <1>2

-----------------------------------------------------------------------------
(* The values of fields.                                                   *)

Hash == {h \in Seq(Byte) : Len(h) = HashLength}
PeerRecord == {p \in [ip : Seq(Byte), port : Nat] : p.port \div 256 \in Byte}

LEMMA PartsThere ==
    ASSUME NEW raw \in Seq(Byte), NEW n \in Nat \ {0}
    PROVE  /\ DOMAIN PartsOf(raw, n) = 1 .. Len(raw) \div n
           /\ \A k \in DOMAIN PartsOf(raw, n) :
                 /\ PartsOf(raw, n)[k] \in Seq(Byte) /\ Len(PartsOf(raw, n)[k]) = n
                 /\ (k - 1) * n \in Nat /\ (k - 1) * n + n <= Len(raw)
                 /\ \A i \in 1 .. n : PartsOf(raw, n)[k][i] = raw[(k - 1) * n + i]
<1> DEFINE l == Len(raw)
           q == l \div n
<1>1. DOMAIN PartsOf(raw, n) = 1 .. q
  BY DEF PartsOf
<1>2. l \in Nat /\ q \in Nat /\ q * n <= l
  OBVIOUS
<1>3. ASSUME NEW k \in 1 .. q, NEW a, a = (k - 1) * n
      PROVE  /\ PartsOf(raw, n)[k] \in Seq(Byte) /\ Len(PartsOf(raw, n)[k]) = n
             /\ a \in Nat /\ a + n <= Len(raw)
             /\ \A i \in 1 .. n : PartsOf(raw, n)[k][i] = raw[a + i]
  <2> DEFINE b == k * n
  <2>1. PartsOf(raw, n)[k] = SubSeq(raw, a + 1, b)
    BY <1>3 DEF PartsOf
  <2>2. a \in Nat /\ b = a + n /\ b <= q * n
    BY <1>3
  <2>3. b <= l
    BY <1>2, <2>2
  <2> HIDE DEF b, q
  <2>4. /\ SubSeq(raw, a + 1, b) \in Seq(Byte)
        /\ Len(SubSeq(raw, a + 1, b)) = n
        /\ \A i \in 1 .. n : SubSeq(raw, a + 1, b)[i] = raw[a + i]
    BY <2>2, <2>3
  <2>5. QED
    BY <2>1, <2>2, <2>3, <2>4
<1>4. QED
  BY <1>1, <1>3

LEMMA PeerTyped ==
    ASSUME NEW p \in Seq(Byte), Len(p) = 6
    PROVE  Peer(p).port \div 256 \in Byte
<1>1. p[5] \in Byte /\ p[6] \in Byte
  <2>1. 5 \in 1 .. Len(p) /\ 6 \in 1 .. Len(p)
    OBVIOUS
  <2>2. QED
    BY <2>1, ElementOfSeq
<1>2. \A x, y \in Byte : (256 * x + y) \div 256 = x
  BY DEF Byte
<1>3. Peer(p).port = 256 * p[5] + p[6]
  BY DEF Peer
<1>4. QED
  BY <1>1, <1>2, <1>3

LEMMA SeqMade ==
    ASSUME NEW T, NEW n \in Nat, NEW s, DOMAIN s = 1 .. n,
           s = [k \in 1 .. n |-> s[k]], \A k \in 1 .. n : s[k] \in T
    PROVE  s \in Seq(T) /\ Len(s) = n
<1>1. s \in [1 .. n -> T]
  OBVIOUS
<1>2. s \in Seq(T)
  BY <1>1
<1>3. QED
  BY <1>1, <1>2

LEMMA PartsSeq ==
    ASSUME NEW raw \in Seq(Byte), NEW n \in Nat \ {0}
    PROVE  /\ PartsOf(raw, n) \in Seq(Seq(Byte))
           /\ Len(PartsOf(raw, n)) = Len(raw) \div n /\ Len(raw) \div n \in Nat
<1> DEFINE q == Len(raw) \div n
<1>1. q \in Nat
  OBVIOUS
<1>2. DOMAIN PartsOf(raw, n) = 1 .. q /\ \A k \in 1 .. q : PartsOf(raw, n)[k] \in Seq(Byte)
  BY PartsThere
<1> DEFINE s == PartsOf(raw, n)
<1>3. s = [k \in 1 .. q |-> s[k]]
  BY DEF PartsOf
<1> HIDE DEF q, s
<1>4. s \in Seq(Seq(Byte)) /\ Len(s) = q
  BY <1>1, <1>2, <1>3, SeqMade DEF s
<1>5. QED
  BY <1>1, <1>4 DEF q, s

LEMMA PeersSeq ==
    ASSUME NEW raw \in Seq(Byte)
    PROVE  /\ ValueOf("peers", raw) \in Seq([ip : Seq(Byte), port : Nat])
           /\ Len(ValueOf("peers", raw)) = Len(PartsOf(raw, 6))
           /\ \A k \in 1 .. Len(PartsOf(raw, 6)) :
                 ValueOf("peers", raw)[k] = Peer(PartsOf(raw, 6)[k])
<1> DEFINE parts == PartsOf(raw, 6)
           q == Len(parts)
<1>1. 6 \in Nat \ {0}
  OBVIOUS
<1>2. parts \in Seq(Seq(Byte)) /\ q \in Nat /\ DOMAIN parts = 1 .. q
  BY <1>1, PartsSeq
<1>3. \A k \in DOMAIN parts : parts[k] \in Seq(Byte) /\ Len(parts[k]) = 6
  BY <1>1, PartsThere
<1>4. ValueOf("peers", raw) = [k \in 1 .. q |-> Peer(parts[k])]
  <2>1. ValueOf("peers", raw) = [k \in DOMAIN parts |-> Peer(parts[k])]
    BY DEF ValueOf
  <2>2. QED
    BY <1>2, <2>1
<1> HIDE DEF parts, q
<1> DEFINE w == ValueOf("peers", raw)
           T == [ip : Seq(Byte), port : Nat]
<1>5. ASSUME NEW p \in Seq(Byte), Len(p) = 6
      PROVE  Peer(p) \in T
  <2>1. \A i \in 1 .. 6 : p[i] \in Byte
    <3>1. \A i \in 1 .. Len(p) : p[i] \in Byte
      BY ElementOfSeq
    <3>2. QED
      BY <1>5, <3>1
  <2>2. p[5] \in Byte /\ p[6] \in Byte
    BY <2>1
  <2>3. SubSeq(p, 1, 4) \in Seq(Byte)
    BY <2>1, SubSeqProperties
  <2>4. \A x, y \in Byte : 256 * x + y \in Nat
    BY DEF Byte
  <2>5. QED
    BY <2>2, <2>3, <2>4 DEF Peer
<1>6. DOMAIN w = 1 .. q /\ w = [k \in 1 .. q |-> w[k]]
  BY <1>4
<1>7. \A k \in 1 .. q : w[k] = Peer(parts[k]) /\ w[k] \in T
  <2>1. \A k \in 1 .. q : w[k] = Peer(parts[k])
    BY <1>4
  <2> HIDE DEF w, T
  <2>2. QED
    BY <1>2, <1>3, <1>5, <2>1
<1> HIDE DEF w, T
<1>8. w \in Seq(T) /\ Len(w) = q
  BY <1>2, <1>6, <1>7, SeqMade
<1>9. QED
  BY <1>7, <1>8 DEF q, parts, w, T

LEMMA ValueTyped ==
    ASSUME NEW raw \in Seq(Byte)
    PROVE  ValueOf("pieces", raw) \in Seq(Hash) /\ ValueOf("peers", raw) \in Seq(PeerRecord)
<1>1. ValueOf("pieces", raw) \in Seq(Hash)
  <2> DEFINE s == PartsOf(raw, HashLength)
             n == Len(s)
  <2>1. s \in Seq(Seq(Byte)) /\ n \in Nat
    BY PartsSeq, BencodeAssumption
  <2>2. \A k \in DOMAIN s : s[k] \in Hash
    BY PartsThere, BencodeAssumption DEF Hash
  <2>3. ValueOf("pieces", raw) = s
    BY DEF ValueOf
  <2> HIDE DEF s
  <2>4. DOMAIN s = 1 .. n /\ s = [k \in 1 .. n |-> s[k]]
    BY <2>1
  <2>5. s \in Seq(Hash)
    BY <2>1, <2>2, <2>4, SeqMade
  <2>6. QED
    BY <2>3, <2>5
<1>2. ValueOf("peers", raw) \in Seq(PeerRecord)
  <2> DEFINE s == ValueOf("peers", raw)
             parts == PartsOf(raw, 6)
             n == Len(s)
  <2>1. 6 \in Nat \ {0}
    OBVIOUS
  <2>2. /\ s \in Seq([ip : Seq(Byte), port : Nat]) /\ n = Len(parts)
        /\ \A k \in 1 .. n : s[k] = Peer(parts[k])
    BY PeersSeq
  <2>3. parts \in Seq(Seq(Byte)) /\ \A k \in DOMAIN parts : parts[k] \in Seq(Byte) /\ Len(parts[k]) = 6
    BY <2>1, PartsSeq, PartsThere
  <2> HIDE DEF s, parts
  <2>4. DOMAIN s = 1 .. n /\ s = [k \in 1 .. n |-> s[k]] /\ n \in Nat /\ DOMAIN parts = 1 .. n
    BY <2>2, <2>3
  <2>5. ASSUME NEW k \in 1 .. n
        PROVE  s[k] \in PeerRecord
    <3>1. parts[k] \in Seq(Byte) /\ Len(parts[k]) = 6 /\ s[k] = Peer(parts[k])
      BY <2>2, <2>3, <2>4
    <3>2. s[k].port \div 256 \in Byte
      BY <3>1, PeerTyped
    <3>3. s[k] \in [ip : Seq(Byte), port : Nat]
      BY <2>2, <2>4, ElementOfSeq
    <3>4. QED
      BY <3>2, <3>3 DEF PeerRecord
  <2>6. s \in Seq(PeerRecord)
    BY <2>4, <2>5, SeqMade
  <2>7. QED
    BY <2>6 DEF s
<1>3. QED
  BY <1>1, <1>2

-----------------------------------------------------------------------------
(* Types.                                                                  *)

Fields == Counts \cup Texts \cup Rows

Holds(f) == IF f \in Ints THEN MaxInt ELSE MaxLong     \* the most that a field can

Typed(r) ==
    /\ r = [f \in Fields |-> r[f]]
    /\ \A f \in Counts : FitsIn(r[f], Holds(f))
    /\ r["pieces"] \in Seq(Hash)
    /\ r["peers"] \in Seq(PeerRecord)

TypeInv ==
    /\ doc \in Documents \cup Oddities /\ data \in Seq(Byte)
    /\ pos \in Int /\ nest \in 0 .. MaxNest
    /\ at \in Dictionaries \cup Ended
    /\ Typed(result)
    /\ info_start \in Int /\ info_end \in Int

LEMMA NothingThere ==
    /\ Nothing = [f \in Fields |-> Nothing[f]]
    /\ \A f \in Counts : Nothing[f] = 0
    /\ \A f \in Texts \cup Rows : Nothing[f] = <<>>
<1>1. \A f \in Texts \cup Rows : f \notin Counts
  BY DEF Texts, Rows, Counts
<1>2. Nothing = [f \in Fields |-> IF f \in Counts THEN 0 ELSE <<>>]
  BY DEF Nothing, Fields
<1>3. Counts \subseteq Fields /\ Texts \cup Rows \subseteq Fields
  BY DEF Fields
<1>4. QED
  BY <1>1, <1>2, <1>3

LEMMA MinThere ==
    ASSUME NEW a \in Nat, NEW b \in Nat
    PROVE  Min({a, b}) = IF a <= b THEN a ELSE b
<1> DEFINE m == IF a <= b THEN a ELSE b
<1>1. m \in {a, b} /\ \A y \in {a, b} : m <= y
  OBVIOUS
<1>2. \A x \in {a, b} : (\A y \in {a, b} : x <= y) => x = m
  OBVIOUS
<1> HIDE DEF m
<1>3. m = CHOOSE x \in {a, b} : \A y \in {a, b} : x <= y
  BY <1>1, <1>2
<1>4. QED
  BY <1>3 DEF Min, m

LEMMA ReadStringTyped ==
    ASSUME data \in Seq(Byte), NEW p \in Int, IsString(p)
    PROVE  read_string(p).value \in Seq(Byte) /\ read_string(p).next \in Int
<1> DEFINE colon == Find(Colon, p)
           len == Number(Bytes(p, colon))
           next == colon + 1 + len
           end == IF len < 0 THEN Size ELSE Min({next, Size})
<1>1. read_string(p) = [value |-> Bytes(colon + 1, end), next |-> next]
  BY DEF read_string
<1>2. Numeric(Bytes(p, colon)) /\ Found(Colon, p)
  BY DEF IsString
<1>3. Size \in Nat /\ p \in Nat /\ colon \in p .. Size - 1
  BY <1>2, FindFirst DEF Size
<1> HIDE DEF colon
<1>4. colon \in Nat /\ colon <= Size /\ colon + 1 \in Nat
  BY <1>3
<1>5. Bytes(p, colon) \in Seq(Byte)
  BY <1>3, <1>4, BytesThere
<1>6. len \in Int
  BY <1>2, <1>5, NumberIsInt
<1> HIDE DEF len
<1>7. next \in Int /\ (~ (len < 0) => next \in Nat)
  BY <1>4, <1>6
<1> HIDE DEF next
<1>8. end \in Nat /\ end <= Size
  <2>1. CASE len < 0
    BY <1>3, <2>1
  <2>2. CASE ~ (len < 0)
    <3>1. Min({next, Size}) = IF next <= Size THEN next ELSE Size
      BY <1>3, <1>7, <2>2, MinThere
    <3>2. QED
      BY <1>3, <1>7, <2>2, <3>1
  <2>3. QED
    BY <2>1, <2>2
<1> HIDE DEF end
<1>9. Bytes(colon + 1, end) \in Seq(Byte)
  BY <1>4, <1>8, BytesThere
<1>10. QED
  BY <1>1, <1>7, <1>9

LEMMA ReadIntegerTyped ==
    ASSUME data \in Seq(Byte), NEW p \in Int, IsInteger(p)
    PROVE  /\ FitsIn(read_integer(p).value, MaxLong)
           /\ read_integer(p).next \in Int
<1> DEFINE end == Find(E, p + 1)
           n == Number(Bytes(p + 1, end))
<1>1. Found(E, p + 1) /\ FitsIn(n, MaxLong)
  BY DEF IsInteger
<1>2. read_integer(p) = [value |-> n, next |-> end + 1]
  BY <1>1 DEF read_integer, EndOfInteger
<1> HIDE DEF n
<1>3. p + 1 \in Int /\ Size \in Nat
  BY DEF Size
<1>4. p + 1 \in Nat /\ end \in p + 1 .. Size - 1
  BY <1>1, <1>3, FindFirst
<1> HIDE DEF end
<1>5. end + 1 \in Int
  BY <1>4
<1>6. QED
  BY <1>1, <1>2, <1>5

LEMMA Remainder ==
    ASSUME NEW x \in Int, NEW n \in Nat \ {0}
    PROVE  x % n \in 0 .. n - 1
OBVIOUS

(* What a field keeps of a number fits it, and is the number if that does. *)
LEMMA KeptFits ==
    ASSUME NEW f, NEW n, FitsIn(n, MaxLong)
    PROVE  FitsIn(Kept(f, n), Holds(f)) /\ (n \in Nat /\ n <= Holds(f) => Kept(f, n) = n)
<1>1. MaxInt \in Nat /\ MaxLong \in Nat
  BY BencodeAssumption
<1>2. CASE f \notin Ints
  BY <1>2 DEF Kept, Holds
<1>3. CASE f \in Ints /\ FitsIn(n, MaxInt)
  BY <1>3 DEF Kept, Holds
<1>4. CASE f \in Ints /\ ~ FitsIn(n, MaxInt)
  <2> DEFINE m == MaxInt + 1
             x == (n + MaxInt + 1) % (2 * (MaxInt + 1))
  <2>1. n \in Int /\ n + MaxInt + 1 \in Int /\ 2 * (MaxInt + 1) \in Nat \ {0}
    BY <1>1 DEF FitsIn
  <2>2. x \in 0 .. 2 * (MaxInt + 1) - 1
    BY <2>1, Remainder
  <2>3. Kept(f, n) = x - (MaxInt + 1)
    BY <1>4 DEF Kept
  <2> HIDE DEF x
  <2>4. Kept(f, n) \in -(MaxInt + 1) .. MaxInt
    BY <1>1, <2>2, <2>3
  <2>5. ~ (n \in Nat /\ n <= MaxInt)
    BY <1>1, <1>4 DEF FitsIn
  <2>6. QED
    BY <1>4, <2>4, <2>5 DEF FitsIn, Holds
<1>5. QED
  BY <1>2, <1>3, <1>4

LEMMA TypedField ==
    ASSUME NEW r, Typed(r), NEW f \in Fields, NEW v,
           f \in Counts => FitsIn(v, Holds(f)),
           f = "pieces" => v \in Seq(Hash),
           f = "peers" => v \in Seq(PeerRecord)
    PROVE  Typed([r EXCEPT ![f] = v])
<1> DEFINE s == [r EXCEPT ![f] = v]
<1>1. DOMAIN r = Fields
  BY DEF Typed
<1>2. s[f] = v /\ (\A g \in Fields \ {f} : s[g] = r[g]) /\ s = [g \in Fields |-> s[g]]
  BY <1>1
<1>3. Counts \subseteq Fields /\ "pieces" \in Fields /\ "peers" \in Fields
  BY DEF Fields, Rows
<1> HIDE DEF s
<1>4. ASSUME NEW g \in Counts
      PROVE  FitsIn(s[g], Holds(g))
  <2>1. CASE g = f
    BY <1>2, <2>1
  <2>2. CASE g # f
    <3>1. s[g] = r[g]
      BY <1>2, <1>3, <2>2
    <3>2. QED
      BY <3>1 DEF Typed
  <2>3. QED
    BY <2>1, <2>2
<1>5. s["pieces"] \in Seq(Hash)
  <2>1. CASE f = "pieces"
    BY <1>2, <2>1
  <2>2. CASE f # "pieces"
    <3>1. s["pieces"] = r["pieces"]
      BY <1>2, <1>3, <2>2
    <3>2. QED
      BY <3>1 DEF Typed
  <2>3. QED
    BY <2>1, <2>2
<1>6. s["peers"] \in Seq(PeerRecord)
  <2>1. CASE f = "peers"
    BY <1>2, <2>1
  <2>2. CASE f # "peers"
    <3>1. s["peers"] = r["peers"]
      BY <1>2, <1>3, <2>2
    <3>2. QED
      BY <3>1 DEF Typed
  <2>3. QED
    BY <2>1, <2>2
<1>7. Typed(s)
  BY <1>2, <1>4, <1>5, <1>6 DEF Typed
<1>8. QED
  BY <1>7 DEF s

LEMMA TypeInit == Init => TypeInv
<1> SUFFICES ASSUME Init
             PROVE  TypeInv
  OBVIOUS
<1>1. PICK n \in 0 .. Len(doc.data) : data = SubSeq(doc.data, 1, n)
  BY DEF Init
<1>2. /\ doc \in Documents \cup Oddities /\ doc.data \in Seq(Byte)
      /\ doc.kind \in {"outer", "response"}
  BY BencodeAssumption DEF Init
<1>3. data \in Seq(Byte)
  <2>1. n \in Nat /\ n <= Len(doc.data)
    BY <1>2
  <2>2. QED
    BY <1>1, <1>2, <2>1
<1>4. Typed(Nothing)
  <2>1. <<>> \in Seq(Hash) /\ <<>> \in Seq(PeerRecord)
    OBVIOUS
  <2>2. Nothing["pieces"] = <<>> /\ Nothing["peers"] = <<>>
    BY NothingThere DEF Rows
  <2>3. ASSUME NEW f \in Counts
        PROVE  FitsIn(Nothing[f], Holds(f))
    <3>1. Nothing[f] = 0 /\ Holds(f) \in Nat
      BY NothingThere, BencodeAssumption DEF Holds
    <3>2. QED
      BY <3>1 DEF FitsIn
  <2>4. Nothing = [f \in Fields |-> Nothing[f]]
    BY NothingThere
  <2>5. QED
    BY <2>1, <2>2, <2>3, <2>4, Zenon DEF Typed
<1>5. 0 \in 0 .. MaxNest
  BY BencodeAssumption
<1>6. QED
  BY <1>2, <1>3, <1>4, <1>5 DEF Init, TypeInv, Dictionaries

LEMMA TypeSkip ==
    ASSUME TypeInv, Skip
    PROVE  TypeInv'
<1>1. UNCHANGED <<doc, data, result, info_start, info_end>>
  BY DEF Skip
<1>2. PICK c \in ByteAt(pos) :
          SkipEnd(c) \/ SkipInteger(c) \/ SkipString(c) \/ SkipInto(c) \/ SkipNothing(c)
  BY DEF Skip
<1>3. /\ data \in Seq(Byte) /\ pos \in Int /\ nest \in Nat /\ nest > 0 /\ nest <= MaxNest
      /\ MaxNest \in Nat /\ at \in Dictionaries
  BY BencodeAssumption DEF TypeInv, Skip
<1>4. Returned \in 0 .. MaxNest
  BY <1>3 DEF Returned
<1>5. pos' \in Int /\ nest' \in 0 .. MaxNest /\ at' \in Dictionaries \cup Ended
  <2>1. CASE SkipEnd(c)
    BY <1>3, <2>1 DEF SkipEnd
  <2>2. CASE SkipInteger(c)
    <3>1. ASSUME Found(E, pos + 1)
          PROVE  Find(E, pos + 1) + 1 \in Int
      <4>1. pos + 1 \in Int /\ Size \in Nat
        BY <1>3 DEF Size
      <4>2. Find(E, pos + 1) \in pos + 1 .. Size - 1
        BY <1>3, <3>1, <4>1, FindFirst
      <4>3. QED
        BY <4>1, <4>2
    <3>2. pos' \in Int
      BY <2>2, <3>1 DEF SkipInteger
    <3>3. QED
      BY <1>3, <1>4, <2>2, <3>2 DEF SkipInteger
  <2>3. CASE SkipString(c)
    <3>1. CASE IsString(pos)
      BY <1>3, <1>4, <2>3, <3>1, ReadStringTyped DEF SkipString
    <3>2. CASE ~ IsString(pos)
      BY <1>3, <2>3, <3>2 DEF SkipString, Ended
    <3>3. QED
      BY <3>1, <3>2
  <2>4. CASE SkipInto(c)
    BY <1>3, <2>4 DEF SkipInto, Ended
  <2>5. CASE SkipNothing(c)
    BY <1>3, <1>4, <2>5 DEF SkipNothing
  <2>6. QED
    BY <1>2, <2>1, <2>2, <2>3, <2>4, <2>5
<1>6. QED
  BY <1>1, <1>5 DEF TypeInv

LEMMA TypeThrow ==
    ASSUME TypeInv, Throw
    PROVE  TypeInv'
BY DEF TypeInv, Throw, Ended

LEMMA TypeNext ==
    ASSUME TypeInv, [Next]_vars
    PROVE  TypeInv'
<1>1. CASE EndOfDictionary
  <2>1. at \in Dictionaries /\ pos \in Int /\ pos + 1 \in Int
    BY <1>1 DEF TypeInv, EndOfDictionary, InLoop
  <2>2. /\ pos' \in Int /\ info_end' \in Int
        /\ at' \in Dictionaries \cup Ended
    BY <1>1, <2>1 DEF TypeInv, EndOfDictionary, Dictionaries, Ended
  <2>3. QED
    BY <1>1, <2>2 DEF TypeInv, EndOfDictionary
<1>2. CASE BadKey
  BY <1>2, TypeThrow DEF BadKey
<1>3. CASE Skip
  BY <1>3, TypeSkip
<1>4. ASSUME NEW k, NEW p, Entry(k, p)
      PROVE  p \in Int /\ at \in Dictionaries
  <2>1. data \in Seq(Byte) /\ pos \in Int /\ IsString(pos) /\ p = read_string(pos).next
    BY <1>4 DEF TypeInv, Entry
  <2>2. p \in Int
    BY <2>1, ReadStringTyped
  <2>3. QED
    BY <1>4, <2>2 DEF Entry, InLoop
<1>5. ASSUME NEW f, NEW k, NEW p, IntegerEntry(f, k, p)
      PROVE  TypeInv'
  <2>1. p \in Int /\ data \in Seq(Byte) /\ f \in Counts /\ f \in Fields
    BY <1>4, <1>5 DEF IntegerEntry, TypeInv, Fields
  <2>2. CASE IsInteger(p)
    <3> DEFINE n == read_integer(p).value
               v == Kept(f, n)
    <3>1. FitsIn(n, MaxLong) /\ read_integer(p).next \in Int
      BY <2>1, <2>2, ReadIntegerTyped
    <3>2. f # "pieces" /\ f # "peers"
      BY <2>1 DEF Counts
    <3>3. result' = [result EXCEPT ![f] = v]
      BY <1>5, <2>2 DEF IntegerEntry
    <3> HIDE DEF n
    <3>4. FitsIn(v, Holds(f))
      BY <3>1, KeptFits
    <3> HIDE DEF v
    <3>5. Typed(result')
      BY <2>1, <3>2, <3>3, <3>4, TypedField DEF TypeInv
    <3>6. QED
      BY <1>5, <2>2, <3>1, <3>5 DEF IntegerEntry, TypeInv
  <2>3. CASE ~ IsInteger(p)
    BY <1>5, <2>3, TypeThrow DEF IntegerEntry
  <2>4. QED
    BY <2>2, <2>3
<1>6. ASSUME NEW f, NEW k, NEW p, StringEntry(f, k, p)
      PROVE  TypeInv'
  <2>1. p \in Int /\ data \in Seq(Byte) /\ f \in Texts \cup Rows /\ f \in Fields
    BY <1>4, <1>6 DEF StringEntry, TypeInv, Fields
  <2>2. CASE IsString(p)
    <3>1. read_string(p).value \in Seq(Byte) /\ read_string(p).next \in Int
      BY <2>1, <2>2, ReadStringTyped
    <3>2. f \notin Counts
      BY <2>1 DEF Counts, Texts, Rows
    <3> DEFINE Cat(x, y) == x \o y
               w == ValueOf(f, read_string(p).value)
               v == IF f \in Rows THEN Cat(result[f], w) ELSE w
    <3>3. (f = "pieces" => w \in Seq(Hash)) /\ (f = "peers" => w \in Seq(PeerRecord))
      BY <3>1, ValueTyped
    <3>4. result' = [result EXCEPT ![f] = v]
      <4>1. DOMAIN result = Fields
        BY DEF TypeInv, Typed
      <4>2. result' = [result EXCEPT ![f] = IF f \in Rows THEN @ \o w ELSE w]
        BY <1>6, <2>2 DEF StringEntry
      <4> HIDE DEF w
      <4>3. QED
        BY <2>1, <4>1, <4>2
    <3>5. result["pieces"] \in Seq(Hash) /\ result["peers"] \in Seq(PeerRecord)
      BY DEF TypeInv, Typed
    <3> HIDE DEF w
    <3>6. ASSUME NEW T, NEW x \in Seq(T), NEW y \in Seq(T)
          PROVE  Cat(x, y) \in Seq(T)
      OBVIOUS
    <3> HIDE DEF Cat
    <3>7. f = "pieces" => v \in Seq(Hash)
      BY <3>3, <3>5, <3>6
    <3>8. f = "peers" => v \in Seq(PeerRecord)
      BY <3>3, <3>5, <3>6
    <3> HIDE DEF v
    <3>9. Typed(result')
      BY <2>1, <3>2, <3>4, <3>7, <3>8, TypedField DEF TypeInv
    <3>10. QED
      BY <1>6, <2>2, <3>1, <3>9 DEF StringEntry, TypeInv
  <2>3. CASE ~ IsString(p)
    BY <1>6, <2>3, TypeThrow DEF StringEntry
  <2>4. QED
    BY <2>2, <2>3
<1>7. ASSUME NEW k, NEW p, InfoEntry(k, p)
      PROVE  TypeInv'
  <2>1. p \in Int
    BY <1>4, <1>7 DEF InfoEntry
  <2>2. QED
    BY <1>7, <2>1 DEF InfoEntry, TypeInv, Dictionaries
<1>8. ASSUME NEW k, NEW p, OtherEntry(k, p)
      PROVE  TypeInv'
  <2>1. p \in Int
    BY <1>4, <1>8 DEF OtherEntry
  <2>2. 1 \in 0 .. MaxNest
    BY BencodeAssumption
  <2>3. QED
    BY <1>8, <2>1, <2>2 DEF OtherEntry, TypeInv
<1>9. CASE UNCHANGED vars
  BY <1>9 DEF vars, TypeInv
<1>10. QED
  BY <1>1, <1>2, <1>3, <1>5, <1>6, <1>7, <1>8, <1>9 DEF Next

(* Whatever is parsed, and wherever it is cut: every number kept fits its  *)
(* field, every hash kept has 20 bytes and every port fits in two.  Where  *)
(* the parser is can be any integer: signs move it back.                   *)
THEOREM ParserTypeCorrect == Spec => []TypeOK
<1>1. TypeInv => TypeOK
  <2> SUFFICES ASSUME TypeInv
               PROVE  TypeOK
    OBVIOUS
  <2>1. \A f \in Counts : FitsIn(result[f], IF f \in Ints THEN MaxInt ELSE MaxLong)
    BY DEF TypeInv, Typed, Holds
  <2>2. result["pieces"] \in Seq(Hash) /\ result["peers"] \in Seq(PeerRecord)
    BY DEF TypeInv, Typed
  <2>3. \A k \in DOMAIN result["pieces"] : Len(result["pieces"][k]) = HashLength
    BY <2>2, ElementOfSeq DEF Hash
  <2>4. \A k \in DOMAIN result["peers"] : result["peers"][k].port \div 256 \in Byte
    BY <2>2, ElementOfSeq DEF PeerRecord
  <2>5. QED
    BY <2>1, <2>3, <2>4 DEF TypeInv, TypeOK
<1>2. QED
  BY <1>1, TypeInit, TypeNext, PTL DEF Spec

-----------------------------------------------------------------------------
(* What a well-formed document is.  A script lists its tokens after the    *)
(* outer d, where each ends, how deep in lists and dictionaries the parser *)
(* then is, and the turns of the parser's loops: the tokens that it starts *)
(* a loop's turn or a call of skip_value at, and its state there.  Lengths *)
(* and numbers are written as Digits does, without sign; a number fits the *)
(* field it is for, and neither hashes nor peers come twice.               *)

TokenBytes(t) ==
    CASE t.is = "string" -> Str(t.of)
      [] t.is = "integer" -> Num(t.of)
      [] t.is = "open" -> <<t.of>>
      [] t.is = "close" -> <<E>>

IsToken(t) ==
    \/ t.is = "string" /\ t.of \in Seq(Byte) /\ Len(t.of) <= MaxInt
    \/ t.is = "integer" /\ t.of \in Nat
    \/ t.is = "open" /\ t.of \in {L, D}
    \/ t.is = "close"

Lies(d, p, s) == p + Len(s) <= Len(d) /\ \A i \in 1 .. Len(s) : d[p + i] = s[i]

Laid(d, s) ==
    /\ s.last \in Nat
    /\ d[1] = D /\ s.end[0] = 1 /\ s.end[s.last] = Len(d)
    /\ \A k \in 0 .. s.last : s.end[k] \in Nat /\ (k < s.last => s.end[k] < Len(d))
    /\ \A k \in 0 .. s.last - 1 :
          /\ IsToken(s.token[k + 1])
          /\ Lies(d, s.end[k], TokenBytes(s.token[k + 1]))
          /\ s.end[k + 1] = s.end[k] + Len(TokenBytes(s.token[k + 1]))

Nested(s) ==
    /\ s.depth[0] = 1
    /\ \A k \in 0 .. s.last - 1 :
          /\ s.depth[k] \in Nat \ {0}
          /\ s.depth[k + 1] = CASE s.token[k + 1].is = "open" -> s.depth[k] + 1
                                [] s.token[k + 1].is = "close" -> s.depth[k] - 1
                                [] OTHER -> s.depth[k]

(* How deep a call of skip_value is after it has passed a token.           *)
After(t, n) ==
    CASE t.is = "open" -> n + 1
      [] t.is = "close" -> IF n = 2 THEN 0 ELSE n - 1
      [] OTHER -> IF n = 1 THEN 0 ELSE n

Turn(s, k, a, n, fields, from, to) ==
    /\ k \in DOMAIN s.turn
    /\ s.turn[k].at = a /\ s.turn[k].nest = n /\ s.turn[k].fields = fields
    /\ s.turn[k].from = from /\ s.turn[k].to = to

IsKey(t, f) == t.is = "string" /\ t.of = Key[f]

CountTurn(d, s, k, c) ==
    \E f \in Known[c.at] \cap Counts :
        /\ c.nest = 0 /\ IsKey(s.token[k + 1], f)
        /\ s.token[k + 2].is = "integer" /\ s.token[k + 2].of = d.expected[f]
        /\ d.expected[f] <= Holds(f)
        /\ Turn(s, k + 2, c.at, 0, c.fields \cup {f}, c.from, c.to)

TextTurn(d, s, k, c) ==
    \E f \in Known[c.at] \cap (Texts \cup Rows) :
        /\ c.nest = 0 /\ IsKey(s.token[k + 1], f)
        /\ f \in Rows => f \notin c.fields
        /\ s.token[k + 2].is = "string" /\ ValueOf(f, s.token[k + 2].of) = d.expected[f]
        /\ Turn(s, k + 2, c.at, 0, c.fields \cup {f}, c.from, c.to)

InfoTurn(s, k, c) ==
    /\ c.nest = 0 /\ c.at = "outer" /\ IsKey(s.token[k + 1], "info")
    /\ s.token[k + 2].is = "open"
    /\ Turn(s, k + 2, "info", 0, c.fields, s.end[k + 1], c.to)

OtherTurn(s, k, c) ==
    /\ c.nest = 0
    /\ s.token[k + 1].is = "string" /\ \A f \in Known[c.at] : s.token[k + 1].of # Key[f]
    /\ Turn(s, k + 1, c.at, 1, c.fields, c.from, c.to)

InfoEnd(s, k, c) ==
    /\ c.nest = 0 /\ c.at = "info" /\ s.token[k + 1].is = "close"
    /\ Turn(s, k + 1, "outer", 0, c.fields, c.from, s.end[k])

LastTurn(d, s, k, c) ==
    /\ c.nest = 0 /\ c.at \in {"outer", "response"} /\ s.token[k + 1].is = "close"
    /\ k + 1 = s.last
    /\ \A f \in Fields \ c.fields : d.expected[f] = Nothing[f]
    /\ d.kind = "outer" => SubSeq(d.data, c.from + 1, c.to + 1) = d.info

SkipTurn(s, k, c) ==
    /\ c.nest > 0
    /\ s.token[k + 1].is = "open" => c.nest < MaxNest
    /\ s.token[k + 1].is = "close" => c.nest > 1
    /\ Turn(s, k + 1, c.at, After(s.token[k + 1], c.nest), c.fields, c.from, c.to)

Turns(d, s) ==
    /\ DOMAIN s.turn \subseteq 0 .. s.last - 1
    /\ Turn(s, 0, d.kind, 0, {}, 0, 0)
    /\ \A k \in DOMAIN s.turn : s.turn[k].at \in Dictionaries
    /\ \A k \in DOMAIN s.turn :
          \/ CountTurn(d, s, k, s.turn[k]) \/ TextTurn(d, s, k, s.turn[k])
          \/ InfoTurn(s, k, s.turn[k]) \/ OtherTurn(s, k, s.turn[k])
          \/ InfoEnd(s, k, s.turn[k]) \/ LastTurn(d, s, k, s.turn[k])
          \/ SkipTurn(s, k, s.turn[k])

Expects(d) ==
    /\ d.expected = [f \in Fields |-> d.expected[f]]
    /\ \A f \in Counts : d.expected[f] \in Nat
    /\ \A f \in Texts : d.expected[f] \in Seq(Byte)
    /\ d.expected["pieces"] \in Seq(Seq(Byte))
    /\ d.expected["peers"] \in Seq([ip : Seq(Byte), port : Nat])

IsScript(d, s) == Laid(d.data, s) /\ Nested(s) /\ Turns(d, s)

WellFormed(d) == Expects(d) /\ \E s : IsScript(d, s)

-----------------------------------------------------------------------------
(* Reading a token that lies in a document of which data is a part.        *)

PartOf(d) == d \in Seq(Byte) /\ Size <= Len(d) /\ data = SubSeq(d, 1, Size)

LEMMA PartThere ==
    ASSUME NEW d, PartOf(d), data \in Seq(Byte)
    PROVE  /\ Size \in Nat /\ Len(d) \in Nat
           /\ \A i \in 1 .. Size : data[i] = d[i]
           /\ Size = Len(d) => data = d
<1>1. d \in Seq(Byte) /\ Size \in Nat /\ Len(d) \in Nat /\ Size <= Len(d)
  BY DEF PartOf, Size
<1>2. data = SubSeq(d, 1, Size)
  BY DEF PartOf
<1> DEFINE n == Size
<1>3. /\ \A i \in 1 .. n : SubSeq(d, 1, n)[i] = d[i]
      /\ n = Len(d) => SubSeq(d, 1, n) = d
  <2> HIDE DEF n
  <2>1. n \in Nat /\ n <= Len(d)
    BY <1>1 DEF n
  <2>2. \A i \in 1 .. n : SubSeq(d, 1, n)[i] = d[i]
    BY <1>1, <2>1
  <2>3. SubSeq(d, 1, Len(d)) = d
    BY <1>1, SubSeqFull
  <2>4. QED
    BY <2>2, <2>3
<1>4. QED
  BY <1>1, <1>2, <1>3

LEMMA DigitBytes ==
    \A b \in Digit : b \in Byte /\ b # Colon /\ b # D /\ b # E /\ b # I /\ b # L
BY DEF Digit, Byte, Colon, D, E, I, L

LEMMA StrThere ==
    ASSUME NEW s \in Seq(Byte)
    PROVE  \E l \in Nat \ {0} :
              /\ l = Len(Digits[Len(s)]) /\ Str(s) \in Seq(Byte)
              /\ Len(Str(s)) = l + 1 + Len(s) /\ Len(s) \in Nat
              /\ \A i \in 1 .. l : Str(s)[i] = Digits[Len(s)][i] /\ Str(s)[i] \in Digit
              /\ Str(s)[l + 1] = Colon
              /\ \A i \in 1 .. Len(s) : Str(s)[l + 1 + i] = s[i]
<1> DEFINE g == Digits[Len(s)]
<1>1. Len(s) \in Nat
  OBVIOUS
<1>2. g \in Seq(Digit) /\ Len(g) \in Nat \ {0}
  BY <1>1, DigitsSay
<1>3. Str(s) = g \o <<Colon>> \o s
  BY DEF Str
<1> HIDE DEF g
<1>4. g \in Seq(Byte)
  <2>1. \A i \in 1 .. Len(g) : g[i] \in Byte
    BY <1>2, DigitBytes
  <2>2. QED
    BY <1>2, <2>1
<1>5. Colon \in Byte
  BY DEF Colon, Byte
<1>6. g \o <<Colon>> \o s \in Seq(Byte)
  BY <1>4, <1>5
<1>7. Len(g \o <<Colon>> \o s) = Len(g) + 1 + Len(s)
  BY <1>4, <1>5
<1>8. \A i \in 1 .. Len(g) : (g \o <<Colon>> \o s)[i] = g[i] /\ g[i] \in Digit
  BY <1>2, <1>4, <1>5
<1>9. (g \o <<Colon>> \o s)[Len(g) + 1] = Colon
  BY <1>2, <1>4, <1>5
<1>10. \A i \in 1 .. Len(s) : (g \o <<Colon>> \o s)[Len(g) + 1 + i] = s[i]
  BY <1>1, <1>2, <1>4, <1>5
<1>11. QED
  BY <1>1, <1>2, <1>3, <1>6, <1>7, <1>8, <1>9, <1>10 DEF g

LEMMA NumThere ==
    ASSUME NEW n \in Nat
    PROVE  \E l \in Nat \ {0} :
              /\ l = Len(Digits[n]) /\ Num(n) \in Seq(Byte)
              /\ Len(Num(n)) = l + 2
              /\ Num(n)[1] = I
              /\ \A i \in 1 .. l : Num(n)[i + 1] = Digits[n][i] /\ Num(n)[i + 1] \in Digit
              /\ Num(n)[l + 2] = E
<1> DEFINE g == Digits[n]
<1>1. g \in Seq(Digit) /\ Len(g) \in Nat \ {0}
  BY DigitsSay
<1>2. Num(n) = <<I>> \o g \o <<E>>
  BY DEF Num
<1> HIDE DEF g
<1>3. g \in Seq(Byte)
  <2>1. \A i \in 1 .. Len(g) : g[i] \in Byte
    BY <1>1, DigitBytes
  <2>2. QED
    BY <1>1, <2>1
<1>4. I \in Byte /\ E \in Byte
  BY DEF I, E, Byte
<1>5. <<I>> \o g \o <<E>> \in Seq(Byte) /\ Len(<<I>> \o g \o <<E>>) = Len(g) + 2
  BY <1>3, <1>4
<1>6. (<<I>> \o g \o <<E>>)[1] = I
  BY <1>3, <1>4
<1>7. \A i \in 1 .. Len(g) : (<<I>> \o g \o <<E>>)[i + 1] = g[i] /\ g[i] \in Digit
  BY <1>1, <1>3, <1>4
<1>8. (<<I>> \o g \o <<E>>)[Len(g) + 2] = E
  BY <1>3, <1>4
<1>9. QED
  BY <1>1, <1>2, <1>5, <1>6, <1>7, <1>8 DEF g

Begins(v, w) == Len(v) <= Len(w) /\ \A i \in 1 .. Len(v) : v[i] = w[i]

(* read_string where the string x lies from p to q: its value, if it is    *)
(* all there; a part of it, if it is cut within its bytes; an exception,   *)
(* if within its length.                                                   *)
ReadsString(p, q, x) ==
    /\ p < Size => data[p + 1] \in Digit
    /\ q <= Size => IsString(p) /\ read_string(p).value = x
    /\ IsString(p) => /\ read_string(p).next = q
                      /\ read_string(p).value \in Seq(Byte)
                      /\ Begins(read_string(p).value, x)

(* read_integer, and skip_value, where the integer n lies from p to q.     *)
ReadsInteger(p, q, n) ==
    /\ p < Size => data[p + 1] = I
    /\ q <= Size => /\ Found(E, p + 1) /\ Find(E, p + 1) + 1 = q
                    /\ n <= MaxLong => IsInteger(p)
                    /\ read_integer(p).value = n /\ read_integer(p).next = q
    /\ ~ (q <= Size) => ~ Found(E, p + 1)

LEMMA StringRead ==
    ASSUME NEW d, PartOf(d), data \in Seq(Byte),
           NEW p \in Nat, NEW s \in Seq(Byte), Len(s) <= MaxInt, Lies(d, p, Str(s)),
           NEW q, q = p + Len(Str(s))
    PROVE  q \in Nat /\ p < q /\ ReadsString(p, q, s)
<1>1. PICK l \in Nat \ {0} :
              /\ l = Len(Digits[Len(s)]) /\ Str(s) \in Seq(Byte)
              /\ Len(Str(s)) = l + 1 + Len(s) /\ Len(s) \in Nat
              /\ \A i \in 1 .. l : Str(s)[i] = Digits[Len(s)][i] /\ Str(s)[i] \in Digit
              /\ Str(s)[l + 1] = Colon
              /\ \A i \in 1 .. Len(s) : Str(s)[l + 1 + i] = s[i]
  BY StrThere
<1>2. /\ Size \in Nat /\ Len(d) \in Nat
      /\ \A i \in 1 .. Size : data[i] = d[i]
  BY PartThere
<1>3. q = p + l + 1 + Len(s) /\ q <= Len(d) /\ q \in Nat /\ p < q
  BY <1>1 DEF Lies
<1>4. /\ \A i \in 1 .. l : d[p + i] = Digits[Len(s)][i] /\ d[p + i] \in Digit
      /\ d[p + l + 1] = Colon
      /\ \A i \in 1 .. Len(s) : d[p + l + 1 + i] = s[i]
  <2>1. \A i \in 1 .. l + 1 + Len(s) : d[p + i] = Str(s)[i]
    BY <1>1 DEF Lies
  <2>2. \A i \in 1 .. l : i \in 1 .. l + 1 + Len(s)
    BY <1>1
  <2>3. l + 1 \in 1 .. l + 1 + Len(s) /\ p + (l + 1) = p + l + 1
    BY <1>1
  <2>4. \A i \in 1 .. Len(s) : l + 1 + i \in 1 .. l + 1 + Len(s) /\ p + (l + 1 + i) = p + l + 1 + i
    BY <1>1
  <2>5. \A i \in 1 .. Len(s) : d[p + l + 1 + i] = s[i]
    BY <1>1, <2>1, <2>4
  <2>6. d[p + l + 1] = Colon
    BY <1>1, <2>1, <2>3
  <2>7. QED
    BY <1>1, <2>1, <2>2, <2>5, <2>6
<1>5. p < Size => data[p + 1] \in Digit
  <2>1. 1 \in 1 .. l
    OBVIOUS
  <2>2. d[p + 1] \in Digit
    BY <1>4, <2>1
  <2>3. p < Size => p + 1 \in 1 .. Size
    BY <1>2
  <2>4. QED
    BY <1>2, <2>2, <2>3
<1>6. CASE p + l < Size
  <2> DEFINE c == p + l
             b == Bytes(p, c)
             n == Number(b)
             e == Min({q, Size})
             v == Bytes(c + 1, e)
  <2>1. c \in p .. Size - 1 /\ data[c + 1] = Colon
    BY <1>2, <1>4, <1>6
  <2>2. \A r \in p .. c - 1 : data[r + 1] # Colon
    <3> SUFFICES ASSUME NEW r \in p .. c - 1
                 PROVE  data[r + 1] # Colon
      OBVIOUS
    <3>1. r + 1 \in 1 .. Size /\ r - p + 1 \in 1 .. l /\ p + (r - p + 1) = r + 1
      BY <1>2, <1>6
    <3>2. d[r + 1] \in Digit
      BY <1>4, <3>1
    <3>3. QED
      BY <1>2, <3>1, <3>2, DigitBytes
  <2>3. Found(Colon, p) /\ Find(Colon, p) = c
    BY <2>1, <2>2, FindThere
  <2>4. c \in Nat /\ c <= Size /\ p <= c /\ c - p = l
    BY <1>2, <1>6
  <2>5. /\ b \in Seq(Byte) /\ Len(b) = l
        /\ \A i \in 1 .. l : b[i] = data[p + i]
    <3> HIDE DEF c
    <3>1. QED
      BY <2>4, BytesThere
  <2> HIDE DEF b
  <2>6. \A i \in 1 .. l : b[i] = Digits[Len(s)][i] /\ b[i] \in Digit
    <3> SUFFICES ASSUME NEW i \in 1 .. l
                 PROVE  b[i] = d[p + i]
      BY <1>4
    <3>1. p + i \in 1 .. Size
      BY <1>2, <1>6
    <3>2. QED
      BY <1>2, <2>5, <3>1
  <2>7. n = Len(s) /\ Numeric(b)
    <3>1. l \in 1 .. Len(b) /\ ~ (l < Len(b)) /\ Len(b) \in Nat
      BY <2>5
    <3>2. n = Decimal(b, l) /\ Numeric(b)
      BY <2>6, <3>1, NumberIs
    <3>3. Decimal(b, l) = Decimal(Digits[Len(s)], l)
      BY <2>6, DecimalLocal
    <3>4. QED
      BY <1>1, <3>2, <3>3, DigitsSay
  <2>8. FitsIn(n, MaxInt)
    BY <1>1, <2>7, BencodeAssumption DEF FitsIn
  <2>9. IsString(p)
    BY <2>3, <2>7, <2>8 DEF IsString, b
  <2>10. read_string(p) = [value |-> v, next |-> q]
    <3>1. c + 1 + n = q /\ ~ (n < 0)
      BY <1>1, <1>3, <2>7
    <3>2. QED
      BY <2>3, <3>1 DEF read_string, b
  <2>11. e = (IF q <= Size THEN q ELSE Size) /\ e \in Nat /\ e <= Size /\ c + 1 <= e
    <3>1. e = IF q <= Size THEN q ELSE Size
      BY <1>2, <1>3, MinThere
    <3>2. q \in Nat /\ Size \in Nat /\ c \in Nat /\ c + 1 <= Size
      BY <1>2, <1>3, <1>6
    <3>3. c + 1 <= q
      BY <1>1, <1>3
    <3> HIDE DEF e, c
    <3>4. QED
      BY <3>1, <3>2, <3>3
  <2> HIDE DEF e, c
  <2>12. /\ v \in Seq(Byte) /\ Len(v) = e - (c + 1)
         /\ \A i \in 1 .. Len(v) : v[i] = data[c + 1 + i]
    <3>1. c + 1 \in Nat
      BY <2>4
    <3>2. QED
      BY <2>11, <3>1, BytesThere
  <2> HIDE DEF v
  <2>13. Len(v) <= Len(s) /\ (q <= Size => Len(v) = Len(s))
    <3>1. Len(s) \in Nat /\ Size \in Nat /\ c + 1 = p + l + 1
      BY <1>2 DEF c
    <3>2. e - (c + 1) <= Len(s) /\ (q <= Size => e - (c + 1) = Len(s))
      BY <1>3, <2>11, <3>1
    <3>3. QED
      BY <2>12, <3>2
  <2>14. \A i \in 1 .. Len(v) : v[i] = s[i]
    <3> SUFFICES ASSUME NEW i \in 1 .. Len(v)
                 PROVE  v[i] = s[i]
      OBVIOUS
    <3>0. Len(v) \in Nat /\ Len(s) \in Nat /\ Size \in Nat /\ Len(v) = e - (c + 1)
      BY <1>2, <2>12
    <3>1. i \in 1 .. Len(s) /\ c + 1 + i \in 1 .. Size /\ c + 1 + i = p + l + 1 + i
      BY <2>4, <2>11, <2>13, <3>0 DEF c
    <3>2. v[i] = d[c + 1 + i]
      BY <1>2, <2>12, <3>1
    <3>3. QED
      BY <1>4, <3>1, <3>2
  <2>15. q <= Size => v = s
    BY <2>12, <2>13, <2>14, SeqEqual
  <2>16. Begins(v, s)
    BY <2>13, <2>14 DEF Begins
  <2>17. read_string(p).value = v /\ read_string(p).next = q /\ v \in Seq(Byte)
    BY <2>10, <2>12
  <2>18. ReadsString(p, q, s)
    BY <1>5, <2>9, <2>15, <2>16, <2>17 DEF ReadsString
  <2>19. QED
    BY <1>3, <2>18
<1>7. CASE ~ (p + l < Size)
  <2>1. ~ Found(Colon, p)
    <3> SUFFICES ASSUME NEW r \in p .. Size - 1
                 PROVE  data[r + 1] # Colon
      BY DEF Found
    <3>1. r + 1 \in 1 .. Size /\ r - p + 1 \in 1 .. l /\ p + (r - p + 1) = r + 1
      BY <1>2, <1>7
    <3>2. d[r + 1] \in Digit
      BY <1>4, <3>1
    <3>3. QED
      BY <1>2, <3>1, <3>2, DigitBytes
  <2>2. ~ IsString(p)
    BY <2>1 DEF IsString
  <2>3. ~ (q <= Size)
    BY <1>1, <1>2, <1>3, <1>7
  <2>4. QED
    BY <1>3, <1>5, <2>2, <2>3 DEF ReadsString
<1>8. QED
  BY <1>6, <1>7

LEMMA IntegerRead ==
    ASSUME NEW d, PartOf(d), data \in Seq(Byte),
           NEW p \in Nat, NEW n \in Nat, Lies(d, p, Num(n)),
           NEW q, q = p + Len(Num(n))
    PROVE  q \in Nat /\ p < q /\ ReadsInteger(p, q, n)
<1>1. PICK l \in Nat \ {0} :
              /\ l = Len(Digits[n]) /\ Num(n) \in Seq(Byte)
              /\ Len(Num(n)) = l + 2
              /\ Num(n)[1] = I
              /\ \A i \in 1 .. l : Num(n)[i + 1] = Digits[n][i] /\ Num(n)[i + 1] \in Digit
              /\ Num(n)[l + 2] = E
  BY NumThere
<1>2. /\ Size \in Nat /\ Len(d) \in Nat
      /\ \A i \in 1 .. Size : data[i] = d[i]
  BY PartThere
<1>3. q = p + l + 2 /\ q <= Len(d) /\ q \in Nat /\ p < q
  BY <1>1 DEF Lies
<1>4. /\ d[p + 1] = I
      /\ \A i \in 1 .. l : d[p + 1 + i] = Digits[n][i] /\ d[p + 1 + i] \in Digit
      /\ d[p + 2 + l] = E
  <2>1. \A i \in 1 .. l + 2 : d[p + i] = Num(n)[i]
    BY <1>1 DEF Lies
  <2>2. 1 \in 1 .. l + 2 /\ l + 2 \in 1 .. l + 2 /\ p + (l + 2) = p + 2 + l
    OBVIOUS
  <2>3. \A i \in 1 .. l : i + 1 \in 1 .. l + 2 /\ p + (i + 1) = p + 1 + i
    OBVIOUS
  <2>4. ASSUME NEW i \in 1 .. l
        PROVE  d[p + 1 + i] = Digits[n][i] /\ d[p + 1 + i] \in Digit
    <3>1. d[p + 1 + i] = Num(n)[i + 1]
      BY <2>1, <2>3
    <3>2. QED
      BY <1>1, <3>1
  <2>5. QED
    BY <1>1, <2>1, <2>2, <2>4
<1>5. p < Size => data[p + 1] = I
  BY <1>2, <1>4
<1>6. ASSUME NEW r \in p + 1 .. Size - 1, r < p + 1 + l
      PROVE  data[r + 1] # E
  <2>1. r + 1 \in 1 .. Size /\ r - p \in 1 .. l /\ p + 1 + (r - p) = r + 1
    BY <1>2, <1>6
  <2>2. d[r + 1] \in Digit
    BY <1>4, <2>1
  <2>3. QED
    BY <1>2, <2>1, <2>2, DigitBytes
<1>7. CASE q <= Size
  <2> DEFINE c == p + 1 + l
             b == Bytes(p + 1, c)
  <2>1. c \in p + 1 .. Size - 1 /\ data[c + 1] = E /\ p + 1 \in Nat /\ c \in Nat /\ c <= Size
    <3>1. Size \in Nat /\ c + 1 = p + 2 + l /\ c + 1 <= Size
      BY <1>2, <1>3, <1>7
    <3>2. c + 1 \in 1 .. Size /\ c \in p + 1 .. Size - 1 /\ p + 1 \in Nat /\ c \in Nat /\ c <= Size
      BY <3>1
    <3>3. data[c + 1] = E
      BY <1>2, <1>4, <3>1, <3>2
    <3>4. QED
      BY <3>2, <3>3
  <2> HIDE DEF c
  <2>2. \A r \in p + 1 .. c - 1 : data[r + 1] # E
    <3> SUFFICES ASSUME NEW r \in p + 1 .. c - 1
                 PROVE  data[r + 1] # E
      OBVIOUS
    <3>1. Size \in Nat
      BY <1>2
    <3>2. r \in p + 1 .. Size - 1 /\ r < p + 1 + l
      BY <2>1, <3>1 DEF c
    <3>3. QED
      BY <1>6, <3>2
  <2>3. Found(E, p + 1) /\ Find(E, p + 1) = c
    BY <2>1, <2>2, FindThere
  <2>4. b \in Seq(Byte) /\ Len(b) = l /\ \A i \in 1 .. l : b[i] = data[p + 1 + i]
    <3>1. p + 1 <= c /\ c - (p + 1) = l
      BY DEF c
    <3>2. QED
      BY <2>1, <3>1, BytesThere
  <2> HIDE DEF b
  <2>5. \A i \in 1 .. l : b[i] = Digits[n][i] /\ b[i] \in Digit
    <3> SUFFICES ASSUME NEW i \in 1 .. l
                 PROVE  b[i] = d[p + 1 + i]
      BY <1>4
    <3>1. p + 1 + i \in 1 .. Size
      <4>1. Size \in Nat
        BY <1>2
      <4>2. p + 1 + l <= Size
        BY <2>1 DEF c
      <4>3. QED
        BY <4>1, <4>2
    <3>2. QED
      BY <1>2, <2>4, <3>1
  <2>6. Number(b) = n /\ Numeric(b)
    <3>1. l \in 1 .. Len(b) /\ ~ (l < Len(b)) /\ Len(b) \in Nat
      BY <2>4
    <3>2. Number(b) = Decimal(b, l) /\ Numeric(b)
      BY <2>5, <3>1, NumberIs
    <3>3. Decimal(b, l) = Decimal(Digits[n], l)
      BY <2>5, DecimalLocal
    <3>4. QED
      BY <1>1, <3>2, <3>3, DigitsSay
  <2>7. n <= MaxLong => FitsIn(n, MaxLong)
    BY BencodeAssumption DEF FitsIn
  <2>8. n <= MaxLong => IsInteger(p)
    BY <2>3, <2>6, <2>7 DEF IsInteger, b
  <2>9. c + 1 = q
    BY <1>3 DEF c
  <2>10. read_integer(p) = [value |-> n, next |-> q]
    BY <2>3, <2>6, <2>9 DEF read_integer, EndOfInteger, b
  <2>11. read_integer(p).value = n /\ read_integer(p).next = q
    BY <2>10
  <2>12. ReadsInteger(p, q, n)
    BY <1>5, <1>7, <2>3, <2>8, <2>9, <2>11 DEF ReadsInteger
  <2>13. QED
    BY <1>3, <2>12
<1>8. CASE ~ (q <= Size)
  <2>1. \A r \in p + 1 .. Size - 1 : data[r + 1] # E
    <3> SUFFICES ASSUME NEW r \in p + 1 .. Size - 1
                 PROVE  data[r + 1] # E
      OBVIOUS
    <3>1. r < p + 1 + l
      BY <1>2, <1>3, <1>8
    <3>2. QED
      BY <1>6, <3>1
  <2>2. ~ Found(E, p + 1)
    BY <2>1 DEF Found
  <2>3. QED
    BY <1>3, <1>5, <1>8, <2>2 DEF ReadsInteger
<1>9. QED
  BY <1>7, <1>8

-----------------------------------------------------------------------------
(* What a part of a value gives is a part of what the value gives.         *)

LEMMA BeginsPrefix ==
    ASSUME NEW T, NEW v \in Seq(T), NEW w \in Seq(T), Begins(v, w)
    PROVE  IsPrefix(v, w)
<1> DEFINE n == Len(v)
<1>1. n \in Nat /\ Len(w) \in Nat /\ n <= Len(w) /\ \A i \in 1 .. n : v[i] = w[i]
  BY DEF Begins
<1>2. SubSeq(v, 1, n) = v
  BY SubSeqFull
<1> HIDE DEF n
<1>3. SubSeq(w, 1, n) \in Seq(T) /\ Len(SubSeq(w, 1, n)) = n
  BY <1>1
<1>4. \A i \in 1 .. n : SubSeq(w, 1, n)[i] = w[i]
  BY <1>1
<1>5. SubSeq(w, 1, n) = v
  BY <1>1, <1>3, <1>4, SeqEqual DEF n
<1>6. QED
  BY <1>1, <1>2, <1>5 DEF IsPrefix, n

LEMMA PartsBegin ==
    ASSUME NEW v \in Seq(Byte), NEW raw \in Seq(Byte), Begins(v, raw), NEW n \in Nat \ {0}
    PROVE  Begins(PartsOf(v, n), PartsOf(raw, n))
<1> DEFINE q == Len(v) \div n
           r == Len(raw) \div n
<1>1. Len(v) \in Nat /\ Len(raw) \in Nat /\ Len(v) <= Len(raw)
  BY DEF Begins
<1>2. q <= r /\ q \in Nat /\ r \in Nat
  BY <1>1
<1> HIDE DEF q, r
<1>3. /\ Len(PartsOf(v, n)) = q /\ DOMAIN PartsOf(v, n) = 1 .. q
      /\ Len(PartsOf(raw, n)) = r /\ DOMAIN PartsOf(raw, n) = 1 .. r
  BY PartsSeq, PartsThere DEF q, r
<1>4. ASSUME NEW k \in 1 .. q
      PROVE  PartsOf(v, n)[k] = PartsOf(raw, n)[k]
  <2>1. k \in DOMAIN PartsOf(v, n) /\ k \in DOMAIN PartsOf(raw, n)
    BY <1>2, <1>3
  <2> DEFINE x == PartsOf(v, n)[k]
             y == PartsOf(raw, n)[k]
             a == (k - 1) * n
  <2>2. /\ x \in Seq(Byte) /\ Len(x) = n /\ a \in Nat /\ a + n <= Len(v)
        /\ \A i \in 1 .. n : x[i] = v[a + i]
    BY <2>1, PartsThere
  <2>3. y \in Seq(Byte) /\ Len(y) = n /\ \A i \in 1 .. n : y[i] = raw[a + i]
    BY <2>1, PartsThere
  <2> HIDE DEF x, y, a
  <2>4. \A i \in 1 .. n : x[i] = y[i]
    <3> SUFFICES ASSUME NEW i \in 1 .. n
                 PROVE  x[i] = y[i]
      OBVIOUS
    <3>1. a + i \in 1 .. Len(v)
      BY <1>1, <2>2
    <3>2. v[a + i] = raw[a + i]
      BY <3>1 DEF Begins
    <3>3. QED
      BY <2>2, <2>3, <3>2
  <2>5. x = y
    BY <2>2, <2>3, <2>4, SeqEqual
  <2>6. QED
    BY <2>5 DEF x, y
<1>5. QED
  BY <1>2, <1>3, <1>4 DEF Begins

LEMMA ValueBegins ==
    ASSUME NEW v \in Seq(Byte), NEW raw \in Seq(Byte), Begins(v, raw),
           NEW f \in Texts \cup Rows
    PROVE  IsPrefix(ValueOf(f, v), ValueOf(f, raw))
<1>1. CASE f \in Texts
  <2>1. f # "pieces" /\ f # "peers"
    BY <1>1 DEF Texts
  <2>2. ValueOf(f, v) = v /\ ValueOf(f, raw) = raw
    BY <2>1 DEF ValueOf
  <2>3. QED
    BY <2>2, BeginsPrefix
<1>2. CASE f = "pieces"
  <2>1. ValueOf(f, v) = PartsOf(v, HashLength) /\ ValueOf(f, raw) = PartsOf(raw, HashLength)
    BY <1>2 DEF ValueOf
  <2>2. HashLength \in Nat \ {0}
    BY BencodeAssumption
  <2>3. QED
    BY <2>1, <2>2, PartsBegin, PartsSeq, BeginsPrefix
<1>3. CASE f = "peers"
  <2>1. 6 \in Nat \ {0}
    OBVIOUS
  <2>2. Begins(PartsOf(v, 6), PartsOf(raw, 6))
    BY <2>1, PartsBegin
  <2>3. Begins(ValueOf("peers", v), ValueOf("peers", raw))
    <3>1. /\ Len(PartsOf(v, 6)) \in Nat /\ Len(PartsOf(raw, 6)) \in Nat
          /\ Len(PartsOf(v, 6)) <= Len(PartsOf(raw, 6))
      BY <2>1, <2>2, PartsSeq DEF Begins
    <3>2. \A k \in 1 .. Len(PartsOf(v, 6)) :
             ValueOf("peers", v)[k] = ValueOf("peers", raw)[k]
      BY <2>2, <3>1, PeersSeq DEF Begins
    <3>3. QED
      BY <3>1, <3>2, PeersSeq DEF Begins
  <2>4. QED
    BY <1>3, <2>3, PeersSeq, BeginsPrefix
<1>4. QED
  BY <1>1, <1>2, <1>3 DEF Rows

-----------------------------------------------------------------------------
(* The parser follows the script of its document; or it has read to the    *)
(* end of that document; or, which happens only if the document is cut, it *)
(* has strayed: it has ended, is past the data, has gone back to its start *)
(* with calls of skip_value still to return, or reads it again, too deep   *)
(* in them to get back to a loop.                                          *)

Cut == Size < Len(doc.data)

ReadOf(d, fields) == [f \in Fields |-> IF f \in fields THEN d.expected[f] ELSE Nothing[f]]

Honest(d, r) ==
    /\ r = [f \in Fields |-> r[f]]
    /\ \A f \in Counts : r[f] \in {0, d.expected[f]}
    /\ \A f \in Texts \cup Rows : IsPrefix(r[f], d.expected[f])

AtTurn(s, k) ==
    /\ pos = s.end[k] /\ pos < Size
    /\ \E fields : /\ Turn(s, k, at, nest, fields, info_start, info_end)
                   /\ result = ReadOf(doc, fields)

Read ==
    /\ at = "done" /\ data = doc.data
    /\ result = doc.expected
    /\ doc.kind = "outer" => InfoRaw = doc.info

Lost(s) ==
    \/ at \in Ended
    \/ pos >= Size
    \/ pos = 0 /\ nest # 1
    \/ \E k \in 0 .. s.last - 1 : pos = s.end[k] /\ nest >= 2 + s.depth[k]

Astray(s) == Cut /\ Honest(doc, result) /\ Lost(s)

Written(s) == IsScript(doc, s) /\ Expects(doc) /\ PartOf(doc.data)

Follows(s) == Written(s) /\ ((\E k : AtTurn(s, k)) \/ Read \/ Astray(s))

LEMMA PrefixSelf ==
    ASSUME NEW T, NEW w \in Seq(T)
    PROVE  IsPrefix(w, w) /\ IsPrefix(<<>>, w)
<1>1. Begins(w, w) /\ <<>> \in Seq(T) /\ Begins(<<>>, w)
  BY DEF Begins
<1>2. QED
  BY <1>1, BeginsPrefix

LEMMA ReadHonest ==
    ASSUME NEW d, Expects(d), NEW fields
    PROVE  Honest(d, ReadOf(d, fields))
<1> DEFINE r == ReadOf(d, fields)
<1>1. /\ r = [f \in Fields |-> r[f]]
      /\ \A f \in Fields : r[f] = IF f \in fields THEN d.expected[f] ELSE Nothing[f]
  BY DEF ReadOf
<1> HIDE DEF r
<1>2. \A f \in Counts : r[f] \in {0, d.expected[f]}
  <2>1. \A f \in Counts : f \in Fields /\ Nothing[f] = 0
    BY NothingThere DEF Fields
  <2>2. QED
    BY <1>1, <2>1
<1>3. ASSUME NEW f \in Texts \cup Rows
      PROVE  IsPrefix(r[f], d.expected[f])
  <2>1. PICK T : d.expected[f] \in Seq(T)
    <3>1. f \in Texts \/ f = "pieces" \/ f = "peers"
      BY DEF Rows
    <3>2. QED
      BY <3>1 DEF Expects
  <2>2. f \in Fields /\ Nothing[f] = <<>>
    BY NothingThere DEF Fields
  <2>3. r[f] = d.expected[f] \/ r[f] = <<>>
    BY <1>1, <2>2
  <2>4. QED
    BY <2>1, <2>3, PrefixSelf
<1>4. QED
  BY <1>1, <1>2, <1>3 DEF Honest, r

LEMMA HonestField ==
    ASSUME NEW d, NEW r, Honest(d, r), NEW f \in Fields, NEW v,
           f \in Counts => v \in {0, d.expected[f]},
           f \in Texts \cup Rows => IsPrefix(v, d.expected[f])
    PROVE  Honest(d, [r EXCEPT ![f] = v])
<1> DEFINE w == [r EXCEPT ![f] = v]
<1>1. DOMAIN r = Fields
  BY DEF Honest
<1>2. w[f] = v /\ (\A g \in Fields \ {f} : w[g] = r[g]) /\ w = [g \in Fields |-> w[g]]
  BY <1>1
<1> HIDE DEF w
<1>3. \A g \in Counts : w[g] \in {0, d.expected[g]}
  BY <1>2 DEF Honest, Fields
<1>4. \A g \in Texts \cup Rows : IsPrefix(w[g], d.expected[g])
  BY <1>2 DEF Honest, Fields
<1>5. QED
  BY <1>2, <1>3, <1>4 DEF Honest, w

LEMMA WrittenKept ==
    ASSUME NEW s, Written(s), UNCHANGED <<doc, data>>
    PROVE  Written(s)' /\ Size' = Size /\ Cut' = Cut
BY DEF Written, PartOf, Size, Cut

(* A step that leaves the script.                                          *)
LEMMA Strays ==
    ASSUME NEW s, Written(s), UNCHANGED <<doc, data>>, Cut, Honest(doc, result'),
           \/ at' \in Ended
           \/ pos' >= Size
           \/ pos' = 0 /\ nest' # 1
           \/ \E k \in 0 .. s.last - 1 : pos' = s.end[k] /\ nest' >= 2 + s.depth[k]
    PROVE  Follows(s)'
<1>1. Written(s)' /\ Size' = Size /\ Cut'
  BY WrittenKept
<1>2. Lost(s)'
  BY <1>1 DEF Lost
<1>3. QED
  BY <1>1, <1>2 DEF Follows, Astray

LEMMA TurnHere ==
    ASSUME NEW s, Written(s), NEW k \in DOMAIN s.turn, data \in Seq(Byte)
    PROVE  /\ k \in 0 .. s.last - 1 /\ s.last \in Nat /\ Size \in Nat
           /\ s.end[k] \in Nat /\ (s.end[k] >= Size => Cut)
<1>1. s.last \in Nat /\ k \in 0 .. s.last - 1
  BY DEF Written, IsScript, Laid, Turns
<1>2. s.end[k] \in Nat /\ s.end[k] < Len(doc.data)
  BY <1>1 DEF Written, IsScript, Laid
<1>3. Size \in Nat /\ Len(doc.data) \in Nat
  BY PartThere DEF Written
<1>4. QED
  BY <1>1, <1>2, <1>3 DEF Cut

(* A step to the next turn: that turn, if its first byte is there.         *)
LEMMA Lands ==
    ASSUME NEW s, Written(s), TypeInv, UNCHANGED <<doc, data>>,
           NEW k, NEW fields, Turn(s, k, at', nest', fields, info_start', info_end'),
           result' = ReadOf(doc, fields), pos' = s.end[k]
    PROVE  Follows(s)'
<1>1. k \in DOMAIN s.turn
  BY DEF Turn
<1>2. s.end[k] \in Nat /\ Size \in Nat /\ (s.end[k] >= Size => Cut)
  BY <1>1, TurnHere DEF TypeInv
<1>3. Written(s)' /\ Size' = Size
  BY WrittenKept
<1>4. CASE s.end[k] < Size
  <2>1. AtTurn(s, k)'
    BY <1>3, <1>4 DEF AtTurn
  <2>2. QED
    BY <1>3, <2>1 DEF Follows
<1>5. CASE ~ (s.end[k] < Size)
  <2>1. Cut /\ pos' >= Size
    BY <1>2, <1>5
  <2>2. Honest(doc, result')
    BY ReadHonest DEF Written
  <2>3. QED
    BY <2>1, <2>2, Strays
<1>6. QED
  BY <1>4, <1>5

(* What lies from p to q, as the parser meets it at p.                     *)
Meets(t, p, q) ==
    /\ p \in Nat /\ q \in Nat /\ p < q /\ Size \in Nat
    /\ q <= Len(doc.data) /\ (Size < q => Cut) /\ IsToken(t)
    /\ t.is = "string" => ReadsString(p, q, t.of)
    /\ t.is = "integer" => ReadsInteger(p, q, t.of)
    /\ t.is = "open" => q = p + 1 /\ (p < Size => data[p + 1] \in {L, D})
    /\ t.is = "close" => q = p + 1 /\ (p < Size => data[p + 1] = E)

LEMMA TokenHere ==
    ASSUME NEW s, Written(s), data \in Seq(Byte), NEW k \in 0 .. s.last - 1,
           NEW t, t = s.token[k + 1], NEW p, p = s.end[k], NEW q, q = s.end[k + 1]
    PROVE  Meets(t, p, q)
<1>1. PartOf(doc.data) /\ Laid(doc.data, s)
  BY DEF Written, IsScript
<1>2. /\ Size \in Nat /\ Len(doc.data) \in Nat
      /\ \A i \in 1 .. Size : data[i] = doc.data[i]
  BY <1>1, PartThere
<1> DEFINE b == TokenBytes(t)
<1>3. /\ p \in Nat /\ IsToken(t) /\ Lies(doc.data, p, b) /\ q = p + Len(b)
  BY <1>1 DEF Laid
<1>4. q <= Len(doc.data)
  BY <1>3 DEF Lies
<1>5. ASSUME q \in Nat
      PROVE  Size < q => Cut
  BY <1>2, <1>4, <1>5 DEF Cut
<1>6. CASE t.is = "string"
  <2> DEFINE x == t.of
             d == doc.data
  <2>1. x \in Seq(Byte) /\ Len(x) <= MaxInt
    BY <1>3, <1>6 DEF IsToken
  <2>2. b = Str(x)
    BY <1>6 DEF TokenBytes
  <2>3. /\ Lies(d, p, Str(x)) /\ q = p + Len(Str(x)) /\ p \in Nat /\ PartOf(d)
    BY <1>1, <1>3, <2>2
  <2> HIDE DEF b, x, d
  <2>4. q \in Nat /\ p < q /\ ReadsString(p, q, x)
    BY <2>1, <2>3, StringRead
  <2>5. QED
    BY <1>2, <1>3, <1>4, <1>5, <1>6, <2>4 DEF Meets, x
<1>7. CASE t.is = "integer"
  <2> DEFINE x == t.of
             d == doc.data
  <2>1. x \in Nat
    BY <1>3, <1>7 DEF IsToken
  <2>2. b = Num(x)
    BY <1>7 DEF TokenBytes
  <2>3. /\ Lies(d, p, Num(x)) /\ q = p + Len(Num(x)) /\ p \in Nat /\ PartOf(d)
    BY <1>1, <1>3, <2>2
  <2> HIDE DEF b, x, d
  <2>4. q \in Nat /\ p < q /\ ReadsInteger(p, q, x)
    BY <2>1, <2>3, IntegerRead
  <2>5. QED
    BY <1>2, <1>3, <1>4, <1>5, <1>7, <2>4 DEF Meets, x
<1>8. ASSUME NEW x, b = <<x>>
      PROVE  /\ q \in Nat /\ p < q /\ q = p + 1
             /\ p < Size => data[p + 1] = x
  <2>1. Len(b) = 1 /\ b[1] = x
    BY <1>8
  <2>2. q = p + 1 /\ q \in Nat /\ p < q
    BY <1>3, <2>1
  <2>3. doc.data[p + 1] = x
    BY <1>3, <2>1 DEF Lies
  <2>4. p < Size => p + 1 \in 1 .. Size
    BY <1>2, <1>3
  <2>5. QED
    BY <1>2, <2>2, <2>3, <2>4
<1>9. CASE t.is = "open"
  <2>1. t.of \in {L, D} /\ b = <<t.of>>
    BY <1>3, <1>9 DEF IsToken, TokenBytes
  <2>2. q \in Nat /\ p < q /\ q = p + 1 /\ (p < Size => data[p + 1] = t.of)
    BY <1>8, <2>1
  <2>3. QED
    BY <1>2, <1>3, <1>4, <1>5, <1>9, <2>1, <2>2 DEF Meets
<1>10. CASE t.is = "close"
  <2>1. b = <<E>>
    BY <1>10 DEF TokenBytes
  <2>2. q \in Nat /\ p < q /\ q = p + 1 /\ (p < Size => data[p + 1] = E)
    BY <1>8, <2>1
  <2>3. QED
    BY <1>2, <1>3, <1>4, <1>5, <1>10, <2>2 DEF Meets
<1>11. t.is \in {"string", "integer", "open", "close"}
  BY <1>3 DEF IsToken
<1>12. QED
  BY <1>6, <1>7, <1>9, <1>10, <1>11

(* What skip_value does at a token.                                        *)
LEMMA SkipToken ==
    ASSUME NEW s, Written(s), TypeInv, NEW k \in 0 .. s.last - 1,
           NEW t, t = s.token[k + 1],
           pos = s.end[k], pos < Size, Skip, t.is = "close" => nest > 1
    PROVE  /\ UNCHANGED <<doc, data, result, info_start, info_end>>
           /\ \/ at' = "threw" /\ Cut
              \/ at' = "overflow" /\ t.is = "open" /\ ~ (nest < MaxNest)
              \/ pos' = 0 /\ nest' = Returned /\ Cut
              \/ at' = at /\ pos' = s.end[k + 1] /\ nest' = After(t, nest)
<1>1. /\ UNCHANGED <<doc, data, result, info_start, info_end>>
      /\ data \in Seq(Byte) /\ nest \in Nat /\ nest > 0
  BY BencodeAssumption DEF Skip, TypeInv
<1> DEFINE q == s.end[k + 1]
           c == data[pos + 1]
<1>2. /\ pos \in Nat /\ q \in Nat /\ pos < q /\ Size \in Nat /\ (Size < q => Cut) /\ IsToken(t)
      /\ t.is = "string" =>
            /\ c \in Digit
            /\ q <= Size => IsString(pos)
            /\ IsString(pos) => read_string(pos).next = q
      /\ t.is = "integer" =>
            /\ c = I
            /\ q <= Size => Found(E, pos + 1) /\ Find(E, pos + 1) + 1 = q
            /\ ~ (q <= Size) => ~ Found(E, pos + 1)
      /\ t.is = "open" => q = pos + 1 /\ c \in {L, D}
      /\ t.is = "close" => q = pos + 1 /\ c = E
  <2>1. Meets(t, pos, q)
    BY <1>1, TokenHere
  <2>2. QED
    BY <2>1 DEF Meets, ReadsString, ReadsInteger
<1>3. SkipEnd(c) \/ SkipInteger(c) \/ SkipString(c) \/ SkipInto(c) \/ SkipNothing(c)
  <2>1. ByteAt(pos) = {c}
    BY <1>2 DEF ByteAt
  <2>2. QED
    BY <2>1 DEF Skip
<1> HIDE DEF q, c
<1>4. ~ (q <= Size) => Cut
  BY <1>2
<1>5. CASE t.is = "string"
  <2>1. c # E /\ c # I /\ c # L /\ c # D /\ c \in Digit
    BY <1>2, <1>5, DigitBytes
  <2>2. SkipString(c)
    BY <1>3, <2>1 DEF SkipEnd, SkipInteger, SkipInto, SkipNothing
  <2>3. After(t, nest) = Returned
    BY <1>5 DEF After, Returned
  <2>4. CASE IsString(pos)
    BY <1>1, <1>2, <1>5, <2>2, <2>3, <2>4 DEF SkipString, q
  <2>5. CASE ~ IsString(pos)
    BY <1>1, <1>2, <1>4, <1>5, <2>2, <2>5 DEF SkipString
  <2>6. QED
    BY <2>4, <2>5
<1>6. CASE t.is = "integer"
  <2>1. c = I /\ c \notin Digit /\ c # E /\ c # L /\ c # D
    BY <1>2, <1>6 DEF I, E, L, D, Digit
  <2>2. SkipInteger(c)
    BY <1>3, <2>1 DEF SkipEnd, SkipString, SkipInto, SkipNothing
  <2>3. After(t, nest) = Returned
    BY <1>6 DEF After, Returned
  <2>4. CASE q <= Size
    BY <1>1, <1>2, <1>6, <2>2, <2>3, <2>4 DEF SkipInteger, q
  <2>5. CASE ~ (q <= Size)
    BY <1>1, <1>2, <1>4, <1>6, <2>2, <2>5 DEF SkipInteger
  <2>6. QED
    BY <2>4, <2>5
<1>7. CASE t.is = "open"
  <2>1. c \in {L, D} /\ c \notin Digit /\ c # E /\ c # I
    BY <1>2, <1>7 DEF I, E, L, D, Digit
  <2>2. SkipInto(c)
    BY <1>3, <2>1 DEF SkipEnd, SkipString, SkipInteger, SkipNothing
  <2>3. After(t, nest) = nest + 1
    BY <1>7 DEF After
  <2>4. QED
    BY <1>1, <1>2, <1>7, <2>2, <2>3 DEF SkipInto, q
<1>8. CASE t.is = "close"
  <2>1. c = E /\ c \notin Digit /\ c # I /\ c # L /\ c # D /\ nest > 1
    BY <1>2, <1>8 DEF I, E, L, D, Digit
  <2>2. SkipEnd(c)
    <3>1. nest # 1
      BY <1>1, <2>1
    <3>2. QED
      BY <1>3, <2>1, <3>1 DEF SkipInto, SkipString, SkipInteger, SkipNothing
  <2>3. After(t, nest) = IF nest = 2 THEN 0 ELSE nest - 1
    BY <1>8 DEF After
  <2>4. QED
    BY <1>1, <1>2, <1>8, <2>2, <2>3 DEF SkipEnd, q
<1>9. QED
  BY <1>2, <1>5, <1>6, <1>7, <1>8 DEF IsToken

LEMMA NotPast ==
    ASSUME data \in Seq(Byte), NEW p \in Nat, p >= Size
    PROVE  ~ IsString(p) /\ ~ Found(E, p + 1) /\ ~ IsInteger(p)
<1>1. Size \in Nat
  BY DEF Size
<1>2. p .. Size - 1 = {} /\ (p + 1) .. Size - 1 = {}
  BY <1>1
<1>3. ~ Found(Colon, p) /\ ~ Found(E, p + 1)
  BY <1>2 DEF Found
<1>4. QED
  BY <1>3 DEF IsString, IsInteger

(* Where the parser is when it is at a turn.                               *)
LEMMA AtTurnHere ==
    ASSUME NEW s, Written(s), TypeInv, NEW k, AtTurn(s, k)
    PROVE  /\ k \in DOMAIN s.turn /\ k \in 0 .. s.last - 1 /\ s.last \in Nat
           /\ Size \in Nat /\ pos \in Nat /\ nest \in Nat /\ Honest(doc, result)
           /\ at \in Dictionaries
           /\ \E fields :
                 /\ Turn(s, k, at, nest, fields, info_start, info_end)
                 /\ result = ReadOf(doc, fields)
                 /\ LET c == [at |-> at, nest |-> nest, fields |-> fields,
                              from |-> info_start, to |-> info_end]
                    IN \/ CountTurn(doc, s, k, c) \/ TextTurn(doc, s, k, c)
                       \/ InfoTurn(s, k, c) \/ OtherTurn(s, k, c)
                       \/ InfoEnd(s, k, c) \/ LastTurn(doc, s, k, c)
                       \/ SkipTurn(s, k, c)
<1>1. PICK fields : /\ Turn(s, k, at, nest, fields, info_start, info_end)
                    /\ result = ReadOf(doc, fields)
  BY DEF AtTurn
<1>2. k \in DOMAIN s.turn
  BY <1>1 DEF Turn
<1>3. k \in 0 .. s.last - 1 /\ s.last \in Nat /\ Size \in Nat
  BY <1>2, TurnHere DEF TypeInv
<1>4. pos \in Nat /\ nest \in Nat
  <2>1. s.end[k] \in Nat /\ pos = s.end[k]
    BY <1>2, TurnHere DEF TypeInv, AtTurn
  <2>2. QED
    BY <2>1, BencodeAssumption DEF TypeInv
<1>5. Honest(doc, result)
  BY <1>1, ReadHonest DEF Written
<1> DEFINE c == [at |-> at, nest |-> nest, fields |-> fields,
                 from |-> info_start, to |-> info_end]
           x == s.turn[k]
<1>6. \/ CountTurn(doc, s, k, x) \/ TextTurn(doc, s, k, x)
      \/ InfoTurn(s, k, x) \/ OtherTurn(s, k, x)
      \/ InfoEnd(s, k, x) \/ LastTurn(doc, s, k, x)
      \/ SkipTurn(s, k, x)
  BY <1>2 DEF Written, IsScript, Turns
<1>7. /\ x.at = c.at /\ x.nest = c.nest /\ x.fields = c.fields
      /\ x.from = c.from /\ x.to = c.to
  BY <1>1 DEF Turn
<1>8. /\ c.at = at /\ c.nest = nest /\ c.fields = fields
      /\ c.from = info_start /\ c.to = info_end
  OBVIOUS
<1> HIDE DEF c, x
<1>9. \/ CountTurn(doc, s, k, c) \/ TextTurn(doc, s, k, c)
      \/ InfoTurn(s, k, c) \/ OtherTurn(s, k, c)
      \/ InfoEnd(s, k, c) \/ LastTurn(doc, s, k, c)
      \/ SkipTurn(s, k, c)
  <2>1. CountTurn(doc, s, k, x) => CountTurn(doc, s, k, c)
    BY <1>7 DEF CountTurn
  <2>2. TextTurn(doc, s, k, x) => TextTurn(doc, s, k, c)
    BY <1>7 DEF TextTurn
  <2>3. InfoTurn(s, k, x) => InfoTurn(s, k, c)
    BY <1>7 DEF InfoTurn
  <2>4. OtherTurn(s, k, x) => OtherTurn(s, k, c)
    BY <1>7 DEF OtherTurn
  <2>5. InfoEnd(s, k, x) => InfoEnd(s, k, c)
    BY <1>7 DEF InfoEnd
  <2>6. LastTurn(doc, s, k, x) => LastTurn(doc, s, k, c)
    BY <1>7 DEF LastTurn
  <2>7. SkipTurn(s, k, x) => SkipTurn(s, k, c)
    BY <1>7 DEF SkipTurn
  <2>8. QED
    BY <1>6, <2>1, <2>2, <2>3, <2>4, <2>5, <2>6, <2>7
<1>10. at \in Dictionaries
  BY <1>1, <1>2 DEF Turn, Written, IsScript, Turns
<1>11. QED
  BY <1>1, <1>2, <1>3, <1>4, <1>5, <1>9, <1>10 DEF c

LEMMA FollowSkip ==
    ASSUME NEW s, Written(s), TypeInv, NEW k, AtTurn(s, k), Skip
    PROVE  Follows(s)'
<1>1. /\ k \in DOMAIN s.turn /\ k \in 0 .. s.last - 1
      /\ nest \in Nat /\ nest > 0 /\ Honest(doc, result)
      /\ pos = s.end[k] /\ pos < Size
  BY AtTurnHere DEF AtTurn, Skip
<1> DEFINE t == s.token[k + 1]
<1>2. PICK fields :
         /\ result = ReadOf(doc, fields)
         /\ t.is = "open" => nest < MaxNest
         /\ t.is = "close" => nest > 1
         /\ Turn(s, k + 1, at, After(t, nest), fields, info_start, info_end)
  <2>1. PICK fields :
           /\ result = ReadOf(doc, fields)
           /\ LET c == [at |-> at, nest |-> nest, fields |-> fields,
                        from |-> info_start, to |-> info_end]
              IN \/ CountTurn(doc, s, k, c) \/ TextTurn(doc, s, k, c)
                 \/ InfoTurn(s, k, c) \/ OtherTurn(s, k, c)
                 \/ InfoEnd(s, k, c) \/ LastTurn(doc, s, k, c)
                 \/ SkipTurn(s, k, c)
    BY AtTurnHere
  <2> DEFINE c == [at |-> at, nest |-> nest, fields |-> fields,
                   from |-> info_start, to |-> info_end]
  <2>2. /\ c.at = at /\ c.nest = nest /\ c.fields = fields
        /\ c.from = info_start /\ c.to = info_end /\ c.nest # 0
    BY <1>1
  <2> HIDE DEF c
  <2>3. SkipTurn(s, k, c)
    BY <2>1, <2>2 DEF CountTurn, TextTurn, InfoTurn, OtherTurn, InfoEnd, LastTurn, c
  <2>4. QED
    BY <2>1, <2>2, <2>3 DEF SkipTurn
<1> HIDE DEF t
<1>3. /\ UNCHANGED <<doc, data, result, info_start, info_end>>
      /\ \/ at' = "threw" /\ Cut
         \/ at' = "overflow" /\ t.is = "open" /\ ~ (nest < MaxNest)
         \/ pos' = 0 /\ nest' = Returned /\ Cut
         \/ at' = at /\ pos' = s.end[k + 1] /\ nest' = After(t, nest)
  BY <1>1, <1>2, SkipToken DEF t
<1>4. CASE at' = "threw" /\ Cut
  BY <1>1, <1>3, <1>4, Strays DEF Ended
<1>5. CASE pos' = 0 /\ nest' = Returned /\ Cut
  <2>1. nest' # 1
    BY <1>1, <1>5 DEF Returned
  <2>2. QED
    BY <1>1, <1>3, <1>5, <2>1, Strays
<1>6. CASE at' = at /\ pos' = s.end[k + 1] /\ nest' = After(t, nest)
  <2>1. Turn(s, k + 1, at', nest', fields, info_start', info_end')
    BY <1>2, <1>3, <1>6
  <2>2. result' = ReadOf(doc, fields)
    BY <1>2, <1>3
  <2>3. QED
    BY <1>3, <1>6, <2>1, <2>2, Lands
<1>7. QED
  BY <1>2, <1>3, <1>4, <1>5, <1>6

(* The end of a dictionary.                                                *)
LEMMA FollowEnd ==
    ASSUME NEW s, Written(s), TypeInv, NEW k, AtTurn(s, k), EndOfDictionary
    PROVE  Follows(s)'
<1>1. /\ k \in DOMAIN s.turn /\ k \in 0 .. s.last - 1 /\ s.last \in Nat
      /\ Honest(doc, result) /\ Size \in Nat /\ pos \in Nat
      /\ pos = s.end[k] /\ pos < Size
      /\ nest = 0 /\ ~ More /\ at \in Dictionaries /\ data \in Seq(Byte)
      /\ UNCHANGED <<doc, data, nest, result, info_start>>
  BY AtTurnHere DEF AtTurn, EndOfDictionary, InLoop, TypeInv
<1> DEFINE t == s.token[k + 1]
           q == s.end[k + 1]
<1>2. PICK fields :
         /\ result = ReadOf(doc, fields)
         /\ LET c == [at |-> at, nest |-> nest, fields |-> fields,
                      from |-> info_start, to |-> info_end]
            IN \/ CountTurn(doc, s, k, c) \/ TextTurn(doc, s, k, c)
               \/ InfoTurn(s, k, c) \/ OtherTurn(s, k, c)
               \/ InfoEnd(s, k, c) \/ LastTurn(doc, s, k, c)
               \/ SkipTurn(s, k, c)
  BY AtTurnHere
<1> DEFINE c == [at |-> at, nest |-> nest, fields |-> fields,
                 from |-> info_start, to |-> info_end]
<1>3. /\ c.at = at /\ c.nest = 0 /\ c.fields = fields
      /\ c.from = info_start /\ c.to = info_end
  BY <1>1
<1>4. /\ q \in Nat /\ q <= Len(doc.data)
      /\ t.is = "string" => data[pos + 1] \in Digit
      /\ t.is = "close" => q = pos + 1
  <2>1. Meets(t, pos, q)
    BY <1>1, TokenHere
  <2>2. QED
    BY <1>1, <2>1 DEF Meets, ReadsString
<1>5. data[pos + 1] = E
  BY <1>1 DEF More
<1> HIDE DEF c
<1>6. t.is # "string"
  BY <1>4, <1>5, DigitBytes
<1>7. InfoEnd(s, k, c) \/ LastTurn(doc, s, k, c)
  <2>1. ~ (c.nest > 0)
    BY <1>3
  <2>2. QED
    BY <1>2, <1>6, <2>1 DEF CountTurn, TextTurn, InfoTurn, OtherTurn, SkipTurn, IsKey, c
<1>8. q = pos + 1
  BY <1>4, <1>7 DEF InfoEnd, LastTurn
<1> HIDE DEF t, q
<1>9. CASE InfoEnd(s, k, c)
  <2>1. at = "info" /\ Turn(s, k + 1, "outer", 0, fields, info_start, pos)
    BY <1>1, <1>3, <1>9 DEF InfoEnd
  <2>2. at' = "outer" /\ pos' = q /\ info_end' = pos
    BY <1>8, <2>1 DEF EndOfDictionary
  <2>3. Turn(s, k + 1, at', nest', fields, info_start', info_end')
    BY <1>1, <2>1, <2>2
  <2>4. result' = ReadOf(doc, fields) /\ pos' = s.end[k + 1]
    BY <1>1, <1>2, <2>2 DEF q
  <2>5. QED
    BY <1>1, <2>3, <2>4, Lands
<1>10. CASE LastTurn(doc, s, k, c)
  <2>1. /\ at \in {"outer", "response"} /\ k + 1 = s.last
        /\ \A f \in Fields \ fields : doc.expected[f] = Nothing[f]
        /\ doc.kind = "outer" =>
              SubSeq(doc.data, info_start + 1, info_end + 1) = doc.info
    BY <1>3, <1>10 DEF LastTurn
  <2>2. q = Len(doc.data)
    BY <2>1 DEF q, Written, IsScript, Laid
  <2>3. PartOf(doc.data)
    BY DEF Written
  <2>4. data = doc.data
    <3>1. Size = Len(doc.data)
      BY <1>1, <1>8, <2>2, <2>3, PartThere DEF PartOf
    <3>2. QED
      BY <1>1, <2>3, <3>1, PartThere
  <2>5. result = doc.expected
    <3>1. doc.expected = [f \in Fields |-> doc.expected[f]]
      BY DEF Written, Expects
    <3>2. ReadOf(doc, fields) = [f \in Fields |-> doc.expected[f]]
      BY <2>1 DEF ReadOf
    <3>3. QED
      BY <1>2, <3>1, <3>2
  <2>6. at' = "done" /\ info_end' = info_end
    BY <2>1 DEF EndOfDictionary
  <2>7. doc.kind = "outer" => InfoRaw' = doc.info
    BY <1>1, <2>1, <2>4, <2>6 DEF InfoRaw, Bytes
  <2>8. Read'
    BY <1>1, <2>4, <2>5, <2>6, <2>7 DEF Read
  <2>9. Written(s)'
    BY <1>1, WrittenKept
  <2>10. QED
    BY <2>8, <2>9 DEF Follows
<1>11. QED
  BY <1>7, <1>9, <1>10

(* A turn of a loop that starts with a key.                                *)
LEMMA KeyHere ==
    ASSUME NEW s, Written(s), TypeInv, NEW k, AtTurn(s, k), InLoop, More,
           NEW t, t = s.token[k + 1], NEW p, p = s.end[k + 1]
    PROVE  /\ p \in Nat /\ t.is = "string"
           /\ ~ IsString(pos) => Cut
           /\ p >= Size => Cut
           /\ IsString(pos) => read_string(pos).next = p
           /\ p < Size => read_string(pos).value = t.of
           /\ \E fields :
                 /\ result = ReadOf(doc, fields)
                 /\ LET c == [at |-> at, nest |-> 0, fields |-> fields,
                              from |-> info_start, to |-> info_end]
                    IN \/ CountTurn(doc, s, k, c) \/ TextTurn(doc, s, k, c)
                       \/ InfoTurn(s, k, c) \/ OtherTurn(s, k, c)
<1>1. /\ k \in DOMAIN s.turn /\ k \in 0 .. s.last - 1 /\ s.last \in Nat
      /\ Size \in Nat /\ pos \in Nat
      /\ pos = s.end[k] /\ pos < Size /\ nest = 0 /\ data \in Seq(Byte)
  BY AtTurnHere DEF AtTurn, InLoop, TypeInv
<1>2. PICK fields :
         /\ result = ReadOf(doc, fields)
         /\ LET c == [at |-> at, nest |-> nest, fields |-> fields,
                      from |-> info_start, to |-> info_end]
            IN \/ CountTurn(doc, s, k, c) \/ TextTurn(doc, s, k, c)
               \/ InfoTurn(s, k, c) \/ OtherTurn(s, k, c)
               \/ InfoEnd(s, k, c) \/ LastTurn(doc, s, k, c)
               \/ SkipTurn(s, k, c)
  BY AtTurnHere
<1> DEFINE c == [at |-> at, nest |-> 0, fields |-> fields,
                 from |-> info_start, to |-> info_end]
<1>3. \/ CountTurn(doc, s, k, c) \/ TextTurn(doc, s, k, c)
      \/ InfoTurn(s, k, c) \/ OtherTurn(s, k, c)
      \/ InfoEnd(s, k, c) \/ LastTurn(doc, s, k, c)
      \/ SkipTurn(s, k, c)
  BY <1>1, <1>2
<1>4. c.nest = 0
  OBVIOUS
<1> HIDE DEF c
<1>5. /\ p \in Nat /\ p <= Len(doc.data) /\ (Size < p => Cut) /\ IsToken(t)
      /\ t.is = "string" =>
            /\ p <= Size => IsString(pos) /\ read_string(pos).value = t.of
            /\ IsString(pos) => read_string(pos).next = p
      /\ t.is = "close" => data[pos + 1] = E
  <2>1. Meets(t, pos, p)
    BY <1>1, TokenHere
  <2>2. QED
    BY <1>1, <2>1 DEF Meets, ReadsString
<1>6. t.is # "close"
  BY <1>5 DEF More
<1>7. CountTurn(doc, s, k, c) \/ TextTurn(doc, s, k, c) \/ InfoTurn(s, k, c) \/ OtherTurn(s, k, c)
  <2>1. ~ (c.nest > 0)
    BY <1>4
  <2>2. QED
    BY <1>3, <1>6, <2>1 DEF InfoEnd, LastTurn, SkipTurn
<1>8. t.is = "string"
  BY <1>7 DEF CountTurn, TextTurn, InfoTurn, OtherTurn, IsKey
<1>9. p < Len(doc.data)
  <2>1. PICK j \in DOMAIN s.turn : j = k + 1 \/ j = k + 2
    BY <1>7 DEF CountTurn, TextTurn, InfoTurn, OtherTurn, Turn
  <2>2. j \in 0 .. s.last - 1
    BY <2>1, TurnHere, <1>1
  <2>3. k + 1 \in 0 .. s.last /\ k + 1 < s.last
    BY <1>1, <2>1, <2>2
  <2>4. QED
    BY <2>3 DEF Written, IsScript, Laid
<1>10. p >= Size => Cut
  <2>1. Len(doc.data) \in Nat
    BY <1>1, PartThere DEF Written
  <2>2. QED
    BY <1>1, <1>5, <1>9, <2>1 DEF Cut
<1>11. p < Size => p <= Size
  BY <1>1, <1>5
<1>12. ~ IsString(pos) => Cut
  BY <1>1, <1>5, <1>8
<1>13. QED
  BY <1>2, <1>5, <1>7, <1>8, <1>10, <1>11, <1>12 DEF c

LEMMA FollowBadKey ==
    ASSUME NEW s, Written(s), TypeInv, NEW k, AtTurn(s, k), BadKey
    PROVE  Follows(s)'
<1>1. InLoop /\ More /\ ~ IsString(pos) /\ Throw
  BY DEF BadKey
<1>2. Cut
  BY <1>1, KeyHere
<1>3. Honest(doc, result)
  BY AtTurnHere
<1>4. UNCHANGED <<doc, data>> /\ result' = result /\ at' = "threw"
  BY <1>1 DEF Throw
<1>5. QED
  BY <1>2, <1>3, <1>4, Strays DEF Ended

(* A key that is cut, or whose value is missing: an exception, or a        *)
(* position past the data.                                                 *)
LEMMA FollowPast ==
    ASSUME NEW s, Written(s), TypeInv, Cut, Honest(doc, result), NEW key,
           NEW p \in Nat, p >= Size,
           \/ \E f \in Known[at] : IntegerEntry(f, key, p) \/ StringEntry(f, key, p)
           \/ InfoEntry(key, p) \/ OtherEntry(key, p)
    PROVE  Follows(s)'
<1>1. data \in Seq(Byte) /\ Size \in Nat
  BY DEF TypeInv, Size
<1>2. ~ IsString(p) /\ ~ IsInteger(p)
  BY <1>1, NotPast
<1>3. ASSUME Throw
      PROVE  Follows(s)'
  <2>1. UNCHANGED <<doc, data>> /\ result' = result /\ at' = "threw"
    BY <1>3 DEF Throw
  <2>2. QED
    BY <2>1, Strays DEF Ended
<1>4. ASSUME NEW f, IntegerEntry(f, key, p)
      PROVE  Follows(s)'
  BY <1>2, <1>3, <1>4 DEF IntegerEntry
<1>5. ASSUME NEW f, StringEntry(f, key, p)
      PROVE  Follows(s)'
  BY <1>2, <1>3, <1>5 DEF StringEntry
<1>6. ASSUME InfoEntry(key, p) \/ OtherEntry(key, p)
      PROVE  Follows(s)'
  <2>1. UNCHANGED <<doc, data>> /\ result' = result /\ pos' \in {p, p + 1}
    BY <1>6 DEF InfoEntry, OtherEntry
  <2>2. pos' >= Size
    BY <1>1, <2>1
  <2>3. QED
    BY <2>1, <2>2, Strays
<1>7. QED
  BY <1>4, <1>5, <1>6

LEMMA KeysDiffer ==
    \A f, g \in DOMAIN Key : Key[f] = Key[g] => f = g
BY DEF Key, I, L, E

Turning(key, p) ==
    \/ \E f \in Known[at] : IntegerEntry(f, key, p) \/ StringEntry(f, key, p)
    \/ InfoEntry(key, p) \/ OtherEntry(key, p)

LEMMA FieldsAreKeys == Fields \cup {"info"} \subseteq DOMAIN Key /\ "info" \notin Fields
BY DEF Fields, Counts, Texts, Rows, Key

LEMMA FollowCount ==
    ASSUME NEW s, Written(s), TypeInv, Honest(doc, result),
           NEW k \in 0 .. s.last - 1, NEW f \in Known[at] \cap Counts, NEW fields,
           s.token[k + 2].is = "integer", s.token[k + 2].of = doc.expected[f],
           doc.expected[f] <= Holds(f),
           Turn(s, k + 2, at, 0, fields \cup {f}, info_start, info_end),
           result = ReadOf(doc, fields),
           NEW p, p = s.end[k + 1], nest = 0, Turning(Key[f], p)
    PROVE  Follows(s)'
<1>1. f \in Counts /\ f \in Fields /\ f \in DOMAIN Key /\ f # "info"
  BY FieldsAreKeys DEF Fields
<1>2. IntegerEntry(f, Key[f], p)
  <2>1. ~ OtherEntry(Key[f], p)
    BY DEF OtherEntry
  <2>2. ~ InfoEntry(Key[f], p)
    <3>1. Key["info"] # Key[f]
      BY <1>1, KeysDiffer, FieldsAreKeys
    <3>2. QED
      BY <3>1 DEF InfoEntry
  <2>3. ASSUME NEW g, IntegerEntry(g, Key[f], p) \/ StringEntry(g, Key[f], p)
        PROVE  g = f
    <3>1. g \in Fields /\ Key[f] = Key[g]
      BY <2>3 DEF IntegerEntry, StringEntry, Fields
    <3>2. QED
      BY <1>1, <3>1, KeysDiffer, FieldsAreKeys
  <2>4. ~ StringEntry(f, Key[f], p)
    BY <1>1 DEF StringEntry, Counts, Texts, Rows
  <2>5. QED
    BY <2>1, <2>2, <2>3, <2>4 DEF Turning
<1> DEFINE u == s.token[k + 2]
           r == s.end[k + 2]
<1>3. k + 1 \in 0 .. s.last - 1 /\ (k + 1) + 1 = k + 2 /\ data \in Seq(Byte)
  <2>1. k + 2 \in DOMAIN s.turn
    BY DEF Turn
  <2>2. k + 2 \in 0 .. s.last - 1 /\ s.last \in Nat
    BY <2>1, TurnHere DEF TypeInv
  <2>3. QED
    BY <2>2 DEF TypeInv
<1>4. /\ p \in Nat /\ r \in Nat /\ Size \in Nat /\ (Size < r => Cut)
      /\ r <= Size => /\ u.of <= MaxLong => IsInteger(p)
                      /\ read_integer(p).value = u.of /\ read_integer(p).next = r
      /\ ~ (r <= Size) => ~ Found(E, p + 1)
  <2>1. Meets(u, p, r)
    BY <1>3, TokenHere
  <2>2. QED
    BY <1>2, <2>1 DEF Meets, ReadsInteger
<1>5. CASE r <= Size
  <2> DEFINE n == doc.expected[f]
  <2>0. n \in Nat /\ n <= MaxLong /\ Kept(f, n) = n /\ u.of = n
    <3>1. n \in Nat
      BY <1>1 DEF Written, Expects
    <3>2. n <= Holds(f) /\ Holds(f) <= MaxLong /\ Holds(f) \in Nat /\ MaxLong \in Nat
      BY BencodeAssumption DEF Holds
    <3> HIDE DEF n
    <3>3. n <= MaxLong
      BY <3>1, <3>2
    <3>4. FitsIn(n, MaxLong)
      BY <3>1, <3>2, <3>3 DEF FitsIn
    <3>5. Kept(f, n) = n
      BY <3>1, <3>2, <3>4, KeptFits
    <3>6. QED
      BY <3>1, <3>3, <3>5 DEF n
  <2>1. /\ result' = [result EXCEPT ![f] = doc.expected[f]] /\ pos' = r
        /\ UNCHANGED <<doc, data, at, nest, info_start, info_end>>
    BY <1>2, <1>4, <1>5, <2>0 DEF IntegerEntry
  <2>2. [ReadOf(doc, fields) EXCEPT ![f] = doc.expected[f]] = ReadOf(doc, fields \cup {f})
    BY <1>1 DEF ReadOf
  <2>3. result' = ReadOf(doc, fields \cup {f})
    BY <2>1, <2>2
  <2>4. Turn(s, k + 2, at', nest', fields \cup {f}, info_start', info_end')
    BY <2>1
  <2>5. QED
    BY <2>1, <2>3, <2>4, Lands
<1>6. CASE ~ (r <= Size)
  <2>1. Throw /\ Cut
    BY <1>2, <1>4, <1>6 DEF IntegerEntry, IsInteger
  <2>2. UNCHANGED <<doc, data>> /\ result' = result /\ at' = "threw"
    BY <2>1 DEF Throw
  <2>3. QED
    BY <2>1, <2>2, Strays DEF Ended
<1>7. QED
  BY <1>5, <1>6

(* The first value of a field is kept as it is.                            *)
LEMMA FirstKept ==
    ASSUME NEW f \in Texts \cup Rows, NEW raw \in Seq(Byte),
           NEW r, DOMAIN r = Fields, f \in Rows => r[f] = <<>>
    PROVE  [r EXCEPT ![f] = IF f \in Rows THEN @ \o ValueOf(f, raw) ELSE ValueOf(f, raw)]
              = [r EXCEPT ![f] = ValueOf(f, raw)]
<1>1. CASE f \notin Rows
  BY <1>1
<1>2. CASE f \in Rows
  <2> DEFINE w == ValueOf(f, raw)
  <2>1. PICK T : w \in Seq(T)
    BY <1>2, ValueTyped DEF Rows
  <2> HIDE DEF w
  <2>2. <<>> \o w = w
    BY <2>1
  <2>3. f \in Fields
    BY <1>2 DEF Fields
  <2>4. r[f] \o w = w
    BY <1>2, <2>2
  <2>5. QED
    BY <1>2, <2>3, <2>4 DEF w
<1>3. QED
  BY <1>1, <1>2

LEMMA FollowText ==
    ASSUME NEW s, Written(s), TypeInv, Honest(doc, result),
           NEW k \in 0 .. s.last - 1, NEW f \in Known[at] \cap (Texts \cup Rows), NEW fields,
           f \in Rows => f \notin fields,
           s.token[k + 2].is = "string", ValueOf(f, s.token[k + 2].of) = doc.expected[f],
           Turn(s, k + 2, at, 0, fields \cup {f}, info_start, info_end),
           result = ReadOf(doc, fields),
           NEW p, p = s.end[k + 1], nest = 0, Turning(Key[f], p)
    PROVE  Follows(s)'
<1>1. f \in Texts \cup Rows /\ f \in Fields /\ f \in DOMAIN Key /\ f # "info" /\ f \notin Counts
  BY FieldsAreKeys DEF Fields, Counts, Texts, Rows
<1>2. StringEntry(f, Key[f], p)
  <2>1. ~ OtherEntry(Key[f], p)
    BY DEF OtherEntry
  <2>2. ~ InfoEntry(Key[f], p)
    <3>1. Key["info"] # Key[f]
      BY <1>1, KeysDiffer, FieldsAreKeys
    <3>2. QED
      BY <3>1 DEF InfoEntry
  <2>3. ASSUME NEW g, IntegerEntry(g, Key[f], p) \/ StringEntry(g, Key[f], p)
        PROVE  g = f
    <3>1. g \in Fields /\ Key[f] = Key[g]
      BY <2>3 DEF IntegerEntry, StringEntry, Fields
    <3>2. QED
      BY <1>1, <3>1, KeysDiffer, FieldsAreKeys
  <2>4. ~ IntegerEntry(f, Key[f], p)
    BY <1>1 DEF IntegerEntry
  <2>5. QED
    BY <2>1, <2>2, <2>3, <2>4 DEF Turning
<1> DEFINE u == s.token[k + 2]
           r == s.end[k + 2]
<1>3. k + 1 \in 0 .. s.last - 1 /\ (k + 1) + 1 = k + 2 /\ data \in Seq(Byte)
  <2>1. k + 2 \in DOMAIN s.turn
    BY DEF Turn
  <2>2. k + 2 \in 0 .. s.last - 1 /\ s.last \in Nat
    BY <2>1, TurnHere DEF TypeInv
  <2>3. QED
    BY <2>2 DEF TypeInv
<1>4. /\ p \in Nat /\ r \in Nat /\ Size \in Nat /\ (Size < r => Cut) /\ IsToken(u)
      /\ r <= Size => IsString(p) /\ read_string(p).value = u.of
      /\ IsString(p) => /\ read_string(p).next = r
                        /\ read_string(p).value \in Seq(Byte)
                        /\ Begins(read_string(p).value, u.of)
  <2>1. Meets(u, p, r)
    BY <1>3, TokenHere
  <2>2. QED
    BY <1>2, <2>1 DEF Meets, ReadsString
<1>5. u.of \in Seq(Byte)
  BY <1>4 DEF IsToken
<1> DEFINE v == read_string(p).value
<1>10. ASSUME IsString(p)
       PROVE  /\ result' = [result EXCEPT ![f] = ValueOf(f, v)] /\ pos' = r
              /\ UNCHANGED <<doc, data, at, nest, info_start, info_end>>
  <2>1. v \in Seq(Byte) /\ read_string(p).next = r
    BY <1>4, <1>10
  <2>2. DOMAIN result = Fields /\ (f \in Rows => result[f] = <<>>)
    BY <1>1, NothingThere DEF ReadOf
  <2>3. result' = [result EXCEPT ![f] = IF f \in Rows THEN @ \o ValueOf(f, v) ELSE ValueOf(f, v)]
    BY <1>2, <1>10 DEF StringEntry
  <2>4. pos' = r /\ UNCHANGED <<doc, data, at, nest, info_start, info_end>>
    BY <1>2, <1>10, <2>1 DEF StringEntry
  <2> HIDE DEF v
  <2>5. QED
    BY <1>1, <2>1, <2>2, <2>3, <2>4, FirstKept
<1>6. CASE r <= Size
  <2>1. /\ result' = [result EXCEPT ![f] = doc.expected[f]] /\ pos' = r
        /\ UNCHANGED <<doc, data, at, nest, info_start, info_end>>
    BY <1>4, <1>6, <1>10
  <2>2. [ReadOf(doc, fields) EXCEPT ![f] = doc.expected[f]] = ReadOf(doc, fields \cup {f})
    BY <1>1 DEF ReadOf
  <2>3. result' = ReadOf(doc, fields \cup {f})
    BY <2>1, <2>2
  <2>4. Turn(s, k + 2, at', nest', fields \cup {f}, info_start', info_end')
    BY <2>1
  <2>5. QED
    BY <2>1, <2>3, <2>4, Lands
<1>7. CASE ~ (r <= Size) /\ IsString(p)
  <2>1. /\ result' = [result EXCEPT ![f] = ValueOf(f, v)] /\ pos' = r
        /\ UNCHANGED <<doc, data>>
    BY <1>7, <1>10
  <2>2. IsPrefix(ValueOf(f, v), doc.expected[f])
    <3>1. v \in Seq(Byte) /\ Begins(v, u.of)
      BY <1>4, <1>7
    <3> HIDE DEF v
    <3>2. IsPrefix(ValueOf(f, v), ValueOf(f, u.of))
      BY <1>1, <1>5, <3>1, ValueBegins
    <3>3. QED
      BY <3>2
  <2> HIDE DEF v
  <2>3. Honest(doc, result')
    <3> DEFINE w == ValueOf(f, v)
    <3>1. IsPrefix(w, doc.expected[f]) /\ result' = [result EXCEPT ![f] = w]
      BY <2>1, <2>2
    <3> HIDE DEF w
    <3>2. Honest(doc, [result EXCEPT ![f] = w])
      BY <1>1, <3>1, HonestField
    <3>3. QED
      BY <3>1, <3>2
  <2>4. Cut /\ pos' >= Size
    BY <1>4, <1>7, <2>1
  <2>5. QED
    BY <2>1, <2>3, <2>4, Strays
<1>8. CASE ~ (r <= Size) /\ ~ IsString(p)
  <2>1. Throw /\ Cut
    BY <1>2, <1>4, <1>8 DEF StringEntry
  <2>2. UNCHANGED <<doc, data>> /\ result' = result /\ at' = "threw"
    BY <2>1 DEF Throw
  <2>3. QED
    BY <2>1, <2>2, Strays DEF Ended
<1>9. QED
  BY <1>6, <1>7, <1>8

LEMMA FollowInfo ==
    ASSUME NEW s, Written(s), TypeInv, Honest(doc, result),
           NEW k \in 0 .. s.last - 1, NEW fields,
           s.token[k + 2].is = "open", at = "outer",
           NEW p, p = s.end[k + 1], nest = 0, Turning(Key["info"], p),
           Turn(s, k + 2, "info", 0, fields, p, info_end),
           result = ReadOf(doc, fields)
    PROVE  Follows(s)'
<1>1. "info" \in Known[at]
  BY DEF Known
<1>2. InfoEntry(Key["info"], p)
  <2>1. ~ OtherEntry(Key["info"], p)
    BY <1>1 DEF OtherEntry
  <2>2. ASSUME NEW g, IntegerEntry(g, Key["info"], p) \/ StringEntry(g, Key["info"], p)
        PROVE  FALSE
    <3>1. g \in Fields /\ Key["info"] = Key[g]
      BY <2>2 DEF IntegerEntry, StringEntry, Fields
    <3>2. QED
      BY <3>1, KeysDiffer, FieldsAreKeys
  <2>3. QED
    BY <2>1, <2>2 DEF Turning
<1> DEFINE r == s.end[k + 2]
<1>3. k + 1 \in 0 .. s.last - 1 /\ (k + 1) + 1 = k + 2 /\ data \in Seq(Byte)
  <2>1. k + 2 \in DOMAIN s.turn
    BY DEF Turn
  <2>2. k + 2 \in 0 .. s.last - 1 /\ s.last \in Nat
    BY <2>1, TurnHere DEF TypeInv
  <2>3. QED
    BY <2>2 DEF TypeInv
<1>4. r = p + 1
  <2>1. Meets(s.token[k + 2], p, r)
    BY <1>3, TokenHere
  <2>2. QED
    BY <1>2, <2>1 DEF Meets
<1>5. /\ pos' = r /\ at' = "info" /\ info_start' = p
      /\ UNCHANGED <<doc, data, nest, result, info_end>>
  BY <1>2, <1>4 DEF InfoEntry
<1>6. Turn(s, k + 2, at', nest', fields, info_start', info_end')
  BY <1>5
<1>7. QED
  BY <1>5, <1>6, Lands

LEMMA FollowOther ==
    ASSUME NEW s, Written(s), TypeInv,
           NEW k, NEW fields, NEW key, \A f \in Known[at] : key # Key[f],
           NEW p, p = s.end[k + 1], Turning(key, p),
           Turn(s, k + 1, at, 1, fields, info_start, info_end),
           result = ReadOf(doc, fields)
    PROVE  Follows(s)'
<1>1. OtherEntry(key, p)
  <2>1. ASSUME InfoEntry(key, p)
        PROVE  FALSE
    BY <2>1 DEF InfoEntry, Known
  <2>2. ASSUME NEW f \in Known[at], IntegerEntry(f, key, p) \/ StringEntry(f, key, p)
        PROVE  FALSE
    BY <2>2 DEF IntegerEntry, StringEntry
  <2>3. QED
    BY <2>1, <2>2 DEF Turning
<1>2. nest' = 1 /\ pos' = p /\ UNCHANGED <<doc, data, at, result, info_start, info_end>>
  BY <1>1 DEF OtherEntry
<1>3. Turn(s, k + 1, at', nest', fields, info_start', info_end')
  BY <1>2
<1>4. QED
  BY <1>2, <1>3, Lands

LEMMA FollowEntry ==
    ASSUME NEW s, Written(s), TypeInv, NEW k, AtTurn(s, k),
           NEW key, NEW p, Entry(key, p), Turning(key, p)
    PROVE  Follows(s)'
<1>1. /\ InLoop /\ More /\ IsString(pos) /\ nest = 0
      /\ key = read_string(pos).value /\ p = read_string(pos).next
  BY DEF Entry, InLoop
<1>2. k \in 0 .. s.last - 1 /\ Honest(doc, result) /\ Size \in Nat
  BY AtTurnHere
<1> DEFINE t == s.token[k + 1]
<1>3. p = s.end[k + 1] /\ p \in Nat /\ t.is = "string" /\ (p >= Size => Cut)
      /\ (p < Size => key = t.of)
  BY <1>1, KeyHere
<1>4. CASE p >= Size
  BY <1>2, <1>3, <1>4, FollowPast DEF Turning
<1>5. CASE ~ (p >= Size)
  <2>1. p < Size /\ key = t.of
    BY <1>2, <1>3, <1>5
  <2>2. PICK fields :
           /\ result = ReadOf(doc, fields)
           /\ LET c == [at |-> at, nest |-> 0, fields |-> fields,
                        from |-> info_start, to |-> info_end]
              IN \/ CountTurn(doc, s, k, c) \/ TextTurn(doc, s, k, c)
                 \/ InfoTurn(s, k, c) \/ OtherTurn(s, k, c)
    BY <1>1, KeyHere
  <2> DEFINE c == [at |-> at, nest |-> 0, fields |-> fields,
                   from |-> info_start, to |-> info_end]
  <2>3. /\ c.at = at /\ c.nest = 0 /\ c.fields = fields
        /\ c.from = info_start /\ c.to = info_end
    OBVIOUS
  <2> HIDE DEF c
  <2>4. CASE CountTurn(doc, s, k, c)
    <3>1. PICK f \in Known[at] \cap Counts :
             /\ t.of = Key[f]
             /\ s.token[k + 2].is = "integer" /\ s.token[k + 2].of = doc.expected[f]
             /\ doc.expected[f] <= Holds(f)
             /\ Turn(s, k + 2, at, 0, fields \cup {f}, info_start, info_end)
      BY <2>3, <2>4 DEF CountTurn, IsKey
    <3>2. Turning(Key[f], p)
      BY <2>1, <3>1
    <3>3. QED
      BY <1>1, <1>2, <1>3, <2>2, <3>1, <3>2, FollowCount
  <2>5. CASE TextTurn(doc, s, k, c)
    <3>1. PICK f \in Known[at] \cap (Texts \cup Rows) :
             /\ t.of = Key[f] /\ (f \in Rows => f \notin fields)
             /\ s.token[k + 2].is = "string" /\ ValueOf(f, s.token[k + 2].of) = doc.expected[f]
             /\ Turn(s, k + 2, at, 0, fields \cup {f}, info_start, info_end)
      BY <2>3, <2>5 DEF TextTurn, IsKey
    <3>2. Turning(Key[f], p)
      BY <2>1, <3>1
    <3>3. QED
      BY <1>1, <1>2, <1>3, <2>2, <3>1, <3>2, FollowText
  <2>6. CASE InfoTurn(s, k, c)
    <3>1. /\ t.of = Key["info"] /\ at = "outer" /\ s.token[k + 2].is = "open"
          /\ Turn(s, k + 2, "info", 0, fields, p, info_end)
      BY <1>3, <2>3, <2>6 DEF InfoTurn, IsKey
    <3>2. Turning(Key["info"], p)
      BY <2>1, <3>1
    <3>3. QED
      BY <1>1, <1>2, <1>3, <2>2, <3>1, <3>2, FollowInfo
  <2>7. CASE OtherTurn(s, k, c)
    <3>1. /\ \A f \in Known[at] : key # Key[f]
          /\ Turn(s, k + 1, at, 1, fields, info_start, info_end)
      BY <2>1, <2>3, <2>7 DEF OtherTurn
    <3>2. QED
      BY <1>3, <2>2, <3>1, FollowOther
  <2>8. QED
    BY <2>2, <2>4, <2>5, <2>6, <2>7 DEF c
<1>6. QED
  BY <1>4, <1>5

LEMMA NextKinds ==
    ASSUME Next
    PROVE  /\ at \in Dictionaries
           /\ \/ EndOfDictionary \/ BadKey \/ Skip
              \/ \E key, p : Entry(key, p) /\ Turning(key, p)
<1>1. CASE EndOfDictionary \/ BadKey \/ Skip
  BY <1>1 DEF EndOfDictionary, BadKey, Skip, InLoop
<1>2. CASE ~ (EndOfDictionary \/ BadKey \/ Skip)
  <2> DEFINE key == read_string(pos).value
             p == read_string(pos).next
  <2>1. /\ InLoop /\ More /\ IsString(pos)
        /\ \/ \E f \in Known[at] : IntegerEntry(f, key, p) \/ StringEntry(f, key, p)
           \/ InfoEntry(key, p)
           \/ OtherEntry(key, p)
    BY <1>2 DEF Next
  <2>2. Entry(key, p) /\ Turning(key, p)
    BY <2>1 DEF Entry, Turning
  <2>3. QED
    BY <2>1, <2>2 DEF InLoop
<1>3. QED
  BY <1>1, <1>2

(* Astray, the parser does not find back to a loop.                        *)
LEMMA StrayPast ==
    ASSUME NEW s, Written(s), TypeInv, Cut, Honest(doc, result), pos >= Size, Next
    PROVE  Follows(s)'
<1>1. /\ data \in Seq(Byte) /\ Size \in Nat /\ pos \in Nat /\ nest \in Nat /\ pos + 1 \in Nat
  BY BencodeAssumption DEF TypeInv, Size
<1>2. ~ IsString(pos) /\ ~ Found(E, pos + 1) /\ ~ More
  BY <1>1, NotPast DEF More
<1>3. EndOfDictionary \/ Skip
  BY <1>2, NextKinds DEF BadKey, Entry
<1>4. CASE EndOfDictionary
  <2>1. UNCHANGED <<doc, data>> /\ result' = result /\ pos' \in {pos, pos + 1}
    BY <1>4 DEF EndOfDictionary, InLoop, Dictionaries
  <2>2. pos' >= Size
    BY <1>1, <2>1
  <2>3. QED
    BY <2>1, <2>2, Strays
<1>5. CASE Skip
  <2>1. UNCHANGED <<doc, data>> /\ result' = result
    BY <1>5 DEF Skip
  <2>2. PICK c \in ByteAt(pos) :
            SkipEnd(c) \/ SkipInteger(c) \/ SkipString(c) \/ SkipInto(c) \/ SkipNothing(c)
    BY <1>5 DEF Skip
  <2>3. \/ at' \in Ended
        \/ pos' \in {pos, pos + 1}
        \/ pos' = 0 /\ nest' # 1
    <3>1. SkipEnd(c) => pos' = pos + 1
      BY DEF SkipEnd
    <3>2. SkipInteger(c) => pos' = 0 /\ nest' # 1
      BY <1>1, <1>2 DEF SkipInteger, Returned
    <3>3. SkipString(c) => at' \in Ended
      BY <1>2 DEF SkipString, Ended
    <3>4. SkipInto(c) => pos' = pos + 1 \/ at' \in Ended
      BY DEF SkipInto, Ended
    <3>5. SkipNothing(c) => pos' = pos
      BY DEF SkipNothing
    <3>6. QED
      BY <2>2, <3>1, <3>2, <3>3, <3>4, <3>5
  <2>4. \/ at' \in Ended
        \/ pos' >= Size
        \/ pos' = 0 /\ nest' # 1
    BY <1>1, <2>3
  <2>5. QED
    BY <2>1, <2>4, Strays
<1>6. QED
  BY <1>3, <1>4, <1>5

LEMMA StrayStart ==
    ASSUME NEW s, Written(s), TypeInv, Cut, Honest(doc, result),
           pos = 0, pos < Size, nest # 1, Next
    PROVE  Follows(s)'
<1>1. /\ data \in Seq(Byte) /\ Size \in Nat /\ nest \in Nat
  BY BencodeAssumption DEF TypeInv, Size
<1>2. data[1] = D /\ data[pos + 1] = D
  <2>1. doc.data[1] = D /\ PartOf(doc.data)
    BY DEF Written, IsScript, Laid
  <2>2. 1 \in 1 .. Size /\ pos + 1 = 1
    BY <1>1
  <2>3. QED
    BY <1>1, <2>1, <2>2, PartThere
<1>3. More
  BY <1>1, <1>2 DEF More, D, E
<1>4. ~ IsString(pos)
  <2> SUFFICES ASSUME Found(Colon, pos)
               PROVE  ~ Numeric(Bytes(pos, Find(Colon, pos)))
    BY DEF IsString
  <2> DEFINE c == Find(Colon, pos)
             b == Bytes(pos, c)
  <2>1. pos \in Nat /\ c \in pos .. Size - 1
    BY <1>1, FindFirst
  <2>2. c \in Nat /\ c <= Size /\ pos <= c
    BY <1>1, <2>1
  <2> HIDE DEF c
  <2>3. b \in Seq(Byte) /\ Len(b) = c - pos /\ \A i \in 1 .. Len(b) : b[i] = data[pos + i]
    BY <1>1, <2>1, <2>2, BytesThere
  <2>4. data[c + 1] = Colon /\ D # Colon
    BY <1>1, <2>1, FindFirst DEF D, Colon, c
  <2>5. c # pos
    BY <1>2, <2>4
  <2> HIDE DEF b
  <2>6. 1 \in 1 .. Len(b) /\ Len(b) \in Nat
    BY <2>1, <2>2, <2>3, <2>5
  <2>7. b[1] = D
    BY <1>2, <2>3, <2>6
  <2>8. D \notin Digit \cup Space \cup {Plus, Minus}
    BY DEF D, Digit, Space, Plus, Minus
  <2>9. QED
    BY <2>6, <2>7, <2>8, NoNumber DEF b, c
<1>5. BadKey \/ Skip
  BY <1>3, <1>4, NextKinds DEF EndOfDictionary, Entry
<1>6. CASE BadKey
  BY <1>6, Strays DEF BadKey, Throw, Ended
<1>7. CASE Skip
  <2>1. UNCHANGED <<doc, data>> /\ result' = result /\ nest >= 2
    BY <1>1, <1>7 DEF Skip
  <2>2. ByteAt(pos) = {D}
    BY <1>1, <1>2 DEF ByteAt
  <2>3. SkipInto(D)
    BY <1>7, <2>2 DEF Skip, SkipEnd, SkipInteger, SkipString, SkipNothing, D, E, I, Digit
  <2>4. at' \in Ended \/ (pos' = 1 /\ nest' = nest + 1)
    BY <2>3 DEF SkipInto, Ended
  <2>5. 0 \in 0 .. s.last - 1 /\ s.end[0] = 1 /\ s.depth[0] = 1
    <3>1. 0 \in DOMAIN s.turn
      BY DEF Written, IsScript, Turns, Turn
    <3>2. QED
      BY <1>1, <3>1, TurnHere DEF Written, IsScript, Laid, Nested
  <2>6. \/ at' \in Ended
        \/ 0 \in 0 .. s.last - 1 /\ pos' = s.end[0] /\ nest' >= 2 + s.depth[0]
    BY <1>1, <2>1, <2>4, <2>5
  <2>7. QED
    BY <2>1, <2>6, Strays
<1>8. QED
  BY <1>5, <1>6, <1>7

LEMMA StrayDeep ==
    ASSUME NEW s, Written(s), TypeInv, Cut, Honest(doc, result),
           NEW k \in 0 .. s.last - 1, pos = s.end[k], pos < Size, nest >= 2 + s.depth[k], Next
    PROVE  Follows(s)'
<1>1. /\ data \in Seq(Byte) /\ Size \in Nat /\ nest \in Nat /\ s.last \in Nat
      /\ s.depth[k] \in Nat \ {0} /\ nest > 2
  <2>1. s.last \in Nat /\ s.depth[k] \in Nat \ {0}
    BY DEF Written, IsScript, Laid, Nested
  <2>2. data \in Seq(Byte) /\ Size \in Nat /\ nest \in Nat
    BY BencodeAssumption DEF TypeInv, Size
  <2>3. QED
    BY <2>1, <2>2
<1>2. Skip
  <2>1. ~ InLoop
    BY <1>1 DEF InLoop
  <2>2. QED
    BY <2>1, NextKinds DEF EndOfDictionary, BadKey, Entry
<1> DEFINE t == s.token[k + 1]
<1>3. /\ UNCHANGED <<doc, data>> /\ result' = result
      /\ \/ at' \in Ended
         \/ pos' = 0 /\ nest' = Returned
         \/ pos' = s.end[k + 1] /\ nest' = After(t, nest)
  <2>1. /\ UNCHANGED <<doc, data, result, info_start, info_end>>
        /\ \/ at' = "threw" /\ Cut
           \/ at' = "overflow" /\ t.is = "open" /\ ~ (nest < MaxNest)
           \/ pos' = 0 /\ nest' = Returned /\ Cut
           \/ at' = at /\ pos' = s.end[k + 1] /\ nest' = After(t, nest)
    BY <1>1, <1>2, SkipToken
  <2>2. QED
    BY <2>1 DEF Ended
<1>4. CASE at' \in Ended
  BY <1>3, <1>4, Strays
<1>5. CASE pos' = 0 /\ nest' = Returned
  <2>1. nest' # 1
    BY <1>1, <1>5 DEF Returned
  <2>2. QED
    BY <1>3, <1>5, <2>1, Strays
<1>6. CASE pos' = s.end[k + 1] /\ nest' = After(t, nest)
  <2>1. CASE k + 1 = s.last
    <3>1. pos' = Len(doc.data)
      BY <1>6, <2>1 DEF Written, IsScript, Laid
    <3>2. pos' >= Size
      BY <1>1, <3>1, PartThere DEF Written, Cut
    <3>3. QED
      BY <1>3, <3>2, Strays
  <2>2. CASE k + 1 # s.last
    <3>1. k + 1 \in 0 .. s.last - 1
      BY <1>1, <2>2
    <3>2. s.depth[k + 1] = CASE t.is = "open" -> s.depth[k] + 1
                             [] t.is = "close" -> s.depth[k] - 1
                             [] OTHER -> s.depth[k]
      BY DEF Written, IsScript, Nested
    <3> HIDE DEF t
    <3>3. nest' >= 2 + s.depth[k + 1]
      <4>1. CASE t.is = "open"
        <5>1. s.depth[k + 1] = s.depth[k] + 1 /\ nest' = nest + 1
          BY <1>6, <3>2, <4>1 DEF After
        <5>2. QED
          BY <1>1, <5>1
      <4>2. CASE t.is = "close"
        <5>1. s.depth[k + 1] = s.depth[k] - 1 /\ nest' = IF nest = 2 THEN 0 ELSE nest - 1
          BY <1>6, <3>2, <4>2 DEF After
        <5>2. QED
          BY <1>1, <5>1
      <4>3. CASE t.is # "open" /\ t.is # "close"
        <5>1. s.depth[k + 1] = s.depth[k] /\ nest' = IF nest = 1 THEN 0 ELSE nest
          BY <1>6, <3>2, <4>3 DEF After
        <5>2. QED
          BY <1>1, <5>1
      <4>4. QED
        BY <4>1, <4>2, <4>3
    <3>4. QED
      BY <1>3, <1>6, <3>1, <3>3, Strays
  <2>3. QED
    BY <2>1, <2>2
<1>7. QED
  BY <1>3, <1>4, <1>5, <1>6

LEMMA FollowAstray ==
    ASSUME NEW s, Written(s), TypeInv, Astray(s), Next
    PROVE  Follows(s)'
<1>1. Cut /\ Honest(doc, result) /\ Lost(s)
  BY DEF Astray
<1>2. at \notin Ended
  BY NextKinds DEF Dictionaries, Ended
<1>3. CASE pos >= Size
  BY <1>1, <1>3, StrayPast
<1>4. CASE ~ (pos >= Size)
  <2>1. pos < Size
    BY <1>4 DEF TypeInv, Size
  <2>2. CASE pos = 0 /\ nest # 1
    BY <1>1, <2>1, <2>2, StrayStart
  <2>3. ASSUME NEW k \in 0 .. s.last - 1, pos = s.end[k], nest >= 2 + s.depth[k]
        PROVE  Follows(s)'
    BY <1>1, <2>1, <2>3, StrayDeep
  <2>4. QED
    BY <1>1, <1>2, <1>4, <2>2, <2>3 DEF Lost
<1>5. QED
  BY <1>3, <1>4

LEMMA FollowNext ==
    ASSUME NEW s, TypeInv, Follows(s), [Next]_vars
    PROVE  Follows(s)'
<1>1. CASE UNCHANGED vars
  BY <1>1 DEF vars, Follows, Written, IsScript, Expects, PartOf, Size, AtTurn, Read, InfoRaw, Bytes,
              Astray, Cut, Honest, Lost
<1>2. CASE Next
  <2>1. Written(s)
    BY DEF Follows
  <2>2. ASSUME NEW k, AtTurn(s, k)
        PROVE  Follows(s)'
    <3>1. CASE EndOfDictionary
      BY <2>1, <2>2, <3>1, FollowEnd
    <3>2. CASE BadKey
      BY <2>1, <2>2, <3>2, FollowBadKey
    <3>3. CASE Skip
      BY <2>1, <2>2, <3>3, FollowSkip
    <3>4. ASSUME NEW key, NEW p, Entry(key, p), Turning(key, p)
          PROVE  Follows(s)'
      BY <2>1, <2>2, <3>4, FollowEntry
    <3>5. QED
      BY <1>2, <3>1, <3>2, <3>3, <3>4, NextKinds
  <2>3. CASE Read
    BY <1>2, <2>3, NextKinds DEF Read, Dictionaries
  <2>4. CASE Astray(s)
    BY <1>2, <2>1, <2>4, FollowAstray
  <2>5. QED
    BY <2>2, <2>3, <2>4 DEF Follows
<1>3. QED
  BY <1>1, <1>2

LEMMA FollowInit ==
    ASSUME NEW s, Init, IsScript(doc, s), Expects(doc)
    PROVE  Follows(s)
<1>1. TypeInv
  BY TypeInit
<1>2. PICK n \in 0 .. Len(doc.data) : data = SubSeq(doc.data, 1, n)
  BY DEF Init
<1>3. doc.data \in Seq(Byte)
  BY BencodeAssumption DEF Init
<1>4. PartOf(doc.data)
  <2>1. n \in Nat /\ n <= Len(doc.data)
    BY <1>3
  <2>2. Len(data) = n
    BY <1>2, <1>3, <2>1
  <2>3. QED
    BY <1>2, <1>3, <2>1, <2>2 DEF PartOf, Size
<1>5. Written(s)
  BY <1>4 DEF Written
<1>6. /\ Turn(s, 0, doc.kind, 0, {}, 0, 0) /\ 0 \in DOMAIN s.turn
      /\ s.end[0] = 1
  BY DEF IsScript, Turns, Turn, Laid
<1>7. Turn(s, 0, at, nest, {}, info_start, info_end) /\ pos = 1
  BY <1>6 DEF Init
<1>8. result = ReadOf(doc, {})
  <2>1. result = Nothing
    BY DEF Init
  <2>2. \A f \in Fields : f \notin {}
    OBVIOUS
  <2>3. ReadOf(doc, {}) = [f \in Fields |-> Nothing[f]]
    BY <2>2 DEF ReadOf
  <2>4. QED
    BY <2>1, <2>3, NothingThere
<1>9. Size \in Nat /\ (1 >= Size => Cut)
  BY <1>1, <1>5, <1>6, TurnHere DEF TypeInv
<1>10. CASE 1 < Size
  <2>1. AtTurn(s, 0)
    BY <1>6, <1>7, <1>8, <1>10 DEF AtTurn
  <2>2. QED
    BY <1>5, <2>1 DEF Follows
<1>11. CASE ~ (1 < Size)
  <2>1. Cut /\ pos >= Size
    BY <1>7, <1>9, <1>11
  <2>2. Honest(doc, result)
    BY <1>8, ReadHonest
  <2>3. QED
    BY <1>5, <2>1, <2>2 DEF Follows, Astray, Lost
<1>12. QED
  BY <1>10, <1>11

-----------------------------------------------------------------------------
(* Theorems about every set of well-formed documents.                      *)

Script == CHOOSE s : IsScript(doc, s)

ReadInv == TypeInv /\ (doc \in Documents => Follows(Script))

LEMMA ReadInvAlways ==
    ASSUME \A d \in Documents : WellFormed(d)
    PROVE  Spec => []ReadInv
<1>1. ASSUME Init
      PROVE  ReadInv
  <2>1. doc \in Documents => Expects(doc) /\ IsScript(doc, Script)
    BY DEF WellFormed, Script
  <2>2. QED
    BY <1>1, <2>1, TypeInit, FollowInit DEF ReadInv
<1>2. ASSUME ReadInv, [Next]_vars
      PROVE  ReadInv'
  <2>1. TypeInv'
    BY <1>2, TypeNext DEF ReadInv
  <2>2. doc' = doc
    BY <1>2 DEF Next, vars, EndOfDictionary, BadKey, Skip, Throw,
          IntegerEntry, StringEntry, InfoEntry, OtherEntry
  <2>3. Script' = Script
    BY <2>2 DEF Script
  <2>4. PICK s : s = Script
    OBVIOUS
  <2>5. doc \in Documents => Follows(s)'
    BY <1>2, <2>4, FollowNext DEF ReadInv
  <2>6. QED
    BY <2>1, <2>2, <2>3, <2>4, <2>5 DEF ReadInv
<1>3. QED
  BY <1>1, <1>2, PTL DEF Spec

LEMMA ReadInvSays ==
    ASSUME ReadInv
    PROVE  WholeIsRead /\ NothingInvented
<1> SUFFICES ASSUME doc \in Documents
             PROVE  WholeIsRead /\ NothingInvented
  BY DEF WholeIsRead, NothingInvented
<1> DEFINE s == Script
<1>1. TypeInv /\ Follows(s)
  BY DEF ReadInv
<1> HIDE DEF s
<1>2. Written(s)
  BY <1>1 DEF Follows
<1>3. ASSUME NEW k, AtTurn(s, k)
      PROVE  at \notin Ended /\ Honest(doc, result)
  BY <1>1, <1>2, <1>3, AtTurnHere DEF Dictionaries, Ended
<1>4. Honest(doc, result)
  <2>1. CASE Read
    <3>1. ReadOf(doc, Fields) = [f \in Fields |-> doc.expected[f]]
      BY DEF ReadOf
    <3>2. result = ReadOf(doc, Fields)
      BY <1>2, <2>1, <3>1 DEF Read, Written, Expects
    <3>3. QED
      BY <1>2, <3>2, ReadHonest DEF Written
  <2>2. CASE Astray(s)
    BY <2>2 DEF Astray
  <2>3. QED
    BY <1>1, <1>3, <2>1, <2>2 DEF Follows
<1>5. ASSUME Whole, at \in Ended
      PROVE  Read
  <2>1. ~ Cut
    BY <1>1, <1>5 DEF Cut, Size, Whole, TypeInv
  <2>2. QED
    BY <1>1, <1>3, <1>5, <2>1 DEF Follows, Astray
<1>6. WholeIsRead
  BY <1>5 DEF WholeIsRead, Read
<1>7. NothingInvented
  BY <1>4 DEF Honest, NothingInvented
<1>8. QED
  BY <1>6, <1>7

(* A well-formed document that arrives whole is read to its end, with      *)
(* every field as it was written and info_hash taken over the bytes of the *)
(* info dictionary, whatever unknown entries come between.  Well formed is *)
(* one whose numbers have no sign and fit their fields (the intervals an   *)
(* int, others an int64_t), and that gives hashes and peers at most once;  *)
(* of others the parser keeps something else than they say.                *)
THEOREM WholeIsReadAlways ==
    ASSUME \A d \in Documents : WellFormed(d)
    PROVE  Spec => []WholeIsRead
<1>1. ReadInv => WholeIsRead
  BY ReadInvSays
<1>2. QED
  BY <1>1, ReadInvAlways, PTL

(* However a well-formed document (again: numbers that fit, no signs, and  *)
(* hashes and peers at most once) is cut, no number is misread and no      *)
(* hash, peer or name that it does not begin with is made up.              *)
THEOREM NothingInventedAlways ==
    ASSUME \A d \in Documents : WellFormed(d)
    PROVE  Spec => []NothingInvented
<1>1. ReadInv => NothingInvented
  BY ReadInvSays
<1>2. QED
  BY <1>1, ReadInvAlways, PTL

-----------------------------------------------------------------------------
(* Documents that this program writes.                                     *)

(* Concatenation: the recursion of FlattenSeq.                             *)
Joining(f, s, n) == f = [i \in 1 .. n |-> IF i = 1 THEN s[i] ELSE f[i - 1] \o s[i]]

LEMMA JoiningExists ==
    ASSUME NEW s
    PROVE  \A n \in Nat : \E f : Joining(f, s, n)
<1> DEFINE S == {n \in Nat : \E f : Joining(f, s, n)}
<1>1. 0 \in S
  <2>1. Joining([i \in 1 .. 0 |-> 0], s, 0)
    BY DEF Joining
  <2>2. QED
    BY <2>1
<1>2. ASSUME NEW n \in Nat, n \in S
      PROVE  n + 1 \in S
  <2>1. PICK f : Joining(f, s, n)
    BY <1>2
  <2> DEFINE h == [i \in 1 .. n + 1 |->
                      IF i # n + 1 THEN f[i] ELSE IF i = 1 THEN s[i] ELSE f[n] \o s[i]]
  <2>2. \A i \in 1 .. n + 1 : h[i] = IF i = 1 THEN s[i] ELSE h[i - 1] \o s[i]
    <3> SUFFICES ASSUME NEW i \in 1 .. n + 1
                 PROVE  h[i] = IF i = 1 THEN s[i] ELSE h[i - 1] \o s[i]
      OBVIOUS
    <3>1. i # 1 => i - 1 \in 1 .. n + 1 /\ i - 1 # n + 1
      OBVIOUS
    <3>2. i # 1 => h[i - 1] = f[i - 1]
      BY <3>1
    <3>3. CASE i = n + 1
      BY <3>2, <3>3
    <3>4. CASE i # n + 1
      <4>1. i \in 1 .. n
        BY <3>4
      <4>2. f[i] = IF i = 1 THEN s[i] ELSE f[i - 1] \o s[i]
        BY <2>1, <4>1 DEF Joining
      <4>3. QED
        BY <3>2, <3>4, <4>2
    <3>5. QED
      BY <3>3, <3>4
  <2>3. h = [i \in 1 .. n + 1 |-> h[i]]
    OBVIOUS
  <2> HIDE DEF h
  <2>4. Joining(h, s, n + 1)
    BY <2>2, <2>3 DEF Joining
  <2>5. QED
    BY <2>4
<1>3. QED
  <2> HIDE DEF S
  <2>1. \A n \in Nat : n \in S
    BY <1>1, <1>2, Induction
  <2>2. QED
    BY <2>1 DEF S

LEMMA Flattened ==
    ASSUME NEW s, Len(s) \in Nat \ {0}
    PROVE  \E f : Joining(f, s, Len(s)) /\ FlattenSeq(s) = f[Len(s)]
<1> DEFINE f == CHOOSE f : Joining(f, s, Len(s))
<1>1. Joining(f, s, Len(s))
  BY JoiningExists
<1>2. FlattenSeq(s) = f[Len(s)]
  BY DEF FlattenSeq, Joining
<1>3. QED
  BY <1>1, <1>2

LEMMA Slice ==
    ASSUME NEW w \in Seq(Byte), NEW b \in Nat, NEW c \in Nat, b <= c, c <= Len(w)
    PROVE  /\ SubSeq(w, b + 1, c) \in Seq(Byte) /\ Len(SubSeq(w, b + 1, c)) = c - b
           /\ \A i \in 1 .. c - b : SubSeq(w, b + 1, c)[i] = w[b + i]
OBVIOUS

LEMMA Joined ==
    ASSUME NEW x \in Seq(Byte), NEW y \in Seq(Byte)
    PROVE  /\ x \o y \in Seq(Byte) /\ Len(x \o y) = Len(x) + Len(y)
           /\ \A i \in 1 .. Len(x) : (x \o y)[i] = x[i]
           /\ \A i \in 1 .. Len(y) : (x \o y)[Len(x) + i] = y[i]
OBVIOUS

(* A slice of the first part of a concatenation, and its second part.      *)
LEMMA SliceOfJoined ==
    ASSUME NEW x \in Seq(Byte), NEW y \in Seq(Byte)
    PROVE  /\ \A b, c \in Nat : b <= c /\ c <= Len(x) =>
                 SubSeq(x \o y, b + 1, c) = SubSeq(x, b + 1, c)
           /\ SubSeq(x \o y, Len(x) + 1, Len(x) + Len(y)) = y
<1> DEFINE w == x \o y
           a == Len(x)
           l == Len(y)
<1>1. /\ w \in Seq(Byte) /\ Len(w) = a + l
      /\ \A i \in 1 .. a : w[i] = x[i]
      /\ \A i \in 1 .. l : w[a + i] = y[i]
  BY Joined
<1>2. a \in Nat /\ l \in Nat
  OBVIOUS
<1> HIDE DEF w
<1>3. ASSUME NEW b \in Nat, NEW c \in Nat, b <= c, c <= a
      PROVE  SubSeq(w, b + 1, c) = SubSeq(x, b + 1, c)
  <2> DEFINE u == SubSeq(w, b + 1, c)
             v == SubSeq(x, b + 1, c)
  <2>1. c <= Len(w)
    BY <1>1, <1>2, <1>3
  <2>2. u \in Seq(Byte) /\ Len(u) = c - b /\ \A i \in 1 .. c - b : u[i] = w[b + i]
    BY <1>1, <1>3, <2>1, Slice
  <2>3. v \in Seq(Byte) /\ Len(v) = c - b /\ \A i \in 1 .. c - b : v[i] = x[b + i]
    BY <1>3, Slice
  <2>4. \A i \in 1 .. c - b : w[b + i] = x[b + i]
    BY <1>1, <1>2, <1>3
  <2> HIDE DEF u, v
  <2>5. u = v
    BY <2>2, <2>3, <2>4, SeqEqual
  <2>6. QED
    BY <2>5 DEF u, v
<1>4. SubSeq(w, a + 1, a + l) = y
  <2> DEFINE u == SubSeq(w, a + 1, a + l)
  <2>1. a <= a + l /\ a + l <= Len(w) /\ a + l \in Nat /\ (a + l) - a = l
    BY <1>1, <1>2
  <2>2. u \in Seq(Byte) /\ Len(u) = l /\ \A i \in 1 .. l : u[i] = w[a + i]
    BY <1>1, <1>2, <2>1, Slice
  <2> HIDE DEF u
  <2>3. \A i \in 1 .. l : u[i] = y[i]
    BY <1>1, <2>2
  <2>4. u = y
    BY <2>2, <2>3, SeqEqual
  <2>5. QED
    BY <2>4 DEF u
<1>5. QED
  BY <1>3, <1>4 DEF w

LEMMA PartsJoined ==
    ASSUME NEW s \in Seq(Seq(Byte)), NEW l \in Nat \ {0},
           \A k \in 1 .. Len(s) : Len(s[k]) = l
    PROVE  /\ FlattenSeq(s) \in Seq(Byte) /\ Len(FlattenSeq(s)) = Len(s) * l
           /\ PartsOf(FlattenSeq(s), l) = s
<1> DEFINE n == Len(s)
<1>1. CASE n = 0
  <2>1. s = <<>> /\ FlattenSeq(s) = <<>>
    BY <1>1 DEF FlattenSeq
  <2>2. 0 \div l = 0 /\ 0 * l = 0
    OBVIOUS
  <2>3. Len(<<>>) \div l = 0 /\ Len(<<>>) = 0 /\ <<>> \in Seq(Byte)
    BY <2>2
  <2>4. PartsOf(<<>>, l) = <<>>
    BY <2>3 DEF PartsOf
  <2>5. Len(<<>>) = Len(s) * l
    BY <1>1, <2>2, <2>3
  <2>6. QED
    BY <2>1, <2>3, <2>4, <2>5
<1>2. CASE n # 0
  <2>1. n \in Nat \ {0}
    BY <1>2
  <2>2. PICK f : Joining(f, s, n) /\ FlattenSeq(s) = f[n]
    BY <2>1, Flattened
  <2> DEFINE Good(m) == /\ f[m] \in Seq(Byte) /\ Len(f[m]) = m * l
                        /\ \A k \in 1 .. m : SubSeq(f[m], (k - 1) * l + 1, k * l) = s[k]
             S == {m \in Nat : m \in 1 .. n => Good(m)}
  <2>3. 0 \in S
    OBVIOUS
  <2>4. ASSUME NEW m \in Nat, m \in S
        PROVE  m + 1 \in S
    <3> SUFFICES ASSUME m + 1 \in 1 .. n
                 PROVE  Good(m + 1)
      OBVIOUS
    <3> DEFINE y == s[m + 1]
    <3>1. y \in Seq(Byte) /\ Len(y) = l
      OBVIOUS
    <3>2. CASE m = 0
      <4>1. f[1] = y
        BY <2>2, <3>2 DEF Joining
      <4>2. SubSeq(y, 1, l) = y
        BY <3>1, SubSeqFull
      <4>3. (1 - 1) * l + 1 = 1 /\ 1 * l = l
        OBVIOUS
      <4>4. \A k \in 1 .. 1 : k = 1
        OBVIOUS
      <4> HIDE DEF y
      <4>5. Good(1)
        BY <3>1, <3>2, <4>1, <4>2, <4>3, <4>4 DEF y
      <4>6. QED
        BY <3>2, <4>5
    <3>3. CASE m # 0
      <4> DEFINE x == f[m]
                 w == x \o y
      <4>1. m \in 1 .. n
        BY <3>3
      <4>2. f[m + 1] = w
        <5>1. m + 1 # 1 /\ (m + 1) - 1 = m
          BY <3>3
        <5>2. QED
          BY <2>2, <5>1 DEF Joining
      <4>3. /\ x \in Seq(Byte) /\ Len(x) = m * l
            /\ \A k \in 1 .. m : SubSeq(x, (k - 1) * l + 1, k * l) = s[k]
        BY <2>4, <4>1
      <4> DEFINE a == m * l
      <4>4. a \in Nat /\ (m + 1) * l = a + l /\ ((m + 1) - 1) * l = a
        OBVIOUS
      <4>5. \A k \in 1 .. m : (k - 1) * l \in Nat /\ k * l \in Nat /\ k * l = (k - 1) * l + l /\ k * l <= a
        OBVIOUS
      <4> HIDE DEF a, x, y
      <4>6. Len(x) = a
        BY <4>3 DEF a
      <4>7. w \in Seq(Byte) /\ Len(w) = a + l
        BY <3>1, <4>3, <4>6, Joined
      <4>8. SubSeq(w, a + 1, a + l) = y
        BY <3>1, <4>3, <4>6, SliceOfJoined
      <4>9. ASSUME NEW k \in 1 .. m
            PROVE  SubSeq(w, (k - 1) * l + 1, k * l) = s[k]
        <5> DEFINE b == (k - 1) * l
                   c == k * l
        <5>1. b \in Nat /\ c \in Nat /\ b <= c /\ c <= a
          BY <4>5
        <5>2. SubSeq(x, b + 1, c) = s[k]
          BY <4>3
        <5> HIDE DEF b, c
        <5>3. SubSeq(w, b + 1, c) = SubSeq(x, b + 1, c)
          BY <3>1, <4>3, <4>6, <5>1, SliceOfJoined
        <5>4. QED
          BY <5>2, <5>3 DEF b, c
      <4> HIDE DEF w
      <4>10. \A k \in 1 .. m + 1 : k \in 1 .. m \/ k = m + 1
        OBVIOUS
      <4>11. \A k \in 1 .. m + 1 : SubSeq(w, (k - 1) * l + 1, k * l) = s[k]
        <5> SUFFICES ASSUME NEW k \in 1 .. m + 1
                     PROVE  SubSeq(w, (k - 1) * l + 1, k * l) = s[k]
          OBVIOUS
        <5>1. CASE k \in 1 .. m
          BY <4>9, <5>1
        <5>2. CASE k = m + 1
          BY <4>4, <4>8, <5>2 DEF y
        <5>3. QED
          BY <4>10, <5>1, <5>2
      <4>12. QED
        BY <4>2, <4>4, <4>7, <4>11
    <3>4. QED
      BY <3>2, <3>3
  <2>5. Good(n)
    <3> HIDE DEF S
    <3>1. n \in S
      BY <2>1, <2>3, <2>4, Induction
    <3>2. QED
      BY <2>1, <3>1 DEF S
  <2>6. (n * l) \div l = n
    BY <2>1
  <2>7. PartsOf(f[n], l) = s
    <3>1. PartsOf(f[n], l) = [k \in 1 .. n |-> SubSeq(f[n], (k - 1) * l + 1, k * l)]
      BY <2>5, <2>6 DEF PartsOf
    <3>2. s = [k \in 1 .. n |-> s[k]]
      OBVIOUS
    <3>3. QED
      BY <2>5, <3>1, <3>2
  <2>8. QED
    BY <2>2, <2>5, <2>7
<1>3. QED
  BY <1>1, <1>2

-----------------------------------------------------------------------------
(* A document that is written token by token: before[k] is what is written *)
(* of it with k tokens.                                                    *)
IsWritten(before, token, n) ==
    /\ before[0] = <<D>>
    /\ \A k \in 0 .. n - 1 :
          /\ IsToken(token[k + 1])
          /\ before[k + 1] = before[k] \o TokenBytes(token[k + 1])

LEMMA StrBytes ==
    ASSUME NEW v \in Seq(Byte)
    PROVE  Str(v) \in Seq(Byte) /\ Len(Str(v)) > 0
<1> DEFINE g == Digits[Len(v)]
<1>1. g \in Seq(Byte)
  <2>1. Len(v) \in Nat
    OBVIOUS
  <2>2. g \in Seq(Digit) /\ Digit \subseteq Byte
    BY <2>1, DigitsSay DEF Digit, Byte
  <2>3. QED
    BY <2>2
<1> HIDE DEF g
<1>2. <<Colon>> \in Seq(Byte) /\ Len(<<Colon>>) = 1
  BY DEF Colon, Byte
<1>3. g \o <<Colon>> \in Seq(Byte) /\ Len(g \o <<Colon>>) = Len(g) + 1
  BY <1>1, <1>2, Joined
<1>4. g \o <<Colon>> \o v \in Seq(Byte) /\ Len(g \o <<Colon>> \o v) = Len(g) + 1 + Len(v)
  BY <1>3, Joined
<1>5. QED
  BY <1>1, <1>4 DEF Str, g

LEMMA NumBytes ==
    ASSUME NEW n \in Nat
    PROVE  Num(n) \in Seq(Byte) /\ Len(Num(n)) > 0
<1> DEFINE g == Digits[n]
<1>1. g \in Seq(Byte)
  <2>1. g \in Seq(Digit) /\ Digit \subseteq Byte
    BY DigitsSay DEF Digit, Byte
  <2>2. QED
    BY <2>1
<1> HIDE DEF g
<1>2. <<I>> \in Seq(Byte) /\ Len(<<I>>) = 1 /\ <<E>> \in Seq(Byte) /\ Len(<<E>>) = 1
  BY DEF I, E, Byte
<1>3. <<I>> \o g \in Seq(Byte) /\ Len(<<I>> \o g) = 1 + Len(g)
  BY <1>1, <1>2, Joined
<1>4. <<I>> \o g \o <<E>> \in Seq(Byte) /\ Len(<<I>> \o g \o <<E>>) = 1 + Len(g) + 1
  BY <1>2, <1>3, Joined
<1>5. QED
  BY <1>1, <1>4 DEF Num, g

LEMMA TokensAreBytes ==
    ASSUME NEW t, IsToken(t)
    PROVE  TokenBytes(t) \in Seq(Byte) /\ Len(TokenBytes(t)) > 0
<1>1. CASE t.is = "string" /\ t.of \in Seq(Byte)
  <2>1. TokenBytes(t) = Str(t.of)
    BY <1>1 DEF TokenBytes
  <2>2. QED
    BY <1>1, <2>1, StrBytes
<1>2. CASE t.is = "integer" /\ t.of \in Nat
  <2>1. TokenBytes(t) = Num(t.of)
    BY <1>2 DEF TokenBytes
  <2>2. QED
    BY <1>2, <2>1, NumBytes
<1>3. CASE t.is = "open" /\ t.of \in {L, D}
  <2>1. TokenBytes(t) = <<t.of>> /\ t.of \in Byte
    BY <1>3 DEF TokenBytes, L, D, Byte
  <2>2. QED
    BY <2>1
<1>4. CASE t.is = "close"
  <2>1. TokenBytes(t) = <<E>> /\ E \in Byte
    BY <1>4 DEF TokenBytes, E, Byte
  <2>2. QED
    BY <2>1
<1>5. QED
  BY <1>1, <1>2, <1>3, <1>4 DEF IsToken

LEMMA WrittenIsLaid ==
    ASSUME NEW n \in Nat, NEW before, NEW s,
           IsWritten(before, s.token, n),
           s.last = n, \A k \in 0 .. n : s.end[k] = Len(before[k])
    PROVE  Laid(before[n], s) /\ before[n] \in Seq(Byte)
<1> DEFINE b(k) == TokenBytes(s.token[k + 1])
           d == before[n]
<1>1. /\ before[0] = <<D>>
      /\ \A k \in 0 .. n - 1 :
            /\ b(k) \in Seq(Byte) /\ Len(b(k)) > 0
            /\ before[k + 1] = before[k] \o b(k)
  BY TokensAreBytes DEF IsWritten
<1> DEFINE Good(m) == /\ before[m] \in Seq(Byte) /\ Len(before[m]) > 0
                      /\ \A k \in 0 .. m :
                            before[k] \in Seq(Byte) /\ Begins(before[k], before[m])
           S == {m \in Nat : m \in 0 .. n => Good(m)}
<1> HIDE DEF b
<1>2. 0 \in S
  <2>1. before[0] \in Seq(Byte) /\ Len(before[0]) > 0
    BY <1>1 DEF D, Byte
  <2>2. \A k \in 0 .. 0 : k = 0
    OBVIOUS
  <2>3. Begins(before[0], before[0])
    BY <2>1 DEF Begins
  <2>4. QED
    BY <2>1, <2>2, <2>3
<1>3. ASSUME NEW m \in Nat, m \in S
      PROVE  m + 1 \in S
  <2> SUFFICES ASSUME m + 1 \in 0 .. n
               PROVE  Good(m + 1)
    OBVIOUS
  <2>1. m \in 0 .. n - 1 /\ m \in 0 .. n
    OBVIOUS
  <2>2. Good(m)
    BY <1>3, <2>1
  <2> DEFINE x == before[m]
             y == b(m)
             w == before[m + 1]
  <2>3. y \in Seq(Byte) /\ Len(y) > 0 /\ w = x \o y
    BY <1>1, <2>1
  <2> HIDE DEF x, y, w
  <2>4. x \in Seq(Byte) /\ Len(x) > 0
    BY <2>2 DEF x
  <2>5. w \in Seq(Byte) /\ Len(w) = Len(x) + Len(y) /\ \A i \in 1 .. Len(x) : w[i] = x[i]
    BY <2>3, <2>4, Joined
  <2>6. ASSUME NEW k \in 0 .. m
        PROVE  before[k] \in Seq(Byte) /\ Begins(before[k], w)
    <3>1. before[k] \in Seq(Byte) /\ Begins(before[k], x)
      BY <2>2 DEF x
    <3>2. Len(before[k]) <= Len(x) /\ \A i \in 1 .. Len(before[k]) : i \in 1 .. Len(x) /\ before[k][i] = x[i]
      BY <2>4, <3>1 DEF Begins
    <3>3. \A i \in 1 .. Len(before[k]) : before[k][i] = w[i]
      BY <2>5, <3>2
    <3>4. Len(before[k]) <= Len(w)
      BY <2>3, <2>4, <2>5, <3>1, <3>2
    <3>5. QED
      BY <3>1, <3>3, <3>4 DEF Begins
  <2>7. Begins(w, w)
    BY <2>5 DEF Begins
  <2>8. \A k \in 0 .. m + 1 : k \in 0 .. m \/ k = m + 1
    OBVIOUS
  <2>9. \A k \in 0 .. m + 1 : before[k] \in Seq(Byte) /\ Begins(before[k], w)
    BY <2>5, <2>6, <2>7, <2>8 DEF w
  <2>10. QED
    BY <2>3, <2>4, <2>5, <2>9 DEF w
<1>4. \A m \in 0 .. n : Good(m)
  <2> HIDE DEF S
  <2>1. \A m \in Nat : m \in S
    BY <1>2, <1>3, Induction
  <2>2. QED
    BY <2>1 DEF S
<1>5. d \in Seq(Byte) /\ Len(d) \in Nat
  BY <1>4
<1>6. ASSUME NEW k \in 0 .. n
      PROVE  /\ before[k] \in Seq(Byte) /\ Len(before[k]) > 0 /\ Len(before[k]) \in Nat
             /\ Len(before[k]) <= Len(d) /\ \A i \in 1 .. Len(before[k]) : d[i] = before[k][i]
  BY <1>4 DEF Begins
<1> HIDE DEF d
<1>7. ASSUME NEW k \in 0 .. n - 1
      PROVE  /\ Len(before[k + 1]) = Len(before[k]) + Len(b(k))
             /\ Lies(d, Len(before[k]), b(k))
             /\ Len(before[k]) < Len(d)
  <2> DEFINE x == before[k]
             y == b(k)
             w == before[k + 1]
  <2>1. k \in 0 .. n /\ k + 1 \in 0 .. n
    OBVIOUS
  <2>2. x \in Seq(Byte) /\ Len(x) \in Nat
    BY <1>6, <2>1
  <2>3. y \in Seq(Byte) /\ Len(y) > 0 /\ w = x \o y
    BY <1>1
  <2>4. Len(w) <= Len(d) /\ \A i \in 1 .. Len(w) : d[i] = w[i]
    BY <1>6, <2>1
  <2> HIDE DEF x, y, w
  <2>5. Len(w) = Len(x) + Len(y) /\ \A i \in 1 .. Len(y) : w[Len(x) + i] = y[i]
    BY <2>2, <2>3, Joined
  <2>6. \A i \in 1 .. Len(y) : Len(x) + i \in 1 .. Len(w)
    BY <2>2, <2>3, <2>5
  <2>7. Lies(d, Len(x), y)
    BY <2>4, <2>5, <2>6 DEF Lies
  <2>8. Len(x) < Len(d)
    BY <1>5, <2>2, <2>3, <2>4, <2>5
  <2>9. QED
    BY <2>5, <2>7, <2>8 DEF x, y, w
<1>8. d[1] = D /\ s.end[0] = 1 /\ s.end[n] = Len(d)
  <2>1. 0 \in 0 .. n /\ n \in 0 .. n /\ 1 \in 1 .. 1
    OBVIOUS
  <2>2. Len(before[0]) = 1 /\ before[0][1] = D
    BY <1>1
  <2>3. QED
    BY <1>6, <2>1, <2>2 DEF d
<1>9. \A k \in 0 .. n : s.end[k] \in Nat /\ (k < n => s.end[k] < Len(d))
  <2>1. \A k \in 0 .. n : k < n => k \in 0 .. n - 1
    OBVIOUS
  <2>2. QED
    BY <1>6, <1>7, <2>1
<1>10. \A k \in 0 .. n - 1 :
          /\ IsToken(s.token[k + 1])
          /\ Lies(d, s.end[k], b(k))
          /\ s.end[k + 1] = s.end[k] + Len(b(k))
  <2>1. \A k \in 0 .. n - 1 : k \in 0 .. n /\ k + 1 \in 0 .. n
    OBVIOUS
  <2>2. QED
    BY <1>7, <2>1 DEF IsWritten
<1>11. QED
  BY <1>5, <1>8, <1>9, <1>10 DEF Laid, b, d

-----------------------------------------------------------------------------
(* The tokens and their bytes.                                             *)
String(v) == [is |-> "string", of |-> v]
Integer(n) == [is |-> "integer", of |-> n]
Open == [is |-> "open", of |-> D]
Close == [is |-> "close", of |-> E]

LEMMA StringToken ==
    ASSUME NEW v \in Seq(Byte), Len(v) <= MaxInt
    PROVE  /\ IsToken(String(v)) /\ TokenBytes(String(v)) = Str(v)
           /\ String(v).is = "string" /\ String(v).of = v
BY DEF String, IsToken, TokenBytes

LEMMA IntegerToken ==
    ASSUME NEW n \in Nat
    PROVE  /\ IsToken(Integer(n)) /\ TokenBytes(Integer(n)) = Num(n)
           /\ Integer(n).is = "integer" /\ Integer(n).of = n
BY DEF Integer, IsToken, TokenBytes

LEMMA BracketToken ==
    /\ IsToken(Open) /\ TokenBytes(Open) = <<D>> /\ Open.is = "open"
    /\ IsToken(Close) /\ TokenBytes(Close) = <<E>> /\ Close.is = "close"
BY DEF Open, Close, IsToken, TokenBytes

LEMMA KeyBytes ==
    ASSUME NEW f \in Fields \cup {"info"}
    PROVE  Key[f] \in Seq(Byte) /\ Len(Key[f]) = 1
<1>1. f \in {"announce", "created_by", "info", "length", "name", "piece_length", "pieces",
            "complete", "incomplete", "interval", "mininterval", "peers"}
  BY DEF Fields, Counts, Texts, Rows
<1>2. /\ Key["announce"] = <<97>> /\ Key["created_by"] = <<99>> /\ Key["info"] = <<I>>
      /\ Key["length"] = <<L>> /\ Key["name"] = <<110>> /\ Key["piece_length"] = <<112>>
      /\ Key["pieces"] = <<115>> /\ Key["complete"] = <<111>> /\ Key["incomplete"] = <<116>>
      /\ Key["interval"] = <<118>> /\ Key["mininterval"] = <<109>> /\ Key["peers"] = <<E>>
  BY DEF Key
<1>3. \E b \in {97, 99, I, L, 110, 112, 115, 111, 116, 118, 109, E} : Key[f] = <<b>>
  BY <1>1, <1>2
<1>4. {97, 99, I, L, 110, 112, 115, 111, 116, 118, 109, E} \subseteq Byte
  BY DEF I, L, E, Byte
<1>5. QED
  BY <1>3, <1>4

-----------------------------------------------------------------------------
(* The response of the program's own tracker.                              *)
PeerBytes == <<127, 0, 0, 1, 225, 26>>

OwnPeer == [ip |-> <<127, 0, 0, 1>>, port |-> 57626]

OwnResponse(d) ==
    /\ d.kind = "response" /\ d.data = build_tracker_response
    /\ d.expected = [Nothing EXCEPT !.complete = 4, !.interval = 60, !.mininterval = 60,
                        !.peers = <<OwnPeer>>]

LEMMA OwnPeers ==
    /\ PeerBytes \in Seq(Byte) /\ Len(PeerBytes) = 6
    /\ ValueOf("peers", PeerBytes) = <<OwnPeer>>
    /\ <<OwnPeer>> \in Seq([ip : Seq(Byte), port : Nat])
<1>1. PeerBytes \in Seq(Byte) /\ Len(PeerBytes) = 6
  BY DEF PeerBytes, Byte
<1>2. PartsOf(PeerBytes, 6) = <<PeerBytes>>
  <2>1. SubSeq(PeerBytes, 1, 6) = PeerBytes
    BY <1>1, SubSeqFull
  <2>2. 6 \div 6 = 1 /\ (1 - 1) * 6 + 1 = 1 /\ 1 * 6 = 6 /\ \A k \in 1 .. 1 : k = 1
    OBVIOUS
  <2>3. PartsOf(PeerBytes, 6) = [k \in 1 .. 1 |-> SubSeq(PeerBytes, (k - 1) * 6 + 1, k * 6)]
    BY <1>1, <2>2 DEF PartsOf
  <2>4. [k \in 1 .. 1 |-> SubSeq(PeerBytes, (k - 1) * 6 + 1, k * 6)] = [k \in 1 .. 1 |-> PeerBytes]
    BY <2>1, <2>2
  <2>5. QED
    BY <2>3, <2>4
<1>3. Peer(PeerBytes) = OwnPeer
  <2> DEFINE ip == SubSeq(PeerBytes, 1, 4)
             own == <<127, 0, 0, 1>>
  <2>1. ip \in Seq(Byte) /\ Len(ip) = 4 /\ \A i \in 1 .. 4 : ip[i] = PeerBytes[i]
    BY <1>1
  <2>2. /\ PeerBytes[1] = 127 /\ PeerBytes[2] = 0 /\ PeerBytes[3] = 0
        /\ PeerBytes[4] = 1 /\ PeerBytes[5] = 225 /\ PeerBytes[6] = 26
    BY DEF PeerBytes
  <2> HIDE DEF ip
  <2>3. own \in Seq(Byte) /\ Len(own) = 4
    BY DEF Byte
  <2>4. \A i \in 1 .. 4 : ip[i] = own[i]
    <3>1. ip[1] = own[1] /\ ip[2] = own[2] /\ ip[3] = own[3] /\ ip[4] = own[4]
      BY <2>1, <2>2
    <3>2. \A i \in 1 .. 4 : i = 1 \/ i = 2 \/ i = 3 \/ i = 4
      OBVIOUS
    <3> HIDE DEF own
    <3>3. QED
      BY <3>1, <3>2
  <2>5. ip = own
    BY <2>1, <2>3, <2>4, SeqEqual
  <2>6. 256 * PeerBytes[5] + PeerBytes[6] = 57626
    BY <2>2
  <2>7. Peer(PeerBytes) = [ip |-> ip, port |-> 256 * PeerBytes[5] + PeerBytes[6]]
    BY DEF Peer, ip
  <2>8. QED
    BY <2>5, <2>6, <2>7 DEF OwnPeer
<1>4. ValueOf("peers", PeerBytes) = <<OwnPeer>>
  <2>1. ValueOf("peers", PeerBytes)
          = [k \in DOMAIN PartsOf(PeerBytes, 6) |-> Peer(PartsOf(PeerBytes, 6)[k])]
    BY DEF ValueOf
  <2>2. DOMAIN <<PeerBytes>> = 1 .. 1 /\ \A k \in 1 .. 1 : <<PeerBytes>>[k] = PeerBytes
    OBVIOUS
  <2>3. ValueOf("peers", PeerBytes) = [k \in 1 .. 1 |-> OwnPeer]
    BY <1>2, <1>3, <2>1, <2>2
  <2>4. QED
    BY <2>3
<1>5. OwnPeer \in [ip : Seq(Byte), port : Nat]
  <2>1. <<127, 0, 0, 1>> \in Seq(Byte)
    BY DEF Byte
  <2>2. QED
    BY <2>1 DEF OwnPeer
<1>6. QED
  BY <1>1, <1>4, <1>5

ResponseTokens ==
    << String(Key.complete), Integer(4), String(Key.incomplete), Integer(0),
       String(Key.interval), Integer(60), String(Key.mininterval), Integer(60),
       String(Key.peers), String(PeerBytes), Close >>

LEMMA ResponseWritten ==
    ASSUME MaxInt >= 6
    PROVE  \E before : /\ IsWritten(before, ResponseTokens, 11)
                       /\ before[11] = build_tracker_response
<1> DEFINE p0 == <<D>>
           p1 == p0 \o Str(Key.complete)
           p2 == p1 \o Num(4)
           p3 == p2 \o Str(Key.incomplete)
           p4 == p3 \o Num(0)
           p5 == p4 \o Str(Key.interval)
           p6 == p5 \o Num(60)
           p7 == p6 \o Str(Key.mininterval)
           p8 == p7 \o Num(60)
           p9 == p8 \o Str(Key.peers)
           p10 == p9 \o Str(PeerBytes)
           p11 == p10 \o <<E>>
           before == [k \in 0 .. 11 |->
                         <<p0, p1, p2, p3, p4, p5, p6, p7, p8, p9, p10, p11>>[k + 1]]
           token == ResponseTokens
<1>1. p11 = build_tracker_response
  BY DEF build_tracker_response, PeerBytes
<1>2. ASSUME NEW f \in Fields
      PROVE  IsToken(String(Key[f])) /\ TokenBytes(String(Key[f])) = Str(Key[f])
  <2>1. Key[f] \in Seq(Byte) /\ Len(Key[f]) = 1
    BY KeyBytes
  <2>2. Len(Key[f]) <= MaxInt
    BY <2>1, BencodeAssumption
  <2>3. QED
    BY <2>1, <2>2, StringToken
<1>3. IsToken(String(PeerBytes)) /\ TokenBytes(String(PeerBytes)) = Str(PeerBytes)
  BY OwnPeers, StringToken
<1>4. /\ "complete" \in Fields /\ "incomplete" \in Fields /\ "interval" \in Fields
      /\ "mininterval" \in Fields /\ "peers" \in Fields
  BY DEF Fields, Counts, Rows
<1>5. /\ token[1] = String(Key.complete) /\ token[2] = Integer(4)
      /\ token[3] = String(Key.incomplete) /\ token[4] = Integer(0)
      /\ token[5] = String(Key.interval) /\ token[6] = Integer(60)
      /\ token[7] = String(Key.mininterval) /\ token[8] = Integer(60)
      /\ token[9] = String(Key.peers) /\ token[10] = String(PeerBytes) /\ token[11] = Close
  BY DEF ResponseTokens
<1> HIDE DEF token
<1>6. ASSUME NEW i \in {2, 4, 6, 8}, NEW m \in Nat, token[i] = Integer(m)
      PROVE  IsToken(token[i]) /\ TokenBytes(token[i]) = Num(m)
  BY <1>6, IntegerToken
<1> DEFINE Is(i, bytes) == IsToken(token[i]) /\ TokenBytes(token[i]) = bytes
<1>7. /\ Is(1, Str(Key["complete"])) /\ Is(3, Str(Key["incomplete"]))
      /\ Is(5, Str(Key["interval"])) /\ Is(7, Str(Key["mininterval"]))
      /\ Is(9, Str(Key["peers"]))
      /\ Is(2, Num(4)) /\ Is(4, Num(0)) /\ Is(6, Num(60)) /\ Is(8, Num(60))
      /\ Is(10, Str(PeerBytes)) /\ Is(11, <<E>>)
  <2>1. /\ Is(1, Str(Key["complete"])) /\ Is(3, Str(Key["incomplete"]))
        /\ Is(5, Str(Key["interval"])) /\ Is(7, Str(Key["mininterval"]))
        /\ Is(9, Str(Key["peers"]))
    BY <1>2, <1>4, <1>5
  <2>2. Is(2, Num(4)) /\ Is(4, Num(0)) /\ Is(6, Num(60)) /\ Is(8, Num(60))
    <3>1. 4 \in Nat /\ 0 \in Nat /\ 60 \in Nat
      OBVIOUS
    <3>2. QED
      BY <1>5, <1>6, <3>1
  <2>3. Is(10, Str(PeerBytes)) /\ Is(11, <<E>>)
    BY <1>3, <1>5, BracketToken
  <2>4. QED
    BY <2>1, <2>2, <2>3
<1>8. /\ p1 = p0 \o Str(Key["complete"]) /\ p2 = p1 \o Num(4)
      /\ p3 = p2 \o Str(Key["incomplete"]) /\ p4 = p3 \o Num(0)
      /\ p5 = p4 \o Str(Key["interval"]) /\ p6 = p5 \o Num(60)
      /\ p7 = p6 \o Str(Key["mininterval"]) /\ p8 = p7 \o Num(60)
      /\ p9 = p8 \o Str(Key["peers"]) /\ p10 = p9 \o Str(PeerBytes) /\ p11 = p10 \o <<E>>
  OBVIOUS
<1> HIDE DEF p0, p1, p2, p3, p4, p5, p6, p7, p8, p9, p10, p11
<1>9. /\ before[0] = p0 /\ before[1] = p1 /\ before[2] = p2 /\ before[3] = p3
      /\ before[4] = p4 /\ before[5] = p5 /\ before[6] = p6 /\ before[7] = p7
      /\ before[8] = p8 /\ before[9] = p9 /\ before[10] = p10 /\ before[11] = p11
  OBVIOUS
<1> HIDE DEF before
<1> DEFINE Step(k) == /\ IsToken(token[k + 1])
                      /\ before[k + 1] = before[k] \o TokenBytes(token[k + 1])
<1>10. /\ Step(0) /\ Step(1) /\ Step(2) /\ Step(3) /\ Step(4) /\ Step(5)
       /\ Step(6) /\ Step(7) /\ Step(8) /\ Step(9) /\ Step(10)
  <2>1. /\ 0 + 1 = 1 /\ 1 + 1 = 2 /\ 2 + 1 = 3 /\ 3 + 1 = 4 /\ 4 + 1 = 5 /\ 5 + 1 = 6
        /\ 6 + 1 = 7 /\ 7 + 1 = 8 /\ 8 + 1 = 9 /\ 9 + 1 = 10 /\ 10 + 1 = 11
    OBVIOUS
  <2>2. Step(0) /\ Step(1) /\ Step(2) /\ Step(3) /\ Step(4) /\ Step(5)
    BY <1>7, <1>8, <1>9, <2>1
  <2>3. Step(6) /\ Step(7) /\ Step(8) /\ Step(9) /\ Step(10)
    BY <1>7, <1>8, <1>9, <2>1
  <2>4. QED
    BY <2>2, <2>3
<1>11. \A k \in 0 .. 11 - 1 : Step(k)
  <2> HIDE DEF Step
  <2>1. \A k \in 0 .. 11 - 1 : \/ k = 0 \/ k = 1 \/ k = 2 \/ k = 3 \/ k = 4 \/ k = 5
                              \/ k = 6 \/ k = 7 \/ k = 8 \/ k = 9 \/ k = 10
    OBVIOUS
  <2>2. QED
    BY <1>10, <2>1
<1>12. IsWritten(before, token, 11)
  BY <1>9, <1>11 DEF IsWritten, p0
<1>13. QED
  BY <1>1, <1>9, <1>12 DEF token

-----------------------------------------------------------------------------
(* A turn of a loop in a document that holds nothing to skip.              *)
In(a, fields, from, to) ==
    [at |-> a, nest |-> 0, fields |-> fields, from |-> from, to |-> to]

LEMMA TurnIn ==
    ASSUME NEW s, NEW k, k \in DOMAIN s.turn, NEW a, NEW fields, NEW from, NEW to,
           s.turn[k] = In(a, fields, from, to)
    PROVE  Turn(s, k, a, 0, fields, from, to)
BY DEF Turn, In

LEMMA ResponseWellFormed ==
    ASSUME NEW d, OwnResponse(d), MaxInt >= 60
    PROVE  WellFormed(d)
<1>1. PICK before : /\ IsWritten(before, ResponseTokens, 11)
                    /\ before[11] = build_tracker_response
  BY ResponseWritten, BencodeAssumption
<1> DEFINE f0 == {}
           f2 == f0 \cup {"complete"}
           f4 == f2 \cup {"incomplete"}
           f6 == f4 \cup {"interval"}
           f8 == f6 \cup {"mininterval"}
           f10 == f8 \cup {"peers"}
           At(fields) == In("response", fields, 0, 0)
           s == [last |-> 11, token |-> ResponseTokens,
                 end |-> [k \in 0 .. 11 |-> Len(before[k])],
                 depth |-> [k \in 0 .. 11 |-> IF k = 11 THEN 0 ELSE 1],
                 turn |-> [k \in {0, 2, 4, 6, 8, 10} |->
                     IF k = 0 THEN At(f0) ELSE IF k = 2 THEN At(f2) ELSE IF k = 4 THEN At(f4)
                     ELSE IF k = 6 THEN At(f6) ELSE IF k = 8 THEN At(f8) ELSE At(f10)]]
<1>2. /\ s.last = 11 /\ s.token = ResponseTokens
      /\ \A k \in 0 .. 11 : s.end[k] = Len(before[k])
  OBVIOUS
<1>3. /\ s.token[1] = String(Key["complete"]) /\ s.token[2] = Integer(4)
      /\ s.token[3] = String(Key["incomplete"]) /\ s.token[4] = Integer(0)
      /\ s.token[5] = String(Key["interval"]) /\ s.token[6] = Integer(60)
      /\ s.token[7] = String(Key["mininterval"]) /\ s.token[8] = Integer(60)
      /\ s.token[9] = String(Key["peers"]) /\ s.token[10] = String(PeerBytes)
      /\ s.token[11] = Close
  BY DEF ResponseTokens
<1>4. /\ DOMAIN s.turn = {0, 2, 4, 6, 8, 10}
      /\ s.turn[0] = At(f0) /\ s.turn[2] = At(f2) /\ s.turn[4] = At(f4)
      /\ s.turn[6] = At(f6) /\ s.turn[8] = At(f8) /\ s.turn[10] = At(f10)
  OBVIOUS
<1>5. \A k \in 0 .. 10 : k # 10 => s.token[k + 1].is \in {"string", "integer"}
  <2>1. /\ s.token[1].is = "string" /\ s.token[2].is = "integer" /\ s.token[3].is = "string"
        /\ s.token[4].is = "integer" /\ s.token[5].is = "string" /\ s.token[6].is = "integer"
        /\ s.token[7].is = "string" /\ s.token[8].is = "integer" /\ s.token[9].is = "string"
        /\ s.token[10].is = "string"
    BY <1>3 DEF String, Integer
  <2>2. \A i \in 1 .. 10 : \/ i = 1 \/ i = 2 \/ i = 3 \/ i = 4 \/ i = 5
                          \/ i = 6 \/ i = 7 \/ i = 8 \/ i = 9 \/ i = 10
    OBVIOUS
  <2>3. \A i \in 1 .. 10 : s.token[i].is \in {"string", "integer"}
    BY <2>1, <2>2
  <2>4. QED
    BY <2>3
<1>6. s.token[11].is = "close"
  BY <1>3 DEF Close
<1>7. /\ s.depth[0] = 1
      /\ \A k \in 0 .. 10 : /\ s.depth[k] = 1 /\ s.depth[k] \in Nat \ {0}
                            /\ s.depth[k + 1] = IF k = 10 THEN 0 ELSE 1
  OBVIOUS
<1> HIDE DEF s, f0, f2, f4, f6, f8, f10
<1>8. /\ d.expected["complete"] = 4 /\ d.expected["incomplete"] = 0 /\ d.expected["interval"] = 60
      /\ d.expected["mininterval"] = 60 /\ d.expected["peers"] = <<OwnPeer>>
      /\ \A f \in Fields \ {"complete", "interval", "mininterval", "peers"} : d.expected[f] = Nothing[f]
      /\ d.expected = [f \in Fields |-> d.expected[f]]
  <2>1. \A f \in {"complete", "incomplete", "interval", "mininterval", "peers"} : f \in Fields
    BY DEF Fields, Counts, Rows
  <2>2. Nothing["incomplete"] = 0
    BY NothingThere DEF Counts
  <2>3. DOMAIN Nothing = Fields
    BY NothingThere
  <2>4. /\ d.expected["complete"] = 4 /\ d.expected["interval"] = 60
        /\ d.expected["mininterval"] = 60 /\ d.expected["peers"] = <<OwnPeer>>
    BY <2>1, <2>3 DEF OwnResponse
  <2>5. \A f \in Fields \ {"complete", "interval", "mininterval", "peers"} :
           d.expected[f] = Nothing[f]
    BY <2>3 DEF OwnResponse
  <2>6. d.expected["incomplete"] = 0
    BY <2>1, <2>2, <2>5
  <2>7. d.expected = [f \in Fields |-> d.expected[f]]
    BY <2>3 DEF OwnResponse
  <2>8. QED
    BY <2>4, <2>5, <2>6, <2>7
<1>9. Expects(d)
  <2>1. \A f \in Counts : d.expected[f] \in Nat
    <3>1. \A f \in Counts : f \in Fields /\ f # "peers" /\ Nothing[f] = 0
      BY NothingThere DEF Fields, Counts
    <3>2. QED
      BY <1>8, <3>1
  <2>2. \A f \in Texts : d.expected[f] \in Seq(Byte)
    <3>1. \A f \in Texts : /\ f \in Fields \ {"complete", "interval", "mininterval", "peers"}
                           /\ Nothing[f] = <<>>
      BY NothingThere DEF Fields, Texts
    <3>2. <<>> \in Seq(Byte)
      OBVIOUS
    <3>3. QED
      BY <1>8, <3>1, <3>2
  <2>3. d.expected["pieces"] \in Seq(Seq(Byte))
    <3>1. "pieces" \in Fields \ {"complete", "interval", "mininterval", "peers"}
          /\ Nothing["pieces"] = <<>>
      BY NothingThere DEF Fields, Rows
    <3>2. <<>> \in Seq(Seq(Byte))
      OBVIOUS
    <3>3. QED
      BY <1>8, <3>1, <3>2
  <2>4. d.expected["peers"] \in Seq([ip : Seq(Byte), port : Nat])
    BY <1>8, OwnPeers
  <2>5. QED
    BY <1>8, <2>1, <2>2, <2>3, <2>4 DEF Expects
<1>10. Laid(d.data, s)
  <2>1. /\ IsWritten(before, s.token, 11) /\ s.last = 11
        /\ \A k \in 0 .. 11 : s.end[k] = Len(before[k])
    BY <1>1, <1>2
  <2>2. 11 \in Nat
    OBVIOUS
  <2>3. Laid(before[11], s)
    BY <2>1, <2>2, WrittenIsLaid
  <2>4. QED
    BY <1>1, <2>3 DEF OwnResponse
<1>11. Nested(s)
  <2>1. ASSUME NEW k \in 0 .. 10
        PROVE  s.depth[k + 1] = CASE s.token[k + 1].is = "open" -> s.depth[k] + 1
                                [] s.token[k + 1].is = "close" -> s.depth[k] - 1
                                [] OTHER -> s.depth[k]
    <3>1. CASE k = 10
      <4>1. k + 1 = 11 /\ 1 - 1 = 0
        BY <3>1
      <4>2. QED
        BY <1>6, <1>7, <3>1, <4>1
    <3>2. CASE k # 10
      <4>1. s.token[k + 1].is # "open" /\ s.token[k + 1].is # "close"
        BY <1>5, <3>2
      <4>2. QED
        BY <1>7, <3>2, <4>1
    <3>3. QED
      BY <3>1, <3>2
  <2>2. 11 - 1 = 10
    OBVIOUS
  <2>3. QED
    BY <1>2, <1>7, <2>1, <2>2 DEF Nested
<1>12. Turns(d, s)
  <2>1. /\ "complete" \in Known["response"] \cap Counts
        /\ "incomplete" \in Known["response"] \cap Counts
        /\ "interval" \in Known["response"] \cap Counts
        /\ "mininterval" \in Known["response"] \cap Counts
        /\ "peers" \in Known["response"] \cap (Texts \cup Rows)
    BY DEF Known, Counts, Rows
  <2>0. 4 <= Holds("complete") /\ 0 <= Holds("incomplete") /\ 60 <= Holds("interval") /\ 60 <= Holds("mininterval")
    BY BencodeAssumption DEF Holds
  <2>2. CountTurn(d, s, 0, s.turn[0])
    <3>1. /\ s.turn[0].at = "response" /\ s.turn[0].nest = 0 /\ s.turn[0].fields = f0
          /\ s.turn[0].from = 0 /\ s.turn[0].to = 0
      BY <1>4 DEF In
    <3>2. Turn(s, 2, "response", 0, f2, 0, 0) /\ f2 = f0 \cup {"complete"}
      BY <1>4, TurnIn DEF f2
    <3>3. /\ IsKey(s.token[1], "complete")
          /\ s.token[2].is = "integer" /\ s.token[2].of = d.expected["complete"]
          /\ d.expected["complete"] <= Holds("complete")
      BY <1>3, <1>8, <2>0 DEF IsKey, String, Integer
    <3>4. 0 + 1 = 1 /\ 0 + 2 = 2
      OBVIOUS
    <3>5. QED
      BY <2>1, <3>1, <3>2, <3>3, <3>4 DEF CountTurn
  <2>3. CountTurn(d, s, 2, s.turn[2])
    <3>1. /\ s.turn[2].at = "response" /\ s.turn[2].nest = 0 /\ s.turn[2].fields = f2
          /\ s.turn[2].from = 0 /\ s.turn[2].to = 0
      BY <1>4 DEF In
    <3>2. Turn(s, 4, "response", 0, f4, 0, 0) /\ f4 = f2 \cup {"incomplete"}
      BY <1>4, TurnIn DEF f4
    <3>3. /\ IsKey(s.token[3], "incomplete")
          /\ s.token[4].is = "integer" /\ s.token[4].of = d.expected["incomplete"]
          /\ d.expected["incomplete"] <= Holds("incomplete")
      BY <1>3, <1>8, <2>0 DEF IsKey, String, Integer
    <3>4. 2 + 1 = 3 /\ 2 + 2 = 4
      OBVIOUS
    <3>5. QED
      BY <2>1, <3>1, <3>2, <3>3, <3>4 DEF CountTurn
  <2>4. CountTurn(d, s, 4, s.turn[4])
    <3>1. /\ s.turn[4].at = "response" /\ s.turn[4].nest = 0 /\ s.turn[4].fields = f4
          /\ s.turn[4].from = 0 /\ s.turn[4].to = 0
      BY <1>4 DEF In
    <3>2. Turn(s, 6, "response", 0, f6, 0, 0) /\ f6 = f4 \cup {"interval"}
      BY <1>4, TurnIn DEF f6
    <3>3. /\ IsKey(s.token[5], "interval")
          /\ s.token[6].is = "integer" /\ s.token[6].of = d.expected["interval"]
          /\ d.expected["interval"] <= Holds("interval")
      BY <1>3, <1>8, <2>0 DEF IsKey, String, Integer
    <3>4. 4 + 1 = 5 /\ 4 + 2 = 6
      OBVIOUS
    <3>5. QED
      BY <2>1, <3>1, <3>2, <3>3, <3>4 DEF CountTurn
  <2>5. CountTurn(d, s, 6, s.turn[6])
    <3>1. /\ s.turn[6].at = "response" /\ s.turn[6].nest = 0 /\ s.turn[6].fields = f6
          /\ s.turn[6].from = 0 /\ s.turn[6].to = 0
      BY <1>4 DEF In
    <3>2. Turn(s, 8, "response", 0, f8, 0, 0) /\ f8 = f6 \cup {"mininterval"}
      BY <1>4, TurnIn DEF f8
    <3>3. /\ IsKey(s.token[7], "mininterval")
          /\ s.token[8].is = "integer" /\ s.token[8].of = d.expected["mininterval"]
          /\ d.expected["mininterval"] <= Holds("mininterval")
      BY <1>3, <1>8, <2>0 DEF IsKey, String, Integer
    <3>4. 6 + 1 = 7 /\ 6 + 2 = 8
      OBVIOUS
    <3>5. QED
      BY <2>1, <3>1, <3>2, <3>3, <3>4 DEF CountTurn
  <2>6. TextTurn(d, s, 8, s.turn[8])
    <3>1. /\ s.turn[8].at = "response" /\ s.turn[8].nest = 0 /\ s.turn[8].fields = f8
          /\ s.turn[8].from = 0 /\ s.turn[8].to = 0
      BY <1>4 DEF In
    <3>2. Turn(s, 10, "response", 0, f10, 0, 0) /\ f10 = f8 \cup {"peers"}
      BY <1>4, TurnIn DEF f10
    <3>3. /\ IsKey(s.token[9], "peers")
          /\ s.token[10].is = "string" /\ ValueOf("peers", s.token[10].of) = d.expected["peers"]
          /\ "peers" \notin f8
      BY <1>3, <1>8, OwnPeers DEF IsKey, String, f0, f2, f4, f6, f8
    <3>4. 8 + 1 = 9 /\ 8 + 2 = 10
      OBVIOUS
    <3>5. QED
      BY <2>1, <3>1, <3>2, <3>3, <3>4 DEF TextTurn
  <2>7. LastTurn(d, s, 10, s.turn[10])
    <3>1. /\ s.turn[10].at = "response" /\ s.turn[10].nest = 0 /\ s.turn[10].fields = f10
          /\ s.turn[10].from = 0 /\ s.turn[10].to = 0
      BY <1>4 DEF In
    <3>2. \A f \in Fields \ f10 : d.expected[f] = Nothing[f]
      BY <1>8 DEF f0, f2, f4, f6, f8, f10
    <3>3. d.kind # "outer"
      BY DEF OwnResponse
    <3>4. 10 + 1 = 11
      OBVIOUS
    <3>5. QED
      BY <1>2, <1>6, <3>1, <3>2, <3>3, <3>4 DEF LastTurn
  <2>8. Turn(s, 0, d.kind, 0, {}, 0, 0)
    BY <1>2, <1>4, TurnIn DEF OwnResponse, f0
  <2>9. DOMAIN s.turn \subseteq 0 .. s.last - 1
    BY <1>2, <1>4
  <2>10. \A k \in DOMAIN s.turn : s.turn[k].at \in Dictionaries
    BY <1>2, <1>4 DEF In, Dictionaries
  <2>11. QED
    BY <1>2, <1>4, <2>2, <2>3, <2>4, <2>5, <2>6, <2>7, <2>8, <2>9, <2>10 DEF Turns
<1>13. QED
  BY <1>9, <1>10, <1>11, <1>12 DEF WellFormed, IsScript

-----------------------------------------------------------------------------
(* A torrent that create_torrent writes.                                   *)
Hashes(file) == [k \in DOMAIN Chunks(file) |-> Sha1(Chunks(file)[k])]

Info(n, name, raw) ==
    <<D>> \o Str(Key.length) \o Num(n) \o Str(Key.name) \o Str(name)
          \o Str(Key.piece_length) \o Num(PieceLength)
          \o Str(Key.pieces) \o Str(raw) \o <<E>>

Torrent(url, n, name, raw) ==
    <<D>> \o Str(Key.announce) \o Str(url) \o Str(Key.info)
          \o <<D>> \o Str(Key.length) \o Num(n) \o Str(Key.name) \o Str(name)
          \o Str(Key.piece_length) \o Num(PieceLength)
          \o Str(Key.pieces) \o Str(raw) \o <<E>> \o <<E>>

(* Its document; strings are not longer than an int says, so there are at  *)
(* most 107 million pieces, and the file no longer than an int64_t says.   *)
OwnTorrent(d) ==
    \E file, filename, url \in Seq(Byte) :
        LET hashes == Hashes(file)
        IN /\ Len(url) <= MaxInt /\ Len(filename) <= MaxInt
           /\ Len(hashes) * HashLength <= MaxInt /\ Len(file) <= MaxLong
           /\ d.kind = "outer" /\ d.data = create_torrent(file, filename, url)
           /\ d.info = Info(Len(file), filename, FlattenSeq(hashes))
           /\ d.expected = [Nothing EXCEPT !.announce = url, !.name = filename,
                               !.length = Len(file), !.piece_length = PieceLength,
                               !.pieces = hashes]

Sha1Hashes ==
    \A chunk \in Seq(Byte) : Sha1(chunk) \in Seq(Byte) /\ Len(Sha1(chunk)) = HashLength

LEMMA HashesThere ==
    ASSUME Sha1Hashes, NEW file \in Seq(Byte)
    PROVE  /\ Hashes(file) \in Seq(Seq(Byte))
           /\ \A k \in 1 .. Len(Hashes(file)) : Len(Hashes(file)[k]) = HashLength
<1> DEFINE l == Len(file)
           n == PieceLength
           q == (l + n - 1) \div n
           chunk(k) == SubSeq(file, (k - 1) * n + 1, Min({k * n, l}))
           h == Hashes(file)
<1>1. l \in Nat /\ n \in Nat \ {0} /\ q \in Nat /\ q * n <= l + n - 1
  BY BencodeAssumption
<1>2. ASSUME NEW k \in 1 .. q
      PROVE  chunk(k) \in Seq(Byte)
  <2> DEFINE a == (k - 1) * n
             b == k * n
  <2>1. a \in Nat /\ b \in Nat /\ b = a + n /\ b <= q * n
    BY <1>1
  <2> DEFINE c == IF b <= l THEN b ELSE l
  <2>2. Min({b, l}) = c
    BY <1>1, <2>1, MinThere
  <2>3. chunk(k) = SubSeq(file, a + 1, c)
    BY <2>2
  <2> HIDE DEF a, b, q, n
  <2>4. c \in Nat /\ a <= c /\ c <= l
    BY <1>1, <2>1
  <2> HIDE DEF c, chunk
  <2>5. SubSeq(file, a + 1, c) \in Seq(Byte)
    BY <2>1, <2>4, Slice
  <2>6. QED
    BY <2>3, <2>5
<1>3. h = [k \in 1 .. q |-> Sha1(chunk(k))]
  BY DEF Hashes, Chunks
<1> HIDE DEF q, chunk, h
<1>4. /\ DOMAIN h = 1 .. q /\ h = [k \in 1 .. q |-> h[k]]
      /\ \A k \in 1 .. q : h[k] \in Seq(Byte) /\ Len(h[k]) = HashLength
  BY <1>2, <1>3 DEF Sha1Hashes
<1>5. h \in Seq(Seq(Byte)) /\ Len(h) = q
  BY <1>1, <1>4, SeqMade
<1>6. QED
  BY <1>4, <1>5 DEF h

TorrentTokens(url, n, name, raw) ==
    << String(Key["announce"]), String(url), String(Key["info"]), Open,
       String(Key["length"]), Integer(n), String(Key["name"]), String(name),
       String(Key["piece_length"]), Integer(PieceLength),
       String(Key["pieces"]), String(raw), Close, Close >>

LEMMA JoinedTwice ==
    ASSUME NEW x \in Seq(Byte), NEW y \in Seq(Byte), NEW z \in Seq(Byte)
    PROVE  x \o y \o z = x \o (y \o z)
<1> DEFINE u == x \o y \o z
           v == x \o (y \o z)
<1>1. /\ x \o y \in Seq(Byte) /\ Len(x \o y) = Len(x) + Len(y)
      /\ \A i \in 1 .. Len(x) : (x \o y)[i] = x[i]
      /\ \A i \in 1 .. Len(y) : (x \o y)[Len(x) + i] = y[i]
  BY Joined
<1>2. /\ y \o z \in Seq(Byte) /\ Len(y \o z) = Len(y) + Len(z)
      /\ \A i \in 1 .. Len(y) : (y \o z)[i] = y[i]
      /\ \A i \in 1 .. Len(z) : (y \o z)[Len(y) + i] = z[i]
  BY Joined
<1> DEFINE a == Len(x)
           b == Len(y)
           c == Len(z)
           xy == x \o y
           yz == y \o z
<1>3. a \in Nat /\ b \in Nat /\ c \in Nat
  OBVIOUS
<1>4. /\ u \in Seq(Byte) /\ Len(u) = a + b + c
      /\ \A i \in 1 .. a + b : u[i] = xy[i]
      /\ \A i \in 1 .. c : u[a + b + i] = z[i]
  BY <1>1, Joined
<1>5. /\ v \in Seq(Byte) /\ Len(v) = a + (b + c)
      /\ \A i \in 1 .. a : v[i] = x[i]
      /\ \A i \in 1 .. b + c : v[a + i] = yz[i]
  BY <1>2, Joined
<1> HIDE DEF u, v, xy, yz
<1>6. ASSUME NEW i \in 1 .. a + b + c
      PROVE  u[i] = v[i]
  <2> HIDE DEF a, b, c
  <2>1. CASE i <= a
    <3>1. i \in 1 .. a /\ i \in 1 .. a + b
      BY <1>3, <2>1
    <3>2. u[i] = xy[i] /\ xy[i] = x[i] /\ v[i] = x[i]
      BY <1>1, <1>4, <1>5, <3>1 DEF xy, a
    <3>3. QED
      BY <3>2
  <2>2. CASE a < i /\ i <= a + b
    <3> DEFINE j == i - a
    <3>1. j \in 1 .. b /\ j \in 1 .. b + c /\ i = a + j /\ i \in 1 .. a + b
      BY <1>3, <2>2
    <3> HIDE DEF j
    <3>2. u[i] = xy[i]
      BY <1>4, <3>1
    <3>3. xy[a + j] = y[j] /\ yz[j] = y[j]
      BY <1>1, <1>2, <3>1 DEF xy, yz, a, b
    <3>4. v[a + j] = yz[j]
      BY <1>5, <3>1
    <3>5. QED
      BY <3>1, <3>2, <3>3, <3>4
  <2>3. CASE a + b < i
    <3> DEFINE j == i - (a + b)
    <3>1. j \in 1 .. c /\ b + j \in 1 .. b + c /\ i = a + b + j /\ i = a + (b + j)
      BY <1>3, <2>3
    <3> HIDE DEF j
    <3>2. u[a + b + j] = z[j]
      BY <1>4, <3>1
    <3>3. yz[b + j] = z[j]
      BY <1>2, <3>1 DEF yz, b, c
    <3>4. v[a + (b + j)] = yz[b + j]
      BY <1>5, <3>1
    <3>5. QED
      BY <3>1, <3>2, <3>3, <3>4
  <2>4. QED
    BY <1>3, <2>1, <2>2, <2>3
<1>7. u = v
  <2>1. a + b + c = a + (b + c)
    BY <1>3
  <2>2. QED
    BY <1>4, <1>5, <1>6, <2>1, SeqEqual
<1>8. QED
  BY <1>7 DEF u, v

Spells(before, url, n, name, raw) ==
    /\ IsWritten(before, TorrentTokens(url, n, name, raw), 14)
    /\ before[14] = Torrent(url, n, name, raw)
    /\ before[13] = before[3] \o Info(n, name, raw)
    /\ before[3] \in Seq(Byte) /\ Info(n, name, raw) \in Seq(Byte)
    /\ before[14] = before[13] \o <<E>> /\ Len(before[13]) = Len(before[12]) + 1

LEMMA TorrentWritten ==
    ASSUME MaxInt >= 6, NEW n \in Nat, NEW raw \in Seq(Byte), Len(raw) <= MaxInt,
           NEW name \in Seq(Byte), Len(name) <= MaxInt,
           NEW url \in Seq(Byte), Len(url) <= MaxInt
    PROVE  \E before : Spells(before, url, n, name, raw)
<1> DEFINE p0 == <<D>>
           p1 == p0 \o Str(Key.announce)
           p2 == p1 \o Str(url)
           p3 == p2 \o Str(Key.info)
           p4 == p3 \o <<D>>
           p5 == p4 \o Str(Key.length)
           p6 == p5 \o Num(n)
           p7 == p6 \o Str(Key.name)
           p8 == p7 \o Str(name)
           p9 == p8 \o Str(Key.piece_length)
           p10 == p9 \o Num(PieceLength)
           p11 == p10 \o Str(Key.pieces)
           p12 == p11 \o Str(raw)
           p13 == p12 \o <<E>>
           p14 == p13 \o <<E>>
           before == [k \in 0 .. 14 |->
                         <<p0, p1, p2, p3, p4, p5, p6, p7, p8, p9,
                           p10, p11, p12, p13, p14>>[k + 1]]
           token == TorrentTokens(url, n, name, raw)
<1>1. ASSUME NEW f \in Fields \cup {"info"}
      PROVE  IsToken(String(Key[f])) /\ TokenBytes(String(Key[f])) = Str(Key[f])
  <2>1. Key[f] \in Seq(Byte) /\ Len(Key[f]) = 1
    BY KeyBytes
  <2>2. Len(Key[f]) <= MaxInt
    BY <2>1, BencodeAssumption
  <2>3. QED
    BY <2>1, <2>2, StringToken
<1>2. /\ "announce" \in Fields /\ "length" \in Fields /\ "name" \in Fields
      /\ "piece_length" \in Fields /\ "pieces" \in Fields
  BY DEF Fields, Counts, Texts, Rows
<1>3. /\ token[1] = String(Key["announce"]) /\ token[2] = String(url)
      /\ token[3] = String(Key["info"]) /\ token[4] = Open
      /\ token[5] = String(Key["length"]) /\ token[6] = Integer(n)
      /\ token[7] = String(Key["name"]) /\ token[8] = String(name)
      /\ token[9] = String(Key["piece_length"]) /\ token[10] = Integer(PieceLength)
      /\ token[11] = String(Key["pieces"]) /\ token[12] = String(raw)
      /\ token[13] = Close /\ token[14] = Close
  BY DEF TorrentTokens
<1> HIDE DEF token
<1> DEFINE Is(i, bytes) == IsToken(token[i]) /\ TokenBytes(token[i]) = bytes
<1>4. /\ Is(1, Str(Key["announce"])) /\ Is(3, Str(Key["info"]))
      /\ Is(5, Str(Key["length"])) /\ Is(7, Str(Key["name"]))
      /\ Is(9, Str(Key["piece_length"])) /\ Is(11, Str(Key["pieces"]))
  BY <1>1, <1>2, <1>3
<1>5. Is(2, Str(url)) /\ Is(8, Str(name)) /\ Is(12, Str(raw))
  BY <1>3, StringToken
<1>6. Is(6, Num(n)) /\ Is(10, Num(PieceLength))
  <2>1. n \in Nat /\ PieceLength \in Nat
    BY BencodeAssumption
  <2>2. QED
    BY <1>3, <2>1, IntegerToken
<1>7. /\ Is(4, <<D>>) /\ Is(13, <<E>>) /\ Is(14, <<E>>)
      /\ p1 = p0 \o Str(Key["announce"]) /\ p2 = p1 \o Str(url)
      /\ p3 = p2 \o Str(Key["info"]) /\ p4 = p3 \o <<D>>
      /\ p5 = p4 \o Str(Key["length"]) /\ p6 = p5 \o Num(n)
      /\ p7 = p6 \o Str(Key["name"]) /\ p8 = p7 \o Str(name)
      /\ p9 = p8 \o Str(Key["piece_length"]) /\ p10 = p9 \o Num(PieceLength)
      /\ p11 = p10 \o Str(Key["pieces"]) /\ p12 = p11 \o Str(raw)
      /\ p13 = p12 \o <<E>> /\ p14 = p13 \o <<E>>
  <2>1. Is(4, <<D>>) /\ Is(13, <<E>>) /\ Is(14, <<E>>)
    BY <1>3, BracketToken
  <2> HIDE DEF Is
  <2>2. QED
    BY <2>1
<1>8. /\ before[0] = p0 /\ before[1] = p1 /\ before[2] = p2 /\ before[3] = p3
      /\ before[4] = p4 /\ before[5] = p5 /\ before[6] = p6 /\ before[7] = p7
      /\ before[8] = p8 /\ before[9] = p9 /\ before[10] = p10 /\ before[11] = p11
      /\ before[12] = p12 /\ before[13] = p13 /\ before[14] = p14
  <2> HIDE DEF p0, p1, p2, p3, p4, p5, p6, p7, p8, p9, p10, p11, p12, p13, p14
  <2>1. QED
    OBVIOUS
<1> HIDE DEF before
<1> DEFINE Step(k) == /\ IsToken(token[k + 1])
                      /\ before[k + 1] = before[k] \o TokenBytes(token[k + 1])
<1>9. \A k \in 0 .. 14 - 1 : Step(k)
  <2> HIDE DEF p0, p1, p2, p3, p4, p5, p6, p7, p8, p9, p10, p11, p12, p13, p14
  <2>1. /\ 0 + 1 = 1 /\ 1 + 1 = 2 /\ 2 + 1 = 3 /\ 3 + 1 = 4 /\ 4 + 1 = 5 /\ 5 + 1 = 6
        /\ 6 + 1 = 7 /\ 7 + 1 = 8 /\ 8 + 1 = 9 /\ 9 + 1 = 10 /\ 10 + 1 = 11
        /\ 11 + 1 = 12 /\ 12 + 1 = 13 /\ 13 + 1 = 14
    OBVIOUS
  <2>2. Step(0) /\ Step(2) /\ Step(4) /\ Step(6) /\ Step(8) /\ Step(10)
    BY <1>4, <1>7, <1>8, <2>1
  <2>3. Step(1) /\ Step(7) /\ Step(11)
    BY <1>5, <1>7, <1>8, <2>1
  <2>4. Step(5) /\ Step(9)
    BY <1>6, <1>7, <1>8, <2>1
  <2>5. Step(3) /\ Step(12) /\ Step(13)
    BY <1>7, <1>8, <2>1
  <2>6. \A k \in 0 .. 14 - 1 : \/ k = 0 \/ k = 1 \/ k = 2 \/ k = 3 \/ k = 4 \/ k = 5
                              \/ k = 6 \/ k = 7 \/ k = 8 \/ k = 9 \/ k = 10
                              \/ k = 11 \/ k = 12 \/ k = 13
    OBVIOUS
  <2> HIDE DEF Step
  <2>7. QED
    BY <2>2, <2>3, <2>4, <2>5, <2>6
<1>10. IsWritten(before, token, 14)
  BY <1>8, <1>9 DEF IsWritten, p0
<1> DEFINE b5 == Str(Key.length)
           b6 == Num(n)
           b7 == Str(Key.name)
           b8 == Str(name)
           b9 == Str(Key.piece_length)
           b10 == Num(PieceLength)
           b11 == Str(Key.pieces)
           b12 == Str(raw)
           q1 == <<D>>
           q2 == q1 \o b5
           q3 == q2 \o b6
           q4 == q3 \o b7
           q5 == q4 \o b8
           q6 == q5 \o b9
           q7 == q6 \o b10
           q8 == q7 \o b11
           q9 == q8 \o b12
           q10 == q9 \o <<E>>
<1>11. q10 = Info(n, name, raw)
  BY DEF Info
<1> DEFINE Cat(x, y) == x \o y
<1>12. /\ p4 = Cat(p3, q1) /\ p5 = Cat(p4, b5) /\ p6 = Cat(p5, b6) /\ p7 = Cat(p6, b7)
       /\ p8 = Cat(p7, b8) /\ p9 = Cat(p8, b9) /\ p10 = Cat(p9, b10) /\ p11 = Cat(p10, b11)
       /\ p12 = Cat(p11, b12) /\ p13 = Cat(p12, <<E>>) /\ p14 = Cat(p13, <<E>>)
  OBVIOUS
<1>13. /\ q1 \in Seq(Byte) /\ <<E>> \in Seq(Byte) /\ Len(<<E>>) = 1
       /\ b5 \in Seq(Byte) /\ b6 \in Seq(Byte) /\ b7 \in Seq(Byte) /\ b8 \in Seq(Byte)
       /\ b9 \in Seq(Byte) /\ b10 \in Seq(Byte) /\ b11 \in Seq(Byte) /\ b12 \in Seq(Byte)
  <2>1. \A f \in Fields : Str(Key[f]) \in Seq(Byte)
    BY KeyBytes, StrBytes
  <2>2. b5 \in Seq(Byte) /\ b7 \in Seq(Byte) /\ b9 \in Seq(Byte) /\ b11 \in Seq(Byte)
    BY <1>2, <2>1
  <2>3. b8 \in Seq(Byte) /\ b12 \in Seq(Byte)
    BY StrBytes
  <2>4. b6 \in Seq(Byte) /\ b10 \in Seq(Byte)
    BY NumBytes, BencodeAssumption
  <2>5. q1 \in Seq(Byte) /\ <<E>> \in Seq(Byte) /\ Len(<<E>>) = 1
    BY DEF D, E, Byte
  <2>6. QED
    BY <2>2, <2>3, <2>4, <2>5
<1>14. p3 \in Seq(Byte)
  <2>1. Str(Key["announce"]) \in Seq(Byte) /\ Str(Key["info"]) \in Seq(Byte)
    BY <1>2, KeyBytes, StrBytes
  <2>2. Str(url) \in Seq(Byte) /\ p0 \in Seq(Byte)
    BY <1>13, StrBytes
  <2>3. p1 \in Seq(Byte)
    BY <2>1, <2>2, Joined
  <2>4. p2 \in Seq(Byte)
    BY <2>2, <2>3, Joined
  <2>5. QED
    BY <2>1, <2>4, Joined
<1>15. p14 = Torrent(url, n, name, raw)
  BY DEF Torrent
<1> HIDE DEF p0, p1, p2, p3, p4, p5, p6, p7, p8, p9, p10, p11, p12, p13, p14
<1> HIDE DEF b5, b6, b7, b8, b9, b10, b11, b12
<1> DEFINE e == <<E>>
<1>16. /\ q2 = Cat(q1, b5) /\ q3 = Cat(q2, b6) /\ q4 = Cat(q3, b7) /\ q5 = Cat(q4, b8)
       /\ q6 = Cat(q5, b9) /\ q7 = Cat(q6, b10) /\ q8 = Cat(q7, b11) /\ q9 = Cat(q8, b12)
       /\ q10 = Cat(q9, e)
  <2>1. q2 = Cat(q1, b5) /\ q3 = Cat(q2, b6) /\ q4 = Cat(q3, b7)
    OBVIOUS
  <2>2. q5 = Cat(q4, b8) /\ q6 = Cat(q5, b9) /\ q7 = Cat(q6, b10)
    OBVIOUS
  <2>3. q8 = Cat(q7, b11) /\ q9 = Cat(q8, b12) /\ q10 = Cat(q9, e)
    OBVIOUS
  <2>4. QED
    BY <2>1, <2>2, <2>3
<1>17. e \in Seq(Byte) /\ Len(e) = 1 /\ p13 = Cat(p12, e) /\ p14 = Cat(p13, e)
  BY <1>12, <1>13
<1>18. ASSUME NEW q \in Seq(Byte), NEW b \in Seq(Byte)
       PROVE  Cat(q, b) \in Seq(Byte) /\ Cat(Cat(p3, q), b) = Cat(p3, Cat(q, b))
  <2>1. Cat(q, b) \in Seq(Byte)
    BY Joined
  <2>2. Cat(Cat(p3, q), b) = Cat(p3, Cat(q, b))
    BY <1>14, JoinedTwice
  <2>3. QED
    BY <2>1, <2>2
<1> HIDE DEF q1, q2, q3, q4, q5, q6, q7, q8, q9, q10, e, Cat
<1>19. q2 \in Seq(Byte) /\ p5 = Cat(p3, q2)
  BY <1>12, <1>13, <1>16, <1>18
<1>20. q3 \in Seq(Byte) /\ p6 = Cat(p3, q3)
  BY <1>12, <1>13, <1>16, <1>18, <1>19
<1>21. q4 \in Seq(Byte) /\ p7 = Cat(p3, q4)
  BY <1>12, <1>13, <1>16, <1>18, <1>20
<1>22. q5 \in Seq(Byte) /\ p8 = Cat(p3, q5)
  BY <1>12, <1>13, <1>16, <1>18, <1>21
<1>23. q6 \in Seq(Byte) /\ p9 = Cat(p3, q6)
  BY <1>12, <1>13, <1>16, <1>18, <1>22
<1>24. q7 \in Seq(Byte) /\ p10 = Cat(p3, q7)
  BY <1>12, <1>13, <1>16, <1>18, <1>23
<1>25. q8 \in Seq(Byte) /\ p11 = Cat(p3, q8)
  BY <1>12, <1>13, <1>16, <1>18, <1>24
<1>26. q9 \in Seq(Byte) /\ p12 = Cat(p3, q9)
  BY <1>12, <1>13, <1>16, <1>18, <1>25
<1>27. q10 \in Seq(Byte) /\ p13 = Cat(p3, q10)
  BY <1>13, <1>16, <1>17, <1>18, <1>26
<1>28. Len(p13) = Len(p12) + 1
  <2>1. p12 \in Seq(Byte)
    BY <1>14, <1>26, Joined DEF Cat
  <2>2. Len(p12 \o e) = Len(p12) + Len(e)
    BY <1>17, <2>1, Joined
  <2>3. QED
    BY <1>17, <2>2 DEF Cat
<1>29. /\ before[14] = p14 /\ before[13] = before[3] \o q10 /\ before[3] \in Seq(Byte)
       /\ before[14] = before[13] \o <<E>> /\ Len(before[13]) = Len(before[12]) + 1
  BY <1>8, <1>14, <1>17, <1>27, <1>28 DEF e, Cat
<1>30. QED
  BY <1>10, <1>11, <1>15, <1>27, <1>29 DEF Spells, token

LEMMA TorrentWellFormed ==
    ASSUME NEW d, OwnTorrent(d), Sha1Hashes, MaxInt >= 6, PieceLength <= MaxLong
    PROVE  WellFormed(d)
<1>1. PICK file \in Seq(Byte), name \in Seq(Byte), url \in Seq(Byte) :
          LET hashes == Hashes(file)
          IN /\ Len(url) <= MaxInt /\ Len(name) <= MaxInt
             /\ Len(hashes) * HashLength <= MaxInt /\ Len(file) <= MaxLong
             /\ d.kind = "outer" /\ d.data = create_torrent(file, name, url)
             /\ d.info = Info(Len(file), name, FlattenSeq(hashes))
             /\ d.expected = [Nothing EXCEPT !.announce = url, !.name = name,
                                 !.length = Len(file), !.piece_length = PieceLength,
                                 !.pieces = hashes]
  BY DEF OwnTorrent
<1> DEFINE n == Len(file)
           hashes == Hashes(file)
           raw == FlattenSeq(hashes)
<1>2. hashes \in Seq(Seq(Byte)) /\ \A k \in 1 .. Len(hashes) : Len(hashes[k]) = HashLength
  BY HashesThere
<1>3. /\ raw \in Seq(Byte) /\ Len(raw) <= MaxInt
      /\ ValueOf("pieces", raw) = hashes
  <2> HIDE DEF hashes
  <2>1. /\ raw \in Seq(Byte) /\ Len(raw) = Len(hashes) * HashLength
        /\ PartsOf(raw, HashLength) = hashes
    BY <1>2, PartsJoined, BencodeAssumption
  <2>2. Len(hashes) * HashLength <= MaxInt
    BY <1>1 DEF hashes
  <2>3. ValueOf("pieces", raw) = PartsOf(raw, HashLength)
    BY DEF ValueOf
  <2>4. QED
    BY <2>1, <2>2, <2>3
<1>4. d.data = Torrent(url, n, name, raw)
  BY <1>1 DEF create_torrent, Hashes, Torrent
<1>5. /\ Len(url) <= MaxInt /\ Len(name) <= MaxInt /\ n \in Nat /\ n <= MaxLong
      /\ d.kind = "outer" /\ d.info = Info(n, name, raw)
      /\ d.expected = [Nothing EXCEPT !.announce = url, !.name = name, !.length = n,
                          !.piece_length = PieceLength, !.pieces = hashes]
  BY <1>1
<1> HIDE DEF n, hashes, raw
<1> DEFINE tokens == TorrentTokens(url, n, name, raw)
<1>6. PICK before :
          /\ IsWritten(before, tokens, 14) /\ before[14] = d.data
          /\ before[13] = before[3] \o Info(n, name, raw)
          /\ before[3] \in Seq(Byte) /\ Info(n, name, raw) \in Seq(Byte)
          /\ before[14] = before[13] \o <<E>> /\ Len(before[13]) = Len(before[12]) + 1
  <2>1. \E before : Spells(before, url, n, name, raw)
    <3>1. n \in Nat /\ raw \in Seq(Byte) /\ Len(raw) <= MaxInt
      BY <1>3, <1>5
    <3>2. Len(name) <= MaxInt /\ Len(url) <= MaxInt
      BY <1>5
    <3>3. QED
      BY <3>1, <3>2, TorrentWritten
  <2>2. QED
    BY <1>4, <2>1 DEF Spells
<1> DEFINE f0 == {}
           f2 == f0 \cup {"announce"}
           f6 == f2 \cup {"length"}
           f8 == f6 \cup {"name"}
           f10 == f8 \cup {"piece_length"}
           f12 == f10 \cup {"pieces"}
           from == Len(before[3])
           to == Len(before[12])
           s == [last |-> 14, token |-> tokens,
                 end |-> [k \in 0 .. 14 |-> Len(before[k])],
                 depth |-> [k \in 0 .. 14 |->
                     IF k = 14 THEN 0 ELSE IF 4 <= k /\ k <= 12 THEN 2 ELSE 1],
                 turn |-> [k \in {0, 2, 4, 6, 8, 10, 12, 13} |->
                     IF k = 0 THEN In("outer", f0, 0, 0)
                     ELSE IF k = 2 THEN In("outer", f2, 0, 0)
                     ELSE IF k = 4 THEN In("info", f2, from, 0)
                     ELSE IF k = 6 THEN In("info", f6, from, 0)
                     ELSE IF k = 8 THEN In("info", f8, from, 0)
                     ELSE IF k = 10 THEN In("info", f10, from, 0)
                     ELSE IF k = 12 THEN In("info", f12, from, 0)
                     ELSE In("outer", f12, from, to)]]
<1>7. /\ s.last = 14 /\ s.token = tokens
      /\ \A k \in 0 .. 14 : s.end[k] = Len(before[k])
      /\ s.end[3] = from /\ s.end[12] = to
  OBVIOUS
<1>8. /\ s.token[1] = String(Key["announce"]) /\ s.token[2] = String(url)
      /\ s.token[3] = String(Key["info"]) /\ s.token[4] = Open
      /\ s.token[5] = String(Key["length"]) /\ s.token[6] = Integer(n)
      /\ s.token[7] = String(Key["name"]) /\ s.token[8] = String(name)
      /\ s.token[9] = String(Key["piece_length"]) /\ s.token[10] = Integer(PieceLength)
      /\ s.token[11] = String(Key["pieces"]) /\ s.token[12] = String(raw)
      /\ s.token[13] = Close /\ s.token[14] = Close
  BY DEF TorrentTokens
<1>9. /\ DOMAIN s.turn = {0, 2, 4, 6, 8, 10, 12, 13}
      /\ s.turn[0] = In("outer", f0, 0, 0) /\ s.turn[2] = In("outer", f2, 0, 0)
      /\ s.turn[4] = In("info", f2, from, 0) /\ s.turn[6] = In("info", f6, from, 0)
      /\ s.turn[8] = In("info", f8, from, 0) /\ s.turn[10] = In("info", f10, from, 0)
      /\ s.turn[12] = In("info", f12, from, 0) /\ s.turn[13] = In("outer", f12, from, to)
  <2> HIDE DEF f0, f2, f6, f8, f10, f12, from, to, tokens
  <2>1. QED
    OBVIOUS
<1>10. \A k \in 0 .. 14 : s.depth[k] = IF k = 14 THEN 0 ELSE IF 4 <= k /\ k <= 12 THEN 2 ELSE 1
  OBVIOUS
<1> HIDE DEF s, f0, f2, f6, f8, f10, f12, from, to
<1>11. /\ s.token[4].is = "open" /\ s.token[13].is = "close" /\ s.token[14].is = "close"
       /\ \A k \in 0 .. 13 : k \notin {3, 12, 13} => s.token[k + 1].is \in {"string", "integer"}
  <2>1. /\ s.token[1].is = "string" /\ s.token[2].is = "string" /\ s.token[3].is = "string"
        /\ s.token[5].is = "string" /\ s.token[6].is = "integer" /\ s.token[7].is = "string"
        /\ s.token[8].is = "string" /\ s.token[9].is = "string" /\ s.token[10].is = "integer"
        /\ s.token[11].is = "string" /\ s.token[12].is = "string"
    BY <1>8 DEF String, Integer
  <2>2. \A i \in 1 .. 14 : \/ i = 1 \/ i = 2 \/ i = 3 \/ i = 4 \/ i = 5 \/ i = 6 \/ i = 7
                          \/ i = 8 \/ i = 9 \/ i = 10 \/ i = 11 \/ i = 12 \/ i = 13 \/ i = 14
    OBVIOUS
  <2>3. \A i \in 1 .. 14 : i \notin {4, 13, 14} => s.token[i].is \in {"string", "integer"}
    BY <2>1, <2>2
  <2>4. \A k \in 0 .. 13 : k + 1 \in 1 .. 14 /\ (k \notin {3, 12, 13} => k + 1 \notin {4, 13, 14})
    OBVIOUS
  <2>5. s.token[4].is = "open" /\ s.token[13].is = "close" /\ s.token[14].is = "close"
    BY <1>8 DEF Open, Close
  <2>6. QED
    BY <2>3, <2>4, <2>5
<1>12. /\ d.expected["announce"] = url /\ d.expected["name"] = name
       /\ d.expected["length"] = n /\ d.expected["piece_length"] = PieceLength
       /\ d.expected["pieces"] = hashes
       /\ \A f \in Fields \ {"announce", "name", "length", "piece_length", "pieces"} :
             d.expected[f] = Nothing[f]
       /\ d.expected = [f \in Fields |-> d.expected[f]]
  <2>1. \A f \in {"announce", "name", "length", "piece_length", "pieces"} : f \in Fields
    BY DEF Fields, Counts, Texts, Rows
  <2>2. DOMAIN Nothing = Fields
    BY NothingThere
  <2>3. QED
    BY <1>5, <2>1, <2>2
<1> DEFINE Rest == Fields \ {"announce", "name", "length", "piece_length", "pieces"}
<1>13. Expects(d)
  <2>1. \A f \in Counts : d.expected[f] \in Nat
    <3>1. \A f \in Counts : /\ f \in Rest \/ f = "length" \/ f = "piece_length"
                            /\ Nothing[f] = 0
      BY NothingThere DEF Fields, Counts
    <3>2. n \in Nat /\ PieceLength \in Nat /\ 0 \in Nat
      BY <1>5, BencodeAssumption
    <3>3. QED
      BY <1>12, <3>1, <3>2
  <2>2. \A f \in Texts : d.expected[f] \in Seq(Byte)
    <3>1. \A f \in Texts : /\ f \in Rest \/ f = "announce" \/ f = "name"
                           /\ Nothing[f] = <<>>
      BY NothingThere DEF Fields, Texts
    <3>2. <<>> \in Seq(Byte)
      OBVIOUS
    <3>3. QED
      BY <1>12, <3>1, <3>2
  <2>3. d.expected["pieces"] \in Seq(Seq(Byte))
    BY <1>2, <1>12
  <2>4. d.expected["peers"] \in Seq([ip : Seq(Byte), port : Nat])
    <3>1. "peers" \in Rest /\ Nothing["peers"] = <<>>
      BY NothingThere DEF Fields, Rows
    <3>2. <<>> \in Seq([ip : Seq(Byte), port : Nat])
      OBVIOUS
    <3>3. QED
      BY <1>12, <3>1, <3>2
  <2>5. QED
    BY <1>12, <2>1, <2>2, <2>3, <2>4 DEF Expects
<1>14. Laid(d.data, s)
  <2>1. 14 \in Nat
    OBVIOUS
  <2>2. QED
    BY <1>6, <1>7, <2>1, WrittenIsLaid
<1>15. Nested(s)
  <2>1. ASSUME NEW k \in 0 .. 13
        PROVE  /\ s.depth[k] \in Nat \ {0}
               /\ s.depth[k + 1] = CASE s.token[k + 1].is = "open" -> s.depth[k] + 1
                                     [] s.token[k + 1].is = "close" -> s.depth[k] - 1
                                     [] OTHER -> s.depth[k]
    <3>1. k \in 0 .. 14 /\ k + 1 \in 0 .. 14 /\ k # 14
      OBVIOUS
    <3>2. s.depth[k] = IF 4 <= k /\ k <= 12 THEN 2 ELSE 1
      BY <1>10, <3>1
    <3>3. s.depth[k + 1] = IF k + 1 = 14 THEN 0 ELSE IF 4 <= k + 1 /\ k + 1 <= 12 THEN 2 ELSE 1
      BY <1>10, <3>1
    <3>4. CASE k = 3
      <4>1. s.token[k + 1].is = "open"
        BY <1>11, <3>4
      <4>2. s.depth[k] = 1 /\ s.depth[k + 1] = 2 /\ 2 = 1 + 1
        BY <3>2, <3>3, <3>4
      <4>3. QED
        BY <4>1, <4>2
    <3>5. CASE k = 12
      <4>1. s.token[k + 1].is = "close"
        BY <1>11, <3>5
      <4>2. s.depth[k] = 2 /\ s.depth[k + 1] = 1 /\ 1 = 2 - 1
        BY <3>2, <3>3, <3>5
      <4>3. QED
        BY <4>1, <4>2
    <3>6. CASE k = 13
      <4>1. s.token[k + 1].is = "close"
        BY <1>11, <3>6
      <4>2. s.depth[k] = 1 /\ s.depth[k + 1] = 0 /\ 0 = 1 - 1
        BY <3>2, <3>3, <3>6
      <4>3. QED
        BY <4>1, <4>2
    <3>7. CASE k \notin {3, 12, 13}
      <4>1. s.token[k + 1].is # "open" /\ s.token[k + 1].is # "close"
        BY <1>11, <3>7
      <4>2. s.depth[k + 1] = s.depth[k] /\ s.depth[k] \in Nat \ {0}
        BY <3>2, <3>3, <3>7
      <4>3. QED
        BY <4>1, <4>2
    <3>8. QED
      BY <3>4, <3>5, <3>6, <3>7
  <2>2. 14 - 1 = 13 /\ s.depth[0] = 1
    BY <1>10
  <2>3. QED
    BY <1>7, <2>1, <2>2 DEF Nested
<1>16. SubSeq(d.data, from + 1, to + 1) = d.info
  <2> DEFINE x == before[3]
             y == before[13]
             z == Info(n, name, raw)
  <2>1. x \in Seq(Byte) /\ z \in Seq(Byte) /\ y = x \o z /\ d.data = y \o <<E>>
    BY <1>6
  <2>2. y \in Seq(Byte) /\ Len(y) = Len(x) + Len(z) /\ Len(x) \in Nat /\ Len(z) \in Nat
    <3> HIDE DEF x, y, z
    <3>1. QED
      BY <2>1, Joined
  <2>3. to + 1 = Len(y) /\ from = Len(x)
    BY <1>6 DEF from, to
  <2> HIDE DEF x, y, z
  <2>4. <<E>> \in Seq(Byte)
    BY DEF E, Byte
  <2>5. SubSeq(y \o <<E>>, Len(x) + 1, Len(y)) = SubSeq(y, Len(x) + 1, Len(y))
    <3>1. Len(x) \in Nat /\ Len(y) \in Nat /\ Len(x) <= Len(y) /\ Len(y) <= Len(y)
      BY <2>2
    <3>2. QED
      BY <2>2, <2>4, <3>1, SliceOfJoined
  <2>6. SubSeq(x \o z, Len(x) + 1, Len(x) + Len(z)) = z
    BY <2>1, SliceOfJoined
  <2>7. SubSeq(d.data, from + 1, to + 1) = z
    BY <2>1, <2>2, <2>3, <2>5, <2>6
  <2>8. QED
    BY <1>5, <2>7 DEF z
<1>17. Turns(d, s)
  <2>1. /\ "announce" \in Known["outer"] \cap (Texts \cup Rows)
        /\ "length" \in Known["info"] \cap Counts
        /\ "name" \in Known["info"] \cap (Texts \cup Rows)
        /\ "piece_length" \in Known["info"] \cap Counts
        /\ "pieces" \in Known["info"] \cap (Texts \cup Rows)
    BY DEF Known, Counts, Texts, Rows
  <2>2. ValueOf("announce", url) = url /\ ValueOf("name", name) = name
    BY DEF ValueOf
  <2>3. TextTurn(d, s, 0, s.turn[0])
    <3>1. /\ s.turn[0].at = "outer" /\ s.turn[0].nest = 0 /\ s.turn[0].fields = f0
          /\ s.turn[0].from = 0 /\ s.turn[0].to = 0
      BY <1>9 DEF In
    <3>2. Turn(s, 2, "outer", 0, f2, 0, 0) /\ f2 = f0 \cup {"announce"}
      BY <1>9, TurnIn DEF f2
    <3>3. /\ IsKey(s.token[1], "announce")
          /\ s.token[2].is = "string" /\ ValueOf("announce", s.token[2].of) = d.expected["announce"]
          /\ "announce" \notin Rows
      BY <1>3, <1>8, <1>12, <2>2 DEF IsKey, String, Rows
    <3>4. 0 + 1 = 1 /\ 0 + 2 = 2
      OBVIOUS
    <3>5. QED
      BY <2>1, <3>1, <3>2, <3>3, <3>4 DEF TextTurn
  <2>4. InfoTurn(s, 2, s.turn[2])
    <3>1. /\ s.turn[2].at = "outer" /\ s.turn[2].nest = 0 /\ s.turn[2].fields = f2
          /\ s.turn[2].from = 0 /\ s.turn[2].to = 0
      BY <1>9 DEF In
    <3>2. Turn(s, 4, "info", 0, f2, s.end[3], 0)
      BY <1>7, <1>9, TurnIn
    <3>3. IsKey(s.token[3], "info") /\ s.token[4].is = "open"
      BY <1>8, <1>11 DEF IsKey, String
    <3>4. 2 + 1 = 3 /\ 2 + 2 = 4
      OBVIOUS
    <3>5. QED
      BY <3>1, <3>2, <3>3, <3>4 DEF InfoTurn
  <2>5. CountTurn(d, s, 4, s.turn[4])
    <3>1. /\ s.turn[4].at = "info" /\ s.turn[4].nest = 0 /\ s.turn[4].fields = f2
          /\ s.turn[4].from = from /\ s.turn[4].to = 0
      BY <1>9 DEF In
    <3>2. Turn(s, 6, "info", 0, f6, from, 0) /\ f6 = f2 \cup {"length"}
      BY <1>9, TurnIn DEF f6
    <3>3. /\ IsKey(s.token[5], "length")
          /\ s.token[6].is = "integer" /\ s.token[6].of = d.expected["length"]
          /\ d.expected["length"] <= Holds("length")
      BY <1>5, <1>8, <1>12 DEF IsKey, String, Integer, Holds, Ints
    <3>4. 4 + 1 = 5 /\ 4 + 2 = 6
      OBVIOUS
    <3>5. QED
      BY <2>1, <3>1, <3>2, <3>3, <3>4 DEF CountTurn
  <2>6. TextTurn(d, s, 6, s.turn[6])
    <3>1. /\ s.turn[6].at = "info" /\ s.turn[6].nest = 0 /\ s.turn[6].fields = f6
          /\ s.turn[6].from = from /\ s.turn[6].to = 0
      BY <1>9 DEF In
    <3>2. Turn(s, 8, "info", 0, f8, from, 0) /\ f8 = f6 \cup {"name"}
      BY <1>9, TurnIn DEF f8
    <3>3. /\ IsKey(s.token[7], "name")
          /\ s.token[8].is = "string" /\ ValueOf("name", s.token[8].of) = d.expected["name"]
          /\ "name" \notin Rows
      BY <1>3, <1>8, <1>12, <2>2 DEF IsKey, String, Rows
    <3>4. 6 + 1 = 7 /\ 6 + 2 = 8
      OBVIOUS
    <3>5. QED
      BY <2>1, <3>1, <3>2, <3>3, <3>4 DEF TextTurn
  <2>7. CountTurn(d, s, 8, s.turn[8])
    <3>1. /\ s.turn[8].at = "info" /\ s.turn[8].nest = 0 /\ s.turn[8].fields = f8
          /\ s.turn[8].from = from /\ s.turn[8].to = 0
      BY <1>9 DEF In
    <3>2. Turn(s, 10, "info", 0, f10, from, 0) /\ f10 = f8 \cup {"piece_length"}
      BY <1>9, TurnIn DEF f10
    <3>3. /\ IsKey(s.token[9], "piece_length")
          /\ s.token[10].is = "integer" /\ s.token[10].of = d.expected["piece_length"]
          /\ d.expected["piece_length"] <= Holds("piece_length")
      BY <1>5, <1>8, <1>12 DEF IsKey, String, Integer, Holds, Ints
    <3>4. 8 + 1 = 9 /\ 8 + 2 = 10
      OBVIOUS
    <3>5. QED
      BY <2>1, <3>1, <3>2, <3>3, <3>4 DEF CountTurn
  <2>8. TextTurn(d, s, 10, s.turn[10])
    <3>1. /\ s.turn[10].at = "info" /\ s.turn[10].nest = 0 /\ s.turn[10].fields = f10
          /\ s.turn[10].from = from /\ s.turn[10].to = 0
      BY <1>9 DEF In
    <3>2. Turn(s, 12, "info", 0, f12, from, 0) /\ f12 = f10 \cup {"pieces"}
      BY <1>9, TurnIn DEF f12
    <3>3. /\ IsKey(s.token[11], "pieces")
          /\ s.token[12].is = "string" /\ ValueOf("pieces", s.token[12].of) = d.expected["pieces"]
          /\ "pieces" \notin f10
      BY <1>3, <1>8, <1>12 DEF IsKey, String, f0, f2, f6, f8, f10
    <3>4. 10 + 1 = 11 /\ 10 + 2 = 12
      OBVIOUS
    <3>5. QED
      BY <2>1, <3>1, <3>2, <3>3, <3>4 DEF TextTurn
  <2>9. InfoEnd(s, 12, s.turn[12])
    <3>1. /\ s.turn[12].at = "info" /\ s.turn[12].nest = 0 /\ s.turn[12].fields = f12
          /\ s.turn[12].from = from
      BY <1>9 DEF In
    <3>2. Turn(s, 13, "outer", 0, f12, from, s.end[12])
      BY <1>7, <1>9, TurnIn
    <3>3. 12 + 1 = 13
      OBVIOUS
    <3>4. QED
      BY <1>11, <3>1, <3>2, <3>3 DEF InfoEnd
  <2>10. LastTurn(d, s, 13, s.turn[13])
    <3>1. /\ s.turn[13].at = "outer" /\ s.turn[13].nest = 0 /\ s.turn[13].fields = f12
          /\ s.turn[13].from = from /\ s.turn[13].to = to
      BY <1>9 DEF In
    <3>2. \A f \in Fields \ f12 : d.expected[f] = Nothing[f]
      BY <1>12 DEF f0, f2, f6, f8, f10, f12
    <3>3. 13 + 1 = 14
      OBVIOUS
    <3>4. QED
      BY <1>7, <1>11, <1>16, <3>1, <3>2, <3>3 DEF LastTurn
  <2>11. Turn(s, 0, d.kind, 0, {}, 0, 0)
    BY <1>5, <1>9, TurnIn DEF f0
  <2>12. DOMAIN s.turn \subseteq 0 .. s.last - 1
    BY <1>7, <1>9
  <2>13. \A k \in DOMAIN s.turn : s.turn[k].at \in Dictionaries
    BY <1>9 DEF In, Dictionaries
  <2>14. QED
    BY <1>9, <2>3, <2>4, <2>5, <2>6, <2>7, <2>8, <2>9, <2>10, <2>11, <2>12, <2>13 DEF Turns
<1>18. QED
  BY <1>13, <1>14, <1>15, <1>17 DEF WellFormed, IsScript

-----------------------------------------------------------------------------
(* What this program writes it reads: every torrent of create_torrent, of  *)
(* any file, file name and url, and the response of its tracker, is read   *)
(* to its end as it was written if it arrives whole, and if it is cut      *)
(* nothing is misread or made up.                                          *)
THEOREM OwnDocumentsRead ==
    ASSUME Sha1Hashes, MaxInt >= 60, PieceLength <= MaxLong,
           \A d \in Documents : OwnTorrent(d) \/ OwnResponse(d)
    PROVE  Spec => [](WholeIsRead /\ NothingInvented)
<1>1. \A d \in Documents : WellFormed(d)
  <2> SUFFICES ASSUME NEW d \in Documents PROVE WellFormed(d)
    OBVIOUS
  <2>1. MaxInt >= 6
    BY BencodeAssumption
  <2>2. CASE OwnTorrent(d)
    BY <2>1, <2>2, TorrentWellFormed
  <2>3. CASE OwnResponse(d)
    BY <2>3, ResponseWellFormed
  <2>4. QED
    BY <2>2, <2>3
<1>2. ReadInv => WholeIsRead /\ NothingInvented
  BY ReadInvSays
<1>3. QED
  BY <1>1, <1>2, ReadInvAlways, PTL

=============================================================================

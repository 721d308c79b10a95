--------------------------- MODULE OperatorProofs -----------------------------
(***************************************************************************)
(* Proofs about the two components that are operators, with no state of    *)
(* their own: ALU and TypeRecord.                                          *)
(*                                                                         *)
(* The arithmetic, for every width of words the assumption allows: the     *)
(* division instructions divide with remainder, and the unsigned rotations *)
(* move every bit by the count and undo each other.  For the rotations a   *)
(* word is the set of its bits: words with the same bits are the same      *)
(* (BitsDetermine), and every set of bits has a word, which WordOf finds   *)
(* (WordOfBits).  The shifts are described bit by bit (ShlBits, ShrBits).  *)
(*                                                                         *)
(* The type recorder, on every program: ProgramInv says what a program is, *)
(* FirstWords and OpcodesLoaded where its opcodes lie in memory.  As long  *)
(* as no instruction has two operands, both cursors stand at the next      *)
(* opcode after each round (AtInstr, ReachesInstr); what is behind the     *)
(* writing cursor is never written again (RecordKept).                     *)
(***************************************************************************)
EXTENDS MCALU, MCTypeRecord, DataLemmas

-----------------------------------------------------------------------------
(* Division.                                                               *)

\* All that the proofs need of the width: half the words are negative.
LEMMA HalfOfWords ==
  /\ Least \in Nat \ {0}
  /\ 2^Width = 2 * Least
  /\ Word = 0 .. 2 * Least - 1
  /\ Trap \notin Nat
<1>1. PICK k \in 0 .. 5 : Width = 2^k
  BY ALUAssumption
<1>2. CASE k = 0
  <2>1. Width = 1 /\ Width - 1 = 0
    BY <1>1, <1>2
  <2>2. 2^1 = 2 /\ 2^0 = 1
    OBVIOUS
  <2> QED BY <2>1, <2>2, ALUAssumption DEF Least, Word
<1>3. CASE k = 1
  <2>1. Width = 2 /\ Width - 1 = 1
    BY <1>1, <1>3
  <2>2. 2^2 = 4 /\ 2^1 = 2
    OBVIOUS
  <2> QED BY <2>1, <2>2, ALUAssumption DEF Least, Word
<1>4. CASE k = 2
  <2>1. Width = 4 /\ Width - 1 = 3
    BY <1>1, <1>4
  <2>2. 2^4 = 16 /\ 2^3 = 8
    OBVIOUS
  <2> QED BY <2>1, <2>2, ALUAssumption DEF Least, Word
<1>5. CASE k = 3
  <2>1. Width = 8 /\ Width - 1 = 7
    BY <1>1, <1>5
  <2>2. 2^8 = 256 /\ 2^7 = 128
    OBVIOUS
  <2> QED BY <2>1, <2>2, ALUAssumption DEF Least, Word
<1>6. CASE k = 4
  <2>1. Width = 16 /\ Width - 1 = 15
    BY <1>1, <1>6
  <2>2. 2^16 = 65536 /\ 2^15 = 32768
    OBVIOUS
  <2> QED BY <2>1, <2>2, ALUAssumption DEF Least, Word
<1>7. CASE k = 5
  <2>1. Width = 32 /\ Width - 1 = 31
    BY <1>1, <1>7
  <2>2. 2^32 = 4294967296 /\ 2^31 = 2147483648
    OBVIOUS
  <2> QED BY <2>1, <2>2, ALUAssumption DEF Least, Word
<1> QED BY <1>2, <1>3, <1>4, <1>5, <1>6, <1>7

\* Two's complement: what a word means, and that wrapping gives the word back.
LEMMA SignedRange ==
  ASSUME NEW w \in Word
  PROVE  /\ Signed(w) \in -Least .. Least - 1
         /\ Signed(w) = 0 <=> w = 0
         /\ Signed(w) = -Least <=> w = Least
BY HalfOfWords DEF Signed

LEMMA SignedWrap ==
  ASSUME NEW s \in -Least .. Least - 1
  PROVE  Signed(Wrap(s)) = s
<1>1. CASE s >= 0
  <2>1. s % (2 * Least) = s
    BY <1>1, HalfOfWords
  <2> QED BY <1>1, <2>1, HalfOfWords DEF Signed, Wrap
<1>2. CASE s < 0
  <2>1. s % (2 * Least) = s + 2 * Least
    BY <1>2, HalfOfWords
  <2> QED BY <1>2, <2>1, HalfOfWords DEF Signed, Wrap
<1> QED BY <1>1, <1>2, HalfOfWords

LEMMA DivisionOfNaturals ==
  ASSUME NEW a \in Nat, NEW b \in Nat \ {0}
  PROVE  a \div b \in Nat /\ a % b \in Nat /\ b * (a \div b) + (a % b) = a /\ a % b < b
<1>1. \A x \in Nat, y \in Nat \ {0} : y * (x \div y) + (x % y) = x /\ x % y < y
  OBVIOUS
<1>2. a \div b \in Int /\ a % b \in Nat
  OBVIOUS
<1>3. a \div b \in Nat
  OBVIOUS
<1> QED BY <1>1, <1>2, <1>3

\* Division of numbers rounds toward zero.
LEMMA DivisionTowardZero ==
  ASSUME NEW n \in Int, NEW d \in Int \ {0}
  PROVE  /\ Quotient(n, d) \in Int /\ Remainder(n, d) \in Int
         /\ d * Quotient(n, d) + Remainder(n, d) = n
         /\ Magnitude(Remainder(n, d)) < Magnitude(d)
         /\ Remainder(n, d) # 0 => (Remainder(n, d) < 0) = (n < 0)
         /\ Magnitude(Quotient(n, d)) <= Magnitude(n)
         /\ Quotient(n, d) = Magnitude(n) => n = 0 \/ d = 1 \/ d = -1
<1>1. PICK a \in Nat, b \in Nat \ {0} : a = Magnitude(n) /\ b = Magnitude(d)
  BY DEF Magnitude
<1>2. PICK q \in Nat, e \in Nat : q = a \div b /\ a = b * q + e /\ e < b
  <2>1. a \div b \in Nat /\ a % b \in Nat /\ a = b * (a \div b) + (a % b) /\ a % b < b
    BY DivisionOfNaturals
  <2> DEFINE q == a \div b
             e == a % b
  <2>2. q \in Nat /\ e \in Nat /\ q = a \div b /\ a = b * q + e /\ e < b
    BY <2>1
  <2> HIDE DEF q, e
  <2> QED BY <2>2, Zenon
<1>3. q <= a /\ (q = a => a = 0 \/ b = 1)
  BY <1>2
<1>4. Quotient(n, d) = IF (n < 0) = (d < 0) THEN q ELSE -q
  BY <1>1, <1>2 DEF Quotient
<1>5. d * Quotient(n, d) = IF n < 0 THEN -(b * q) ELSE b * q
  <2>1. CASE n < 0 /\ d < 0
    <3>1. Quotient(n, d) = q /\ d = -b
      BY <1>1, <1>4, <2>1 DEF Magnitude
    <3> QED BY <2>1, <3>1
  <2>2. CASE n < 0 /\ ~(d < 0)
    <3>1. Quotient(n, d) = -q /\ d = b
      BY <1>1, <1>4, <2>2 DEF Magnitude
    <3> QED BY <2>2, <3>1
  <2>3. CASE ~(n < 0) /\ d < 0
    <3>1. Quotient(n, d) = -q /\ d = -b
      BY <1>1, <1>4, <2>3 DEF Magnitude
    <3> QED BY <2>3, <3>1
  <2>4. CASE ~(n < 0) /\ ~(d < 0)
    <3>1. Quotient(n, d) = q /\ d = b
      BY <1>1, <1>4, <2>4 DEF Magnitude
    <3> QED BY <2>4, <3>1
  <2> QED BY <2>1, <2>2, <2>3, <2>4
<1>6. Remainder(n, d) = IF n < 0 THEN -e ELSE e
  <2>1. n = IF n < 0 THEN -a ELSE a
    BY <1>1 DEF Magnitude
  <2> QED BY <1>2, <1>5, <2>1 DEF Remainder
<1>7. d * Quotient(n, d) + Remainder(n, d) = n
  <2>1. CASE n < 0
    <3>1. n = -a /\ d * Quotient(n, d) = -(b * q) /\ Remainder(n, d) = -e
      BY <1>1, <1>5, <1>6, <2>1 DEF Magnitude
    <3>2. b * q \in Nat
      OBVIOUS
    <3> QED BY <1>2, <3>1, <3>2
  <2>2. CASE ~(n < 0)
    <3>1. n = a /\ d * Quotient(n, d) = b * q /\ Remainder(n, d) = e
      BY <1>1, <1>5, <1>6, <2>2 DEF Magnitude
    <3> QED BY <1>2, <3>1
  <2> QED BY <2>1, <2>2
<1>8. Magnitude(Remainder(n, d)) = e /\ (Remainder(n, d) # 0 => (Remainder(n, d) < 0) = (n < 0))
  BY <1>6 DEF Magnitude
<1>9. Magnitude(Quotient(n, d)) = q /\ Quotient(n, d) <= q /\ Quotient(n, d) \in Int
  BY <1>4 DEF Magnitude
<1>10. a = 0 => n = 0
  BY <1>1 DEF Magnitude
<1>11. b = 1 => d = 1 \/ d = -1
  BY <1>1 DEF Magnitude
<1>12. Magnitude(Quotient(n, d)) <= Magnitude(n) /\ Magnitude(Remainder(n, d)) < Magnitude(d)
  BY <1>1, <1>2, <1>3, <1>8, <1>9
<1>13. ASSUME Quotient(n, d) = Magnitude(n) PROVE n = 0 \/ d = 1 \/ d = -1
  <2>1. q = a
    BY <1>1, <1>3, <1>9, <1>13
  <2> QED BY <1>3, <1>10, <1>11, <2>1
<1>14. Remainder(n, d) \in Int
  BY <1>6
<1> QED BY <1>7, <1>8, <1>9, <1>12, <1>13, <1>14

\* What the results of the two signed instructions mean, unless they trap.
LEMMA SignedResults ==
  ASSUME NEW x \in Word, NEW y \in Word, y # 0, ~Overflows(x, y)
  PROVE  /\ Signed(IntResult("divs", x, y)) = Quotient(Signed(x), Signed(y))
         /\ Signed(IntResult("mods", x, y)) = Remainder(Signed(x), Signed(y))
<1> DEFINE n == Signed(x)
           d == Signed(y)
<1>1. n \in -Least .. Least - 1 /\ d \in (-Least .. Least - 1) \ {0}
      /\ (n = -Least <=> x = Least) /\ (n = 0 <=> x = 0)
  BY SignedRange
<1>2. Least \in Nat \ {0}
  BY HalfOfWords
<1>3. ~(n = -Least /\ d = -1)
  BY <1>1 DEF Overflows
<1> HIDE DEF n, d
<1>4. /\ Quotient(n, d) \in Int /\ Remainder(n, d) \in Int
      /\ d * Quotient(n, d) + Remainder(n, d) = n
      /\ Magnitude(Remainder(n, d)) < Magnitude(d)
      /\ Magnitude(Quotient(n, d)) <= Magnitude(n)
      /\ Quotient(n, d) = Magnitude(n) => n = 0 \/ d = 1 \/ d = -1
  <2>1. n \in Int /\ d \in Int \ {0}
    BY <1>1, <1>2
  <2> QED BY <2>1, DivisionTowardZero
<1>5. Remainder(n, d) \in -Least .. Least - 1
  BY <1>1, <1>2, <1>4 DEF Magnitude
<1>6. Quotient(n, d) \in -Least .. Least - 1
  <2>1. Quotient(n, d) \in -Least .. Least
    BY <1>1, <1>2, <1>4 DEF Magnitude
  <2>2. CASE Quotient(n, d) = Least
    <3>1. Magnitude(n) = Least /\ n = -Least
      BY <1>1, <1>2, <1>4, <2>2 DEF Magnitude
    <3>2. d = 1
      BY <1>2, <1>3, <1>4, <2>2, <3>1
    <3>3. Remainder(n, d) = 0
      BY <1>1, <1>4, <3>2 DEF Magnitude
    <3> QED BY <1>2, <1>4, <2>2, <3>1, <3>2, <3>3
  <2> QED BY <1>2, <2>1, <2>2
<1>7. Signed(IntResult("mods", x, y)) = Remainder(n, d)
  BY <1>5, SignedWrap DEF IntResult, n, d
<1>8. Signed(IntResult("divs", x, y)) = Quotient(n, d)
  <2>1. CASE x = 0
    <3>1. n = 0
      BY <1>1, <2>1
    <3>2. Quotient(n, d) = 0
      BY <1>4, <3>1 DEF Magnitude
    <3>3. IntResult("divs", x, y) = 0
      BY <2>1 DEF IntResult
    <3>4. Signed(0) = 0
      BY <1>2 DEF Signed
    <3> QED BY <3>2, <3>3, <3>4
  <2>2. CASE x # 0
    BY <1>6, <2>2, SignedWrap DEF IntResult, n, d
  <2> QED BY <2>1, <2>2
<1> QED BY <1>7, <1>8 DEF n, d

LEMMA UnsignedDivision ==
  ASSUME NEW x \in Word, NEW y \in Word, y # 0
  PROVE  /\ y * UintResult("div", x, y) + UintResult("mod", x, y) = x
         /\ UintResult("mod", x, y) < y
<1>1. x \in Nat /\ y \in Nat \ {0}
  BY HalfOfWords
<1>2. UintResult("mod", x, y) = x % y
  BY DEF UintResult
<1>3. UintResult("div", x, y) = IF x = 0 THEN 0 ELSE x \div y
  BY DEF UintResult
<1>4. CASE x = 0
  <2>1. UintResult("div", x, y) = 0 /\ UintResult("mod", x, y) = 0
    BY <1>1, <1>2, <1>3, <1>4
  <2> QED BY <1>1, <1>4, <2>1
<1>5. CASE x # 0
  <2>1. y * (x \div y) + (x % y) = x /\ x % y < y
    BY <1>1, DivisionOfNaturals
  <2> QED BY <1>2, <1>3, <1>5, <2>1
<1> QED BY <1>4, <1>5

LEMMA WordsDivide == l \in Word /\ r \in Word => DivisionWithRemainder
<1> SUFFICES ASSUME l \in Word, r \in Word PROVE DivisionWithRemainder
  OBVIOUS
<1>1. CASE r = 0
  BY <1>1 DEF DivisionWithRemainder, zero_div
<1>2. CASE r # 0
  <2>1. r * UintResult("div", l, r) + UintResult("mod", l, r) = l /\ UintResult("mod", l, r) < r
    BY <1>2, UnsignedDivision
  <2>2. CASE Signed(l) = -Least /\ Signed(r) = -1
    <3>1. Overflows(l, r) /\ l # 0
      BY <2>2, SignedRange, HalfOfWords DEF Overflows
    <3> QED BY <1>2, <2>1, <2>2, <3>1 DEF DivisionWithRemainder, IntResult
  <2>3. CASE ~(Signed(l) = -Least /\ Signed(r) = -1)
    <3>1. ~Overflows(l, r)
      BY <2>3, SignedRange DEF Overflows
    <3>2. /\ Signed(IntResult("divs", l, r)) = Quotient(Signed(l), Signed(r))
          /\ Signed(IntResult("mods", l, r)) = Remainder(Signed(l), Signed(r))
      BY <1>2, <3>1, SignedResults
    <3>3. Signed(l) \in Int /\ Signed(r) \in Int \ {0}
      BY <1>2, SignedRange, HalfOfWords
    <3>4. LET q == Quotient(Signed(l), Signed(r))
              m == Remainder(Signed(l), Signed(r))
          IN  /\ Signed(r) * q + m = Signed(l)
              /\ Magnitude(m) < Magnitude(Signed(r))
              /\ m # 0 => (m < 0) = (Signed(l) < 0)
      BY <3>3, DivisionTowardZero
    <3> QED BY <1>2, <2>1, <2>3, <3>2, <3>4 DEF DivisionWithRemainder
  <2> QED BY <2>2, <2>3
<1> QED BY <1>1, <1>2

\* On words of every width the division instructions divide with remainder,
\* toward zero when signed, and only the least number by -1 traps: for all pairs
\* of words, as the specification visits them all.
THEOREM DivisionHolds == Spec => []DivisionWithRemainder
<1> DEFINE IsPair == l \in Word /\ r \in Word
<1>1. Init => IsPair
  BY HalfOfWords DEF Init
<1>2. IsPair /\ [Next]_<<l, r>> => IsPair'
  BY DEF Next
<1> QED BY <1>1, <1>2, WordsDivide, PTL DEF Spec

-----------------------------------------------------------------------------
(* Division by products and of sums, and the powers of two.                *)

\* What division is, and what it does to sums and products.
LEMMA DivisionIs ==
  ASSUME NEW m \in Nat \ {0}, NEW q \in Int, NEW t \in 0 .. m - 1
  PROVE  (m * q + t) \div m = q /\ (m * q + t) % m = t
<1> DEFINE a == m * q + t
           p == a \div m
           e == a % m
<1>1. a \in Int /\ p \in Int /\ e \in 0 .. m - 1 /\ a = m * p + e
  OBVIOUS
<1> HIDE DEF p, e
<1>2. m * (p - q) = t - e
  BY <1>1
<1>3. CASE p > q
  <2>1. p - q >= 1
    BY <1>1, <1>3
  <2>2. m * (p - q) >= m
    BY <1>1, <2>1
  <2> QED BY <1>1, <1>2, <2>2
<1>4. CASE p < q
  <2>1. q - p >= 1
    BY <1>1, <1>4
  <2>2. m * (q - p) >= m
    BY <1>1, <2>1
  <2>3. m * (q - p) = e - t
    BY <1>1, <1>2
  <2> QED BY <1>1, <2>2, <2>3
<1>5. p = q
  BY <1>1, <1>3, <1>4
<1>6. e = t
  BY <1>1, <1>5
<1> QED BY <1>5, <1>6 DEF p, e

LEMMA DivisionGives ==
  ASSUME NEW a \in Nat, NEW m \in Nat \ {0}
  PROVE  \E q \in Nat, t \in 0 .. m - 1 : a = m * q + t /\ a \div m = q /\ a % m = t
<1> DEFINE q == a \div m
           t == a % m
<1>1. q \in Nat /\ t \in Nat /\ m * q + t = a /\ t < m
  BY DivisionOfNaturals
<1>2. q \in Nat /\ t \in 0 .. m - 1 /\ a = m * q + t /\ a \div m = q /\ a % m = t
  BY <1>1
<1> HIDE DEF q, t
<1> QED BY <1>2

LEMMA DivideTwice ==
  ASSUME NEW a \in Nat, NEW m \in Nat \ {0}, NEW k \in Nat \ {0}
  PROVE  (a \div m) \div k = a \div (m * k)
<1>1. PICK q \in Nat, t \in 0 .. m - 1 : a = m * q + t /\ a \div m = q
  BY DivisionGives
<1>2. PICK p \in Nat, e \in 0 .. k - 1 : q = k * p + e /\ q \div k = p
  BY DivisionGives
<1>3. a = (m * k) * p + (m * e + t)
  BY <1>1, <1>2
<1>4. m * k \in Nat \ {0}
  BY SMT
<1>5. m * e + t \in 0 .. m * k - 1
  <2>1. m * e <= m * (k - 1)
    BY SMT
  <2>2. m * (k - 1) = m * k - m /\ m * e \in Nat
    OBVIOUS
  <2> QED BY <2>1, <2>2
<1>6. a \div (m * k) = p
  BY <1>3, <1>4, <1>5, DivisionIs
<1> QED BY <1>1, <1>2, <1>6

LEMMA DivideProduct ==
  ASSUME NEW a \in Nat, NEW m \in Nat \ {0}, NEW k \in Nat \ {0}, NEW t \in 0 .. m - 1
  PROVE  (m * a + t) \div (m * k) = a \div k
<1>1. m * a + t \in Nat
  BY SMT
<1>2. (m * a + t) \div m = a
  BY DivisionIs
<1> QED BY <1>1, <1>2, DivideTwice

LEMMA DivideSum ==
  ASSUME NEW a \in Nat, NEW m \in Nat \ {0}, NEW k \in Nat
  PROVE  (m * k + a) \div m = k + (a \div m) /\ m * k + a \in Nat
<1>1. PICK q \in Nat, t \in 0 .. m - 1 : a = m * q + t /\ a \div m = q
  BY DivisionGives
<1>2. m * k + a = m * (k + q) + t
  BY <1>1
<1>3. (m * k + a) \div m = k + q
  <2>1. k + q \in Int
    OBVIOUS
  <2> DEFINE z == k + q
  <2> HIDE DEF z
  <2>2. (m * z + t) \div m = z
    BY ONLY m \in Nat \ {0}, t \in 0 .. m - 1, <2>1, DivisionIs DEF z
  <2> QED BY <1>2, <2>2 DEF z
<1>4. m * k \in Nat
  BY SMT
<1> QED BY <1>1, <1>3, <1>4

LEMMA Parity ==
  ASSUME NEW a \in Nat
  PROVE  /\ a % 2 \in {0, 1} /\ a = 2 * (a \div 2) + (a % 2) /\ a \div 2 \in Nat
         /\ (a + 1) % 2 = 1 - (a % 2)
         /\ \A k \in Nat : (2 * k + a) % 2 = a % 2 /\ (2 * k) % 2 = 0
OBVIOUS

\* The powers of two that the widths need.
LEMMA Powers ==
  /\ 2^0 = 1
  /\ \A i \in 0 .. 32 : 2^i \in Nat \ {0}
  /\ \A i \in 0 .. 31 : 2^(i + 1) = 2 * 2^i
<1>1. PICK f : f = [i \in 0 .. 32 |-> 2^i]
  OBVIOUS
<1>2. /\ f[0] = 1 /\ f[1] = 2 /\ f[2] = 4 /\ f[3] = 8 /\ f[4] = 16 /\ f[5] = 32 /\ f[6] = 64
      /\ f[7] = 128 /\ f[8] = 256 /\ f[9] = 512 /\ f[10] = 1024 /\ f[11] = 2048 /\ f[12] = 4096
      /\ f[13] = 8192 /\ f[14] = 16384 /\ f[15] = 32768 /\ f[16] = 65536 /\ f[17] = 131072
      /\ f[18] = 262144 /\ f[19] = 524288 /\ f[20] = 1048576 /\ f[21] = 2097152
      /\ f[22] = 4194304 /\ f[23] = 8388608 /\ f[24] = 16777216 /\ f[25] = 33554432
      /\ f[26] = 67108864 /\ f[27] = 134217728 /\ f[28] = 268435456 /\ f[29] = 536870912
      /\ f[30] = 1073741824 /\ f[31] = 2147483648 /\ f[32] = 4294967296
  BY <1>1
<1>3. ASSUME NEW i \in 0 .. 32
      PROVE  \/ i = 0 \/ i = 1 \/ i = 2 \/ i = 3 \/ i = 4 \/ i = 5 \/ i = 6 \/ i = 7 \/ i = 8
             \/ i = 9 \/ i = 10 \/ i = 11 \/ i = 12 \/ i = 13 \/ i = 14 \/ i = 15 \/ i = 16
             \/ i = 17 \/ i = 18 \/ i = 19 \/ i = 20 \/ i = 21 \/ i = 22 \/ i = 23 \/ i = 24
             \/ i = 25 \/ i = 26 \/ i = 27 \/ i = 28 \/ i = 29 \/ i = 30 \/ i = 31 \/ i = 32
  OBVIOUS
<1>4. ASSUME NEW i \in 0 .. 32 PROVE f[i] \in Nat \ {0}
  BY <1>2, <1>3
<1>5. ASSUME NEW i \in 0 .. 31 PROVE f[i + 1] = 2 * f[i]
  <2>1. i \in 0 .. 32 /\ i # 32
    OBVIOUS
  <2> QED BY <1>2, <1>3, <2>1
<1>6. 2^0 = 1 /\ \A i \in 0 .. 32 : f[i] = 2^i
  BY <1>1
<1> QED BY <1>4, <1>5, <1>6

LEMMA PowersMultiply ==
  ASSUME NEW i \in 0 .. 32, NEW j \in 0 .. 32 - i
  PROVE  2^(i + j) = 2^i * 2^j
<1> DEFINE Sat == {k \in Nat : k <= 32 - i => 2^(i + k) = 2^i * 2^k}
<1>1. 0 \in Sat
  BY Powers
<1>2. ASSUME NEW k \in Nat, k \in Sat PROVE k + 1 \in Sat
  <2> SUFFICES ASSUME k + 1 <= 32 - i PROVE 2^(i + (k + 1)) = 2^i * 2^(k + 1)
    BY DEF Sat
  <2>1. 2^(i + k) = 2^i * 2^k
    BY <1>2
  <2>2. i + k \in 0 .. 31 /\ k \in 0 .. 31 /\ i + (k + 1) = (i + k) + 1
    OBVIOUS
  <2>3. 2^(k + 1) = 2 * 2^k /\ 2^((i + k) + 1) = 2 * 2^(i + k)
    BY <2>2, Powers
  <2>4. 2^i \in Nat /\ 2^k \in Nat
    <3>1. k \in 0 .. 32
      BY <2>2
    <3> QED BY <3>1, Powers
  <2>5. \A a, b \in Nat : 2 * (a * b) = a * (2 * b)
    OBVIOUS
  <2> QED BY <2>1, <2>2, <2>3, <2>4, <2>5
<1>3. Nat \subseteq Sat
  <2> HIDE DEF Sat
  <2> QED BY <1>1, <1>2, SetInduction
<1> QED BY <1>3

-----------------------------------------------------------------------------
(* Words and their bits.                                                   *)

\* Bit i of a word.
Bit(w, i) == (w \div 2^i) % 2

\* All that the proofs about bits need of the width.
LEMMA WidthAndPowers ==
  /\ Width \in 1 .. 32 /\ Width \in Nat
  /\ Word = 0 .. 2^Width - 1
  /\ \A i \in 0 .. Width : 2^i \in Nat \ {0}
  /\ \A i \in 0 .. Width : \A j \in 0 .. Width - i : 2^(i + j) = 2^i * 2^j
  /\ \A i \in 0 .. Width - 1 : 2^(i + 1) = 2^i * 2
  /\ 2^0 = 1
<1>1. PICK k \in 0 .. 5 : Width = 2^k
  BY ALUAssumption
<1>2. Width \in {1, 2, 4, 8, 16, 32}
  <2>1. k = 0 \/ k = 1 \/ k = 2 \/ k = 3 \/ k = 4 \/ k = 5
    OBVIOUS
  <2>2. CASE k = 0
    BY <1>1, <2>2
  <2>3. CASE k = 1
    BY <1>1, <2>3
  <2>4. CASE k = 2
    BY <1>1, <2>4
  <2>5. CASE k = 3
    BY <1>1, <2>5
  <2>6. CASE k = 4
    BY <1>1, <2>6
  <2>7. CASE k = 5
    BY <1>1, <2>7
  <2> QED BY <2>1, <2>2, <2>3, <2>4, <2>5, <2>6, <2>7
<1>3. Width \in 1 .. 32 /\ Width \in Nat
  BY <1>2
<1>4. ASSUME NEW i \in 0 .. Width PROVE 2^i \in Nat \ {0}
  <2>1. i \in 0 .. 32
    BY <1>3
  <2> QED BY <2>1, Powers
<1>5. ASSUME NEW i \in 0 .. Width, NEW j \in 0 .. Width - i PROVE 2^(i + j) = 2^i * 2^j
  <2>1. i \in 0 .. 32 /\ j \in 0 .. 32 - i
    BY <1>3
  <2> QED BY <2>1, PowersMultiply
<1>6. ASSUME NEW i \in 0 .. Width - 1 PROVE 2^(i + 1) = 2^i * 2
  <2>1. i \in 0 .. 31 /\ i \in 0 .. 32
    BY <1>3
  <2>2. 2^(i + 1) = 2 * 2^i /\ 2^i \in Nat
    BY <2>1, Powers
  <2> QED BY <2>2
<1> QED BY <1>3, <1>4, <1>5, <1>6, Powers DEF Word

LEMMA BitIs ==
  ASSUME NEW w \in Nat, NEW i \in 0 .. Width - 1
  PROVE  /\ Bit(w, i) \in {0, 1} /\ (i \in BitsOf(w) <=> Bit(w, i) = 1)
         /\ w \div 2^i \in Nat /\ 2^i \in Nat \ {0}
         /\ w \div 2^i = 2 * (w \div 2^(i + 1)) + Bit(w, i)
<1>1. i \in 0 .. Width /\ 2^i \in Nat \ {0} /\ 2^(i + 1) = 2^i * 2
  BY WidthAndPowers
<1>2. w \div 2^i \in Nat
  BY <1>1, DivisionOfNaturals
<1>3. (w \div 2^i) \div 2 = w \div 2^(i + 1)
  BY <1>1, DivideTwice
<1> QED BY <1>1, <1>2, <1>3, Parity DEF Bit, BitsOf

\* Words with the same bits are the same word.
LEMMA BitsDetermine ==
  ASSUME NEW v \in Word, NEW w \in Word, BitsOf(v) = BitsOf(w)
  PROVE  v = w
<1> DEFINE Sat == {k \in Nat : k <= Width => v \div 2^(Width - k) = w \div 2^(Width - k)}
<1>1. Width \in Nat /\ 2^Width \in Nat \ {0} /\ v \in Nat /\ w \in Nat
  BY WidthAndPowers
<1>2. 0 \in Sat
  <2>1. \A u \in Word : u \div 2^Width = 0
    <3> TAKE u \in Word
    <3>1. u \in 0 .. 2^Width - 1 /\ u = 2^Width * 0 + u
      BY <1>1, WidthAndPowers
    <3> QED BY <1>1, <3>1, DivisionIs
  <2>2. Width - 0 = Width
    BY <1>1
  <2> QED BY <2>1, <2>2
<1>3. ASSUME NEW k \in Nat, k \in Sat PROVE k + 1 \in Sat
  <2> SUFFICES ASSUME k + 1 <= Width
               PROVE  v \div 2^(Width - (k + 1)) = w \div 2^(Width - (k + 1))
    BY DEF Sat
  <2> DEFINE i == Width - (k + 1)
  <2>1. i \in 0 .. Width - 1 /\ i + 1 = Width - k /\ k <= Width
    BY <1>1
  <2>2. v \div 2^(i + 1) = w \div 2^(i + 1)
    BY <1>3, <2>1
  <2> HIDE DEF i
  <2>3. Bit(v, i) = Bit(w, i)
    BY <1>1, <2>1, BitIs
  <2>4. /\ v \div 2^i = 2 * (v \div 2^(i + 1)) + Bit(v, i)
        /\ w \div 2^i = 2 * (w \div 2^(i + 1)) + Bit(w, i)
    BY <1>1, <2>1, BitIs
  <2>5. v \div 2^i = w \div 2^i
    BY <2>2, <2>3, <2>4
  <2> QED BY <2>5 DEF i
<1>4. Nat \subseteq Sat
  <2> HIDE DEF Sat
  <2> QED BY <1>2, <1>3, SetInduction
<1>5. ASSUME NEW k \in Nat, k <= Width PROVE v \div 2^(Width - k) = w \div 2^(Width - k)
  BY <1>4, <1>5
<1>6. ASSUME NEW k \in Nat, k = Width PROVE v \div 1 = w \div 1
  <2>1. k <= Width /\ Width - k = 0 /\ 2^0 = 1
    BY <1>1, <1>6, WidthAndPowers
  <2> QED BY <1>5, <2>1
<1>7. v \div 1 = w \div 1
  BY <1>1, <1>6
<1> QED BY <1>1, <1>7

\* A bit that a word has not can be added to it.
LEMMA BitAdded ==
  ASSUME NEW w \in Word, NEW x \in 0 .. Width - 1, x \notin BitsOf(w)
  PROVE  w + 2^x \in Word /\ BitsOf(w + 2^x) = BitsOf(w) \cup {x}
<1> DEFINE v == w + 2^x
<1>1. /\ Width \in Nat /\ w \in Nat /\ 2^x \in Nat \ {0} /\ v \in Nat
      /\ x \in Nat /\ x \in 0 .. Width /\ 2^(x + 1) = 2^x * 2
  BY WidthAndPowers
<1>2. PICK q \in Nat, low \in 0 .. 2^x - 1 : w = 2^(x + 1) * q + low
  <2>1. PICK p \in Nat, low \in 0 .. 2^x - 1 : w = 2^x * p + low /\ w \div 2^x = p
    BY <1>1, DivisionGives
  <2>2. Bit(w, x) = 0
    BY <1>1, BitIs
  <2>3. p = 2 * (p \div 2) /\ p \div 2 \in Nat
    BY <2>1, <2>2, Parity DEF Bit
  <2>4. PICK q \in Nat : p = 2 * q
    BY <2>3
  <2>5. 2^x * (2 * q) = (2^x * 2) * q
    BY <1>1
  <2>6. w = 2^(x + 1) * q + low
    BY <1>1, <2>1, <2>4, <2>5
  <2> QED BY <2>6
<1>3. /\ 2^(x + 1) \in Nat \ {0} /\ v = 2^(x + 1) * q + (low + 2^x)
      /\ low \in 0 .. 2^(x + 1) - 1 /\ low + 2^x \in 0 .. 2^(x + 1) - 1
  <2>1. 2^(x + 1) * q \in Nat
    BY <1>1
  <2> QED BY <1>1, <1>2, <2>1
<1> HIDE DEF v
<1>4. ASSUME NEW i \in x + 1 .. Width PROVE v \div 2^i = w \div 2^i
  <2> DEFINE j == i - (x + 1)
  <2>1. x + 1 \in 0 .. Width /\ j \in 0 .. Width - (x + 1) /\ j \in 0 .. Width /\ i = (x + 1) + j
    BY <1>1
  <2> HIDE DEF j
  <2>2. 2^i = 2^(x + 1) * 2^j /\ 2^j \in Nat \ {0}
    BY <2>1, WidthAndPowers
  <2> DEFINE m == 2^(x + 1)
             k == 2^j
  <2>3. m \in Nat \ {0} /\ k \in Nat \ {0} /\ 2^i = m * k /\ w = m * q + low /\ v = m * q + (low + 2^x)
        /\ low \in 0 .. m - 1 /\ low + 2^x \in 0 .. m - 1
    BY <1>2, <1>3, <2>2
  <2> HIDE DEF m, k
  <2>4. ASSUME NEW t \in 0 .. m - 1 PROVE (m * q + t) \div (m * k) = q \div k
    <3>1. m \in Nat \ {0} /\ k \in Nat \ {0} /\ q \in Nat
      BY <2>3
    <3> QED BY ONLY <3>1, <2>4, DivideProduct
  <2>5. w \div (m * k) = q \div k /\ v \div (m * k) = q \div k
    BY <2>3, <2>4
  <2> QED BY <2>3, <2>5
<1>5. Bit(v, x) = 1
  <2>1. v = 2^x * 1 + w
    BY <1>1 DEF v
  <2>2. v \div 2^x = 1 + (w \div 2^x)
    BY <1>1, <2>1, DivideSum
  <2>3. Bit(w, x) = 0 /\ w \div 2^x \in Nat
    BY <1>1, BitIs
  <2> QED BY <2>2, <2>3, Parity DEF Bit
<1>6. ASSUME NEW i \in 0 .. x - 1 PROVE Bit(v, i) = Bit(w, i)
  <2> DEFINE j == x - (i + 1)
  <2>1. i \in 0 .. Width - 1 /\ i + 1 \in 0 .. Width /\ j \in 0 .. Width - (i + 1) /\ j \in 0 .. Width /\ x = (i + 1) + j
    BY <1>1
  <2> HIDE DEF j
  <2>2. 2^x = 2^(i + 1) * 2^j /\ 2^(i + 1) = 2^i * 2 /\ 2^j \in Nat /\ 2^i \in Nat \ {0}
    BY <2>1, WidthAndPowers
  <2> DEFINE c == 2^j
  <2>3. v = 2^i * (2 * c) + w
    BY <1>1, <2>2 DEF v
  <2>4. 2 * c \in Nat
    BY <2>2
  <2>5. v \div 2^i = 2 * c + (w \div 2^i)
    BY <1>1, <2>2, <2>3, <2>4, DivideSum
  <2>6. w \div 2^i \in Nat
    BY <1>1, <2>1, BitIs
  <2> QED BY <2>2, <2>5, <2>6, Parity DEF Bit
<1>7. v \in Word
  <2>1. v \div 2^Width = w \div 2^Width
    BY <1>1, <1>4
  <2>2. w \div 2^Width = 0 /\ 2^Width \in Nat \ {0}
    <3>1. w \in 0 .. 2^Width - 1 /\ w = 2^Width * 0 + w /\ 2^Width \in Nat \ {0}
      BY <1>1, WidthAndPowers
    <3> QED BY <3>1, DivisionIs
  <2>3. PICK p \in Nat, t \in 0 .. 2^Width - 1 : v = 2^Width * p + t /\ v \div 2^Width = p
    BY <1>1, <2>2, DivisionGives DEF v
  <2>4. v = t
    BY <2>1, <2>2, <2>3
  <2> QED BY <2>4, WidthAndPowers
<1>8. ASSUME NEW i \in 0 .. Width - 1 PROVE i \in BitsOf(v) <=> i \in BitsOf(w) \cup {x}
  <2>1. v \in Nat
    BY <1>1 DEF v
  <2>5. (i \in BitsOf(v) <=> Bit(v, i) = 1) /\ (i \in BitsOf(w) <=> Bit(w, i) = 1)
    BY <1>1, <2>1, BitIs
  <2>2. CASE i < x
    <3>1. i \in 0 .. x - 1
      BY <1>1, <2>2
    <3>2. Bit(v, i) = Bit(w, i) /\ i # x
      BY <1>1, <1>6, <2>2, <3>1
    <3> QED BY <2>5, <3>2
  <2>3. CASE i = x
    BY <1>5, <2>3, <2>5
  <2>4. CASE i > x
    <3>1. i \in x + 1 .. Width
      BY <1>1, <2>4
    <3>2. Bit(v, i) = Bit(w, i)
      BY <1>4, <3>1 DEF Bit
    <3>3. i # x
      BY <1>1, <2>4
    <3> QED BY <2>5, <3>2, <3>3
  <2> QED BY <1>1, <2>2, <2>3, <2>4
<1>9. BitsOf(v) \subseteq 0 .. Width - 1 /\ BitsOf(w) \subseteq 0 .. Width - 1
  BY DEF BitsOf
<1> QED BY <1>7, <1>8, <1>9 DEF v

LEMMA WordWithBits ==
  ASSUME NEW bits \in SUBSET (0 .. Width - 1)
  PROVE  \E w \in Word : BitsOf(w) = bits
<1> DEFINE Sat == {k \in Nat : k <= Width =>
                       \A b \in SUBSET (0 .. k - 1) : \E w \in Word : BitsOf(w) = b}
<1>1. Width \in Nat /\ 2^Width \in Nat \ {0} /\ Word = 0 .. 2^Width - 1
  BY WidthAndPowers
<1>2. 0 \in Word /\ BitsOf(0) = {}
  <2>1. 0 \in Word
    BY <1>1
  <2>2. ASSUME NEW i \in BitsOf(0) PROVE FALSE
    <3>1. i \in 0 .. Width - 1 /\ i \in 0 .. Width
      BY <1>1 DEF BitsOf
    <3>2. 2^i \in Nat \ {0}
      BY <3>1, WidthAndPowers
    <3>3. 0 \div 2^i = 0
      BY <3>2
    <3>4. (0 \div 2^i) % 2 = 1
      BY DEF BitsOf
    <3>5. 0 % 2 = 1
      BY <3>3, <3>4
    <3> QED BY <3>5
  <2> QED BY <2>1, <2>2
<1>3. 0 \in Sat
  <2>1. ASSUME NEW b \in SUBSET (0 .. 0 - 1) PROVE b = {}
    OBVIOUS
  <2> QED BY <1>2, <2>1
<1>4. ASSUME NEW k \in Nat, k \in Sat PROVE k + 1 \in Sat
  <2> SUFFICES ASSUME k + 1 <= Width, NEW b \in SUBSET (0 .. (k + 1) - 1)
               PROVE  \E w \in Word : BitsOf(w) = b
    BY DEF Sat
  <2>1. b \ {k} \in SUBSET (0 .. k - 1) /\ k <= Width /\ k \in 0 .. Width - 1
    BY <1>1
  <2>2. PICK w \in Word : BitsOf(w) = b \ {k}
    BY <1>4, <2>1
  <2>3. CASE k \in b
    <3>1. k \notin BitsOf(w) /\ BitsOf(w) \cup {k} = b
      BY <2>2, <2>3
    <3> HIDE DEF Sat
    <3>2. w + 2^k \in Word /\ BitsOf(w + 2^k) = BitsOf(w) \cup {k}
      BY <2>1, <2>2, <3>1, BitAdded, Zenon
    <3> QED BY <3>1, <3>2
  <2>4. CASE k \notin b
    BY <2>2, <2>4
  <2> QED BY <2>3, <2>4
<1>5. Nat \subseteq Sat
  <2> HIDE DEF Sat
  <2> QED BY <1>3, <1>4, SetInduction
<1>6. Width \in Sat
  BY <1>1, <1>5
<1> QED BY <1>1, <1>6

LEMMA BitRemoved ==
  ASSUME NEW w \in Word, NEW x \in BitsOf(w)
  PROVE  \E v \in Word : BitsOf(v) = BitsOf(w) \ {x} /\ w = 2^x + v /\ v < w
<1>1. BitsOf(w) \ {x} \in SUBSET (0 .. Width - 1) /\ x \in 0 .. Width - 1
  BY DEF BitsOf
<1>2. PICK v \in Word : BitsOf(v) = BitsOf(w) \ {x}
  BY <1>1, WordWithBits
<1>3. v + 2^x \in Word /\ BitsOf(v + 2^x) = BitsOf(v) \cup {x}
  BY <1>1, <1>2, BitAdded
<1>4. BitsOf(v + 2^x) = BitsOf(w)
  BY <1>2, <1>3
<1>5. v + 2^x = w
  BY <1>3, <1>4, BitsDetermine
<1>6. x \in 0 .. Width /\ 2^Width \in Nat
  BY <1>1, WidthAndPowers
<1>7. 2^x \in Nat \ {0} /\ v \in Nat
  BY <1>6, WidthAndPowers
<1>8. w = 2^x + v /\ v < w
  BY <1>5, <1>7
<1> QED BY <1>2, <1>8

\* The recursion by which MapThenSumSet adds up the powers of bits.
Adds(f, bits) ==
    f = [s \in SUBSET bits |->
            IF s = {} THEN 0 ELSE LET x == CHOOSE x \in s : TRUE IN 2^x + f[s \ {x}]]

\* A word is made of its bits.
LEMMA WordOfBits ==
  ASSUME NEW w \in Word
  PROVE  WordOf(BitsOf(w)) = w
<1> DEFINE bits == BitsOf(w)
           F == [s \in SUBSET bits |-> CHOOSE v \in Word : BitsOf(v) = s]
<1>1. bits \subseteq 0 .. Width - 1
  BY DEF BitsOf
<1> HIDE DEF bits
<1>2. ASSUME NEW s \in SUBSET bits PROVE F[s] \in Word /\ BitsOf(F[s]) = s
  <2>1. \E v \in Word : BitsOf(v) = s
    BY <1>1, WordWithBits
  <2> QED BY <2>1
<1>3. ASSUME NEW v \in Word, BitsOf(v) \in SUBSET bits PROVE F[BitsOf(v)] = v
  <2>1. F[BitsOf(v)] \in Word /\ BitsOf(F[BitsOf(v)]) = BitsOf(v)
    BY <1>2, <1>3
  <2> QED BY <2>1, BitsDetermine
<1>4. 0 \in Word
  <2>1. 2^Width \in Nat \ {0} /\ Word = 0 .. 2^Width - 1
    BY WidthAndPowers
  <2> QED BY <2>1
<1>5. \A u \in Word : BitsOf(u) = {} => u = 0
  <2> SUFFICES ASSUME NEW u \in Word, BitsOf(u) = {} PROVE u = 0
    OBVIOUS
  <2>1. BitsOf(0) = {}
    <3> SUFFICES ASSUME NEW x \in BitsOf(0) PROVE FALSE
      OBVIOUS
    <3>1. PICK v \in Word : v < 0
      BY <1>4, BitRemoved
    <3>2. Word \subseteq Nat
      BY WidthAndPowers
    <3> QED BY <3>1, <3>2
  <2> QED BY <1>4, <2>1, BitsDetermine
<1>6. ASSUME NEW v \in Word, BitsOf(v) # {}
      PROVE  LET x == CHOOSE x \in BitsOf(v) : TRUE
             IN  \E u \in Word : BitsOf(u) = BitsOf(v) \ {x} /\ v = 2^x + u /\ u < v
  BY <1>6, BitRemoved
<1> HIDE DEF F
<1>7. ASSUME NEW s \in SUBSET bits
      PROVE  F[s] = IF s = {} THEN 0 ELSE LET x == CHOOSE x \in s : TRUE IN 2^x + F[s \ {x}]
  <2>1. F[s] \in Word /\ BitsOf(F[s]) = s
    BY <1>2
  <2>2. CASE s = {}
    BY <1>5, <2>1, <2>2
  <2>3. CASE s # {}
    <3> DEFINE x == CHOOSE x \in s : TRUE
    <3>1. PICK u \in Word : BitsOf(u) = s \ {x} /\ F[s] = 2^x + u
      BY <1>6, <2>1, <2>3
    <3>2. F[s \ {x}] = u
      <4>1. s \ {x} \in SUBSET bits
        OBVIOUS
      <4> QED BY <1>3, <3>1, <4>1
    <3> QED BY <2>3, <3>1, <3>2
  <2> QED BY <2>2, <2>3
<1>8. Adds(F, bits)
  <2>1. F = [s \in SUBSET bits |-> F[s]]
    BY DEF F
  <2> QED BY <1>7, <2>1 DEF Adds
<1> DEFINE g == CHOOSE g : Adds(g, bits)
<1>9. Adds(g, bits)
  BY <1>8
<1>10. WordOf(bits) = g[bits]
  BY DEF WordOf, MapThenSumSet, MapThenFoldSet, Adds
<1> HIDE DEF g
<1>11. g[bits] = w
  <2> DEFINE T == {v \in Word : BitsOf(v) \in SUBSET bits /\ g[BitsOf(v)] # v}
  <2>1. SUFFICES ASSUME T # {} PROVE FALSE
    BY DEF bits
  <2>2. T \subseteq Nat
    BY WidthAndPowers
  <2>3. PICK v \in T : \A u \in T : v <= u
    <3> HIDE DEF T
    <3> QED BY <2>1, <2>2, LeastElement
  <2>4. v \in Word /\ BitsOf(v) \in SUBSET bits /\ g[BitsOf(v)] # v
    BY <2>3
  <2>5. g[BitsOf(v)] = IF BitsOf(v) = {} THEN 0
                       ELSE LET x == CHOOSE x \in BitsOf(v) : TRUE IN 2^x + g[BitsOf(v) \ {x}]
    BY <1>9, <2>4 DEF Adds
  <2>6. CASE BitsOf(v) = {}
    BY <1>5, <2>4, <2>5, <2>6
  <2>7. CASE BitsOf(v) # {}
    <3> DEFINE x == CHOOSE x \in BitsOf(v) : TRUE
    <3>1. PICK u \in Word : BitsOf(u) = BitsOf(v) \ {x} /\ v = 2^x + u /\ u < v
      BY <1>6, <2>4, <2>7
    <3>2. u \notin T
      BY <2>2, <2>3, <3>1
    <3>3. g[BitsOf(u)] = u
      BY <2>4, <3>1, <3>2
    <3> QED BY <2>4, <2>5, <2>7, <3>1, <3>3
  <2> QED BY <2>6, <2>7
<1> QED BY <1>10, <1>11 DEF bits

LEMMA BitsOfWord ==
  ASSUME NEW bits \in SUBSET (0 .. Width - 1)
  PROVE  WordOf(bits) \in Word /\ BitsOf(WordOf(bits)) = bits
<1>1. PICK w \in Word : BitsOf(w) = bits
  BY WordWithBits
<1>2. WordOf(bits) = w
  BY <1>1, WordOfBits
<1> QED BY <1>1, <1>2

-----------------------------------------------------------------------------
(* Shifts and rotations.                                                   *)

\* Where a shift by n moves the bits of a word, and that it drops the others.
LEMMA ShlBits ==
  ASSUME NEW w \in Word, NEW n \in 0 .. Width - 1, NEW j \in 0 .. Width - 1
  PROVE  /\ Wrap(w * 2^n) \in Word
         /\ j \in BitsOf(Wrap(w * 2^n)) <=> j >= n /\ j - n \in BitsOf(w)
<1> DEFINE p == 2^n
           v == Wrap(w * p)
           h == 2^(Width - n)
<1> SUFFICES v \in Word /\ (j \in BitsOf(v) <=> j >= n /\ j - n \in BitsOf(w))
  OBVIOUS
<1>1. /\ Width \in Nat /\ w \in Nat /\ n \in 0 .. Width /\ Width - n \in 0 .. Width /\ n + (Width - n) = Width
      /\ j \in Nat /\ n \in Nat
  BY WidthAndPowers
<1>2. p \in Nat \ {0} /\ h \in Nat \ {0} /\ 2^Width = p * h /\ Word = 0 .. p * h - 1
  BY <1>1, WidthAndPowers
<1> HIDE DEF p, h
<1>3. PICK q \in Nat, t \in 0 .. h - 1 : w = h * q + t
  <2>1. w \in Nat /\ h \in Nat \ {0}
    BY <1>1, <1>2
  <2>2. PICK q \in Nat, t \in 0 .. h - 1 : w = h * q + t /\ w \div h = q /\ w % h = t
    BY <2>1, DivisionGives
  <2> QED BY <2>2
<1>4. v = p * t /\ v \in Word
  <2>1. w * p = (p * h) * q + p * t
    BY <1>1, <1>2, <1>3
  <2>2. p * t \in 0 .. p * h - 1
    <3>1. t + 1 <= h
      BY <1>2, <1>3
    <3>2. p * (t + 1) <= p * h /\ p * (t + 1) = p * t + p /\ p * t \in Nat
      BY <1>2, <3>1
    <3> QED BY <1>2, <3>2
  <2>3. p * h \in Nat \ {0}
    BY <1>2
  <2>4. (w * p) % (p * h) = p * t
    BY <2>1, <2>2, <2>3, DivisionIs
  <2> QED BY <1>2, <2>2, <2>4 DEF Wrap
<1> HIDE DEF v
<1>5. t \in Nat /\ v \in Nat
  BY <1>2, <1>3, <1>4
<1>6. j \in BitsOf(v) <=> Bit(v, j) = 1
  BY <1>5, BitIs
<1>7. CASE j < n
  <2> DEFINE k == n - (j + 1)
  <2>1. k \in 0 .. Width /\ j + 1 \in 0 .. Width /\ k \in 0 .. Width - (j + 1) /\ n = (j + 1) + k
    BY <1>1, <1>7
  <2> HIDE DEF k
  <2> DEFINE e == 2^j
             c == 2^k
  <2>2. p = (e * 2) * c /\ e \in Nat \ {0} /\ c \in Nat
    BY <2>1, WidthAndPowers DEF p
  <2> HIDE DEF e, c
  <2>3. v = e * (2 * (c * t)) + 0 /\ c * t \in Nat
    BY <1>4, <1>5, <2>2
  <2>4. v \div e = 2 * (c * t)
    <3>1. 2 * (c * t) \in Int /\ 0 \in 0 .. e - 1
      BY <2>2, <2>3
    <3> QED BY <2>2, <2>3, <3>1, DivisionIs
  <2>5. Bit(v, j) = 0
    BY <2>3, <2>4, Parity DEF Bit, e
  <2> QED BY <1>1, <1>4, <1>6, <1>7, <2>5
<1>8. CASE j >= n
  <2> DEFINE i == j - n
             k == Width - (j + 1)
  <2>1. /\ i \in 0 .. Width - 1 /\ i \in 0 .. Width /\ i \in 0 .. Width - n /\ j = n + i
        /\ k \in 0 .. Width /\ i + 1 \in 0 .. Width /\ k \in 0 .. Width - (i + 1) /\ Width - n = (i + 1) + k
    BY <1>1, <1>8
  <2> HIDE DEF i, k
  <2> DEFINE e == 2^i
             c == 2^k
  <2>2. 2^j = p * e /\ e \in Nat \ {0} /\ c \in Nat /\ h = (e * 2) * c
    BY <1>1, <2>1, WidthAndPowers DEF p, h
  <2> HIDE DEF e, c
  <2>3. v \div (p * e) = t \div e
    <3>1. v = p * t + 0 /\ 0 \in 0 .. p - 1
      BY <1>2, <1>4, <1>5
    <3> QED BY <1>2, <1>5, <2>2, <3>1, DivideProduct
  <2>4. w = e * (2 * (c * q)) + t /\ 2 * (c * q) \in Nat /\ c * q \in Nat
    BY <1>3, <2>2
  <2>5. w \div e = 2 * (c * q) + (t \div e)
    BY <1>5, <2>2, <2>4, DivideSum
  <2>6. t \div e \in Nat
    BY <1>5, <2>2, DivisionOfNaturals
  <2>7. Bit(v, j) = (t \div e) % 2
    BY <2>2, <2>3 DEF Bit
  <2>8. Bit(w, i) = (t \div e) % 2
    BY <2>4, <2>5, <2>6, Parity DEF Bit, e
  <2>9. i \in BitsOf(w) <=> Bit(w, i) = 1
    BY <1>1, <2>1, BitIs
  <2> QED BY <1>4, <1>6, <1>8, <2>7, <2>8, <2>9 DEF i
<1> QED BY <1>1, <1>7, <1>8

LEMMA ShrBits ==
  ASSUME NEW w \in Word, NEW n \in 0 .. Width - 1, NEW j \in 0 .. Width - 1
  PROVE  /\ w \div 2^n \in Word
         /\ j \in BitsOf(w \div 2^n) <=> j + n \in BitsOf(w)
<1> DEFINE p == 2^n
           v == w \div p
<1> SUFFICES v \in Word /\ (j \in BitsOf(v) <=> j + n \in BitsOf(w))
  OBVIOUS
<1>1. /\ Width \in Nat /\ w \in Nat /\ n \in 0 .. Width /\ Width - n \in 0 .. Width /\ n + (Width - n) = Width
      /\ j \in Nat /\ n \in Nat /\ j \in 0 .. Width
  BY WidthAndPowers
<1>2. p \in Nat \ {0} /\ Word = 0 .. 2^Width - 1 /\ 2^j \in Nat \ {0}
  BY <1>1, WidthAndPowers
<1> HIDE DEF p, v
<1>3. PICK q \in Nat, t \in 0 .. p - 1 : w = p * q + t /\ v = q
  BY <1>1, <1>2, DivisionGives DEF v
<1>4. q <= w
  <2>1. p * q >= q
    BY <1>2, <1>3
  <2> QED BY <1>2, <1>3, <2>1
<1>5. v \in Word /\ v \in Nat
  BY <1>1, <1>2, <1>3, <1>4
<1>6. j \in BitsOf(v) <=> Bit(v, j) = 1
  BY <1>5, BitIs
<1>7. CASE j + n <= Width - 1
  <2>1. 2^(n + j) = p * 2^j /\ n + j = j + n /\ j + n \in 0 .. Width - 1
    BY <1>1, <1>7, WidthAndPowers DEF p
  <2>2. v \div 2^j = w \div (p * 2^j)
    <3> DEFINE h == 2^j
    <3>1. w \in Nat /\ p \in Nat \ {0} /\ h \in Nat \ {0} /\ v = w \div p
      BY <1>1, <1>2 DEF v
    <3> HIDE DEF h, v, p
    <3>2. (w \div p) \div h = w \div (p * h)
      BY <3>1, DivideTwice
    <3> QED BY <3>1, <3>2 DEF h
  <2>3. Bit(v, j) = Bit(w, j + n)
    BY <2>1, <2>2 DEF Bit
  <2>4. j + n \in BitsOf(w) <=> Bit(w, j + n) = 1
    BY <1>1, <2>1, BitIs
  <2> QED BY <1>5, <1>6, <2>3, <2>4
<1>8. CASE j + n >= Width
  <2>1. j + n \notin BitsOf(w)
    BY <1>1, <1>8 DEF BitsOf
  <2> DEFINE k == j - (Width - n)
             h == 2^(Width - n)
             c == 2^k
  <2>2. k \in 0 .. Width /\ k \in 0 .. Width - (Width - n) /\ j = (Width - n) + k
    BY <1>1, <1>8
  <2> HIDE DEF k
  <2>3. 2^j = h * c /\ h \in Nat \ {0} /\ c \in Nat \ {0} /\ 2^Width = p * h
    <3>1. 2^((Width - n) + k) = 2^(Width - n) * 2^k
      BY <1>1, <2>2, WidthAndPowers
    <3>2. n \in 0 .. Width /\ Width - n \in 0 .. Width - n /\ 2^(n + (Width - n)) = 2^n * 2^(Width - n)
      BY <1>1, WidthAndPowers
    <3>3. h \in Nat \ {0} /\ c \in Nat \ {0}
      BY <1>1, <2>2, WidthAndPowers
    <3> QED BY <1>1, <2>2, <3>1, <3>2, <3>3 DEF p
  <2> HIDE DEF h, c
  <2>4. q < h
    <3>1. CASE q >= h
      <4>1. p * q >= p * h
        BY <1>2, <1>3, <2>3, <3>1
      <4>2. p * q <= w /\ w < p * h
        BY <1>2, <1>3, <2>3
      <4>3. p * q \in Nat /\ p * h \in Nat
        BY <1>2, <1>3, <2>3
      <4> QED BY <1>1, <4>1, <4>2, <4>3
    <3> QED BY <1>3, <2>3, <3>1
  <2>5. h <= h * c /\ h * c \in Nat \ {0}
    BY <2>3
  <2>6. v \in 0 .. h * c - 1 /\ v = (h * c) * 0 + v
    BY <1>3, <2>3, <2>4, <2>5
  <2>7. v \div (h * c) = 0
    BY <2>5, <2>6, DivisionIs
  <2>8. Bit(v, j) = 0
    BY <2>3, <2>7, Parity DEF Bit
  <2> QED BY <1>5, <1>6, <2>1, <2>8
<1> QED BY <1>1, <1>7, <1>8

\* The two shifts of a rotation by n: for n a multiple of the width they shift by
\* nothing, both of them.
LEMMA ShiftCounts ==
  ASSUME NEW n \in Nat
  PROVE  LET m == n % Width
         IN  /\ m \in 0 .. Width - 1
             /\ (Width - n) % Width = IF m = 0 THEN 0 ELSE Width - m
             /\ \A i \in 0 .. Width - 1 :
                   (i + n) % Width = IF i + m < Width THEN i + m ELSE i + m - Width
<1> DEFINE m == n % Width
<1>1. Width \in Nat \ {0}
  BY WidthAndPowers
<1>2. PICK q \in Nat, t \in 0 .. Width - 1 : n = Width * q + t /\ n \div Width = q /\ m = t
  BY <1>1, DivisionGives
<1> HIDE DEF m
<1>3. Width * q \in Nat
  BY <1>1
<1>4. (Width - n) % Width = IF t = 0 THEN 0 ELSE Width - t
  <2>1. CASE t = 0
    <3>1. Width - n = Width * (1 - q) + 0 /\ 1 - q \in Int /\ 0 \in 0 .. Width - 1
      BY <1>1, <1>2, <2>1
    <3>2. (Width * (1 - q) + 0) % Width = 0
      BY <1>1, <3>1, DivisionIs
    <3> QED BY <2>1, <3>1, <3>2
  <2>2. CASE t # 0
    <3>1. Width - n = Width * (-q) + (Width - t) /\ -q \in Int /\ Width - t \in 0 .. Width - 1
      BY <1>1, <1>2, <2>2
    <3>2. (Width * (-q) + (Width - t)) % Width = Width - t
      BY <1>1, <3>1, DivisionIs
    <3> QED BY <2>2, <3>1, <3>2
  <2> QED BY <2>1, <2>2
<1>5. ASSUME NEW i \in 0 .. Width - 1
      PROVE  (i + n) % Width = IF i + t < Width THEN i + t ELSE i + t - Width
  <2>1. CASE i + t < Width
    <3>1. i + n = Width * q + (i + t) /\ i + t \in 0 .. Width - 1 /\ q \in Int
      BY <1>1, <1>2, <1>3, <2>1
    <3>2. (Width * q + (i + t)) % Width = i + t
      BY <1>1, <3>1, DivisionIs
    <3> QED BY <2>1, <3>1, <3>2
  <2>2. CASE ~(i + t < Width)
    <3>1. i + n = Width * (q + 1) + (i + t - Width) /\ i + t - Width \in 0 .. Width - 1 /\ q + 1 \in Int
      BY <1>1, <1>2, <1>3, <2>2
    <3>2. (Width * (q + 1) + (i + t - Width)) % Width = i + t - Width
      BY <1>1, <3>1, DivisionIs
    <3> QED BY <2>2, <3>1, <3>2
  <2> QED BY <2>1, <2>2
<1> QED BY <1>2, <1>4, <1>5 DEF m

\* The bits of a word, moved by n.
Moved(bits, n) == {(i + n) % Width : i \in bits}

\* Both rotations join the two shifts: the bits are those moved to the left, and
\* those moved back by as much.
LEMMA RotatedBits ==
  ASSUME NEW w \in Word, NEW n \in Nat
  PROVE  /\ Shl(w, n) \in Word /\ Shr(w, n) \in Word
         /\ BitsOf(Shl(w, n)) \cup BitsOf(Shr(w, Width - n)) = Moved(BitsOf(w), n)
         /\ \A v \in Word : BitsOf(v) = Moved(BitsOf(w), n) =>
               BitsOf(Shr(v, n)) \cup BitsOf(Shl(v, Width - n)) = BitsOf(w)
<1> DEFINE m == n % Width
           k == (Width - n) % Width
           All == 0 .. Width - 1
<1>1. /\ Width \in Nat \ {0} /\ m \in All /\ k \in All
      /\ k = IF m = 0 THEN 0 ELSE Width - m
      /\ \A i \in All : (i + n) % Width = IF i + m < Width THEN i + m ELSE i + m - Width
  <2>1. /\ m \in All /\ k = IF m = 0 THEN 0 ELSE Width - m
        /\ \A i \in All : (i + n) % Width = IF i + m < Width THEN i + m ELSE i + m - Width
    BY ShiftCounts
  <2>2. Width \in Nat \ {0}
    BY WidthAndPowers
  <2> HIDE DEF m, k
  <2> QED BY <2>1, <2>2
<1>2. ASSUME NEW v \in Word, NEW j \in All
      PROVE  /\ Shl(v, n) \in Word /\ Shr(v, n) \in Word
             /\ j \in BitsOf(Shl(v, n)) <=> j >= m /\ j - m \in BitsOf(v)
             /\ j \in BitsOf(Shr(v, n)) <=> j + m \in BitsOf(v)
             /\ j \in BitsOf(Shl(v, Width - n)) <=> j >= k /\ j - k \in BitsOf(v)
             /\ j \in BitsOf(Shr(v, Width - n)) <=> j + k \in BitsOf(v)
  BY <1>1, ShlBits, ShrBits DEF Shl, Shr
<1>3. \A v : BitsOf(v) \subseteq All
  BY DEF BitsOf
<1>4. 0 \in All
  BY <1>1
<1> HIDE DEF m, k, All
<1>5. ASSUME NEW j \in All
      PROVE  j \in Moved(BitsOf(w), n) <=>
                IF j >= m THEN j - m \in BitsOf(w) ELSE j - m + Width \in BitsOf(w)
  <2> DEFINE i == IF j >= m THEN j - m ELSE j - m + Width
  <2>1. i \in All /\ (IF i + m < Width THEN i + m ELSE i + m - Width) = j
    BY <1>1 DEF All
  <2>2. \A h \in All : (h + n) % Width = j => h = i
    BY <1>1 DEF All
  <2> HIDE DEF i
  <2>3. (i + n) % Width = j
    BY <1>1, <2>1
  <2>4. j \in Moved(BitsOf(w), n) <=> i \in BitsOf(w)
    BY <1>3, <2>2, <2>3 DEF Moved
  <2> QED BY <2>4 DEF i
<1>6. ASSUME NEW i \in BitsOf(w) PROVE (i + n) % Width \in All
  BY <1>1, <1>3 DEF All
<1>7. Moved(BitsOf(w), n) \subseteq All
  BY <1>6 DEF Moved
<1>8. ASSUME NEW j \in All
      PROVE  j \in BitsOf(Shl(w, n)) \cup BitsOf(Shr(w, Width - n)) <=> j \in Moved(BitsOf(w), n)
  <2>1. /\ j \in BitsOf(Shl(w, n)) <=> j >= m /\ j - m \in BitsOf(w)
        /\ j \in BitsOf(Shr(w, Width - n)) <=> j + k \in BitsOf(w)
    BY <1>2
  <2>2. CASE m = 0
    <3>1. j >= m /\ j - m = j /\ j + k = j
      BY <1>1, <2>2 DEF All
    <3> QED BY <1>5, <2>1, <3>1
  <2>3. CASE m # 0 /\ j >= m
    <3>1. j + k \notin All
      BY <1>1, <2>3 DEF All
    <3> QED BY <1>3, <1>5, <2>1, <2>3, <3>1
  <2>4. CASE m # 0 /\ ~(j >= m)
    <3>1. j + k = j - m + Width
      BY <1>1, <2>4 DEF All
    <3> QED BY <1>5, <2>1, <2>4, <3>1
  <2> QED BY <2>2, <2>3, <2>4
<1>9. ASSUME NEW v \in Word, BitsOf(v) = Moved(BitsOf(w), n), NEW j \in All
      PROVE  j \in BitsOf(Shr(v, n)) \cup BitsOf(Shl(v, Width - n)) <=> j \in BitsOf(w)
  <2>1. /\ j \in BitsOf(Shr(v, n)) <=> j + m \in BitsOf(v)
        /\ j \in BitsOf(Shl(v, Width - n)) <=> j >= k /\ j - k \in BitsOf(v)
    BY <1>2
  <2> DEFINE i == IF j + m < Width THEN j + m ELSE j + m - Width
  <2>2. i \in All /\ j = IF i >= m THEN i - m ELSE i - m + Width
    BY <1>1 DEF All
  <2>3. i \in BitsOf(v) <=> j \in BitsOf(w)
    BY <1>5, <1>9, <2>2
  <2>4. CASE m = 0
    <3>1. j + m = i /\ j >= k /\ j - k = i
      BY <1>1, <2>4 DEF All
    <3> QED BY <2>1, <2>3, <3>1
  <2>5. CASE m # 0 /\ j + m < Width
    <3>1. j + m = i /\ ~(j >= k)
      BY <1>1, <2>5 DEF All
    <3> QED BY <2>1, <2>3, <3>1
  <2>6. CASE m # 0 /\ ~(j + m < Width)
    <3>1. j + m \notin All /\ j >= k /\ j - k = i
      BY <1>1, <2>6 DEF All
    <3> QED BY <1>3, <2>1, <2>3, <3>1
  <2> QED BY <2>4, <2>5, <2>6
<1>10. BitsOf(Shl(w, n)) \cup BitsOf(Shr(w, Width - n)) = Moved(BitsOf(w), n)
  BY <1>3, <1>7, <1>8
<1>11. ASSUME NEW v \in Word, BitsOf(v) = Moved(BitsOf(w), n)
       PROVE  BitsOf(Shr(v, n)) \cup BitsOf(Shl(v, Width - n)) = BitsOf(w)
  BY <1>3, <1>9, <1>11
<1> QED BY <1>2, <1>4, <1>10, <1>11

LEMMA WordsRotate == l \in Word /\ r \in Word => RotationsRotate
<1> SUFFICES ASSUME l \in Word, r \in Word PROVE RotationsRotate
  OBVIOUS
<1>1. r \in Nat
  BY WidthAndPowers
<1>2. UintResult("lrot", l, r) = Or(Shl(l, r), Shr(l, Width - r))
  BY DEF UintResult
<1> DEFINE v == UintResult("lrot", l, r)
<1>3. v = WordOf(Moved(BitsOf(l), r))
  BY <1>1, <1>2, RotatedBits DEF Or
<1>4. Moved(BitsOf(l), r) \in SUBSET (0 .. Width - 1)
  <2>1. BitsOf(Shl(l, r)) \cup BitsOf(Shr(l, Width - r)) = Moved(BitsOf(l), r)
    BY <1>1, RotatedBits
  <2>2. \A w : BitsOf(w) \subseteq 0 .. Width - 1
    BY DEF BitsOf
  <2> QED BY <2>1, <2>2
<1>5. v \in Word /\ BitsOf(v) = Moved(BitsOf(l), r)
  BY <1>3, <1>4, BitsOfWord
<1> HIDE DEF v
<1>6. UintResult("rrot", v, r) = Or(Shr(v, r), Shl(v, Width - r))
  BY DEF UintResult
<1>7. Or(Shr(v, r), Shl(v, Width - r)) = WordOf(BitsOf(l))
  BY <1>1, <1>5, RotatedBits DEF Or
<1>8. UintResult("rrot", v, r) = l
  BY <1>6, <1>7, WordOfBits
<1>9. v = Rotated(l, r)
  BY <1>3 DEF Rotated, Moved
<1> QED BY <1>8, <1>9 DEF RotationsRotate, v

\* On words of every width the unsigned rotations move every bit by the count
\* modulo the width, for all counts, and undo each other.
THEOREM RotationsRotateHolds == Spec => []RotationsRotate
<1> DEFINE IsPair == l \in Word /\ r \in Word
<1>1. Init => IsPair
  BY HalfOfWords DEF Init
<1>2. IsPair /\ [Next]_<<l, r>> => IsPair'
  BY DEF Next
<1> QED BY <1>1, <1>2, WordsRotate, PTL DEF Spec

-----------------------------------------------------------------------------
(* Flattened sequences.                                                    *)

\* f is the function FlattenSeq is defined by.
Flattens(f, s) ==
    /\ f \in [1 .. Len(s) -> Seq(Nat)]
    /\ FlattenSeq(s) = f[Len(s)]
    /\ f[1] = s[1]
    /\ \A i \in 2 .. Len(s) : f[i] = f[i - 1] \o s[i]

LEMMA FlattenIs ==
  ASSUME NEW s \in Seq(Seq(Nat)), Len(s) > 0
  PROVE  \E f : Flattens(f, s)
<1> DEFINE n == Len(s)
           P(f) == f = [i \in 1 .. n |-> IF i = 1 THEN s[i] ELSE f[i - 1] \o s[i]]
           flatten == CHOOSE f : P(f)
           S == Nat \X Seq(Nat)
           Next1(p) == <<p[1] + 1, IF p[1] + 1 \in 1 .. n THEN p[2] \o s[p[1] + 1] ELSE p[2]>>
           F == [p \in S |-> Next1(p)]
           x == <<1, s[1]>>
<1>1. n \in Nat /\ n >= 1 /\ \A i \in 1 .. n : s[i] \in Seq(Nat)
  BY ElementOfSeq
<1>2. FlattenSeq(s) = flatten[n]
  BY <1>1 DEF FlattenSeq
<1>3. x \in S /\ F \in [S -> S] /\ n - 1 \in Nat
  <2>1. ASSUME NEW p \in S PROVE Next1(p) \in S
    <3>1. p[1] \in Nat /\ p[2] \in Seq(Nat) /\ p[1] + 1 \in Nat
      OBVIOUS
    <3>2. CASE p[1] + 1 \in 1 .. n
      BY <1>1, <3>1, <3>2, ConcatProperties
    <3>3. CASE p[1] + 1 \notin 1 .. n
      BY <3>1, <3>3
    <3> QED BY <3>2, <3>3
  <2>2. x \in S
    BY <1>1
  <2> HIDE DEF S, Next1
  <2> QED BY <1>1, <2>1, <2>2
<1>4. PICK g : Iterates(g, S, F, x, n - 1)
  <2> HIDE DEF S, F, x, n
  <2> QED BY <1>3, IterationExists
<1> DEFINE f == [i \in 1 .. n |-> g[i - 1][2]]
<1>5. \A i \in 0 .. n - 1 : g[i] \in S /\ g[i][1] = i + 1
  <2> DEFINE Sat == {i \in 0 .. n - 1 : g[i][1] = i + 1}
  <2>1. 0 \in Sat
    BY <1>1, <1>4 DEF Iterates
  <2>2. ASSUME NEW i \in 0 .. (n - 1) - 1, i \in Sat PROVE i + 1 \in Sat
    <3>1. i + 1 \in 1 .. n - 1 /\ (i + 1) - 1 = i /\ i \in 0 .. n - 1 /\ i + 1 \in 0 .. n - 1
      BY <1>1
    <3>2. g[i + 1] = F[g[i]] /\ g[i] \in S
      BY <1>4, <3>1 DEF Iterates
    <3>3. g[i + 1] = Next1(g[i])
      BY <3>2
    <3>4. g[i + 1][1] = g[i][1] + 1
      BY <3>3
    <3> QED BY <2>2, <3>1, <3>4
  <2>3. 0 .. n - 1 \subseteq Sat
    <3> HIDE DEF Sat, n
    <3> QED BY <1>3, <2>1, <2>2, StepInduction
  <2>4. \A i \in 0 .. n - 1 : g[i] \in S
    BY <1>4 DEF Iterates
  <2> QED BY <2>3, <2>4
<1>6. ASSUME NEW i \in 1 .. n PROVE f[i] \in Seq(Nat) /\ f[i] = IF i = 1 THEN s[i] ELSE f[i - 1] \o s[i]
  <2>1. i - 1 \in 0 .. n - 1 /\ i \in Nat
    BY <1>1
  <2>2. g[i - 1] \in S /\ f[i] = g[i - 1][2]
    BY <1>5, <2>1
  <2>3. CASE i = 1
    BY <1>4, <2>2, <2>3 DEF Iterates
  <2>4. CASE i # 1
    <3>1. i - 1 \in 1 .. n - 1 /\ (i - 1) - 1 \in 0 .. n - 1 /\ i - 1 \in 1 .. n /\ ((i - 1) - 1) + 1 = i - 1
      BY <1>1, <2>4
    <3>2. g[i - 1] = F[g[(i - 1) - 1]] /\ g[(i - 1) - 1] \in S /\ g[(i - 1) - 1][1] = i - 1
      BY <1>4, <1>5, <3>1 DEF Iterates
    <3>3. g[i - 1] = Next1(g[(i - 1) - 1])
      BY <3>2
    <3>4. g[i - 1][2] = g[(i - 1) - 1][2] \o s[i]
      <4> DEFINE q == g[(i - 1) - 1]
      <4>1. q[1] + 1 = i /\ q[1] + 1 \in 1 .. n
        BY <2>1, <3>2
      <4> HIDE DEF q
      <4>2. g[i - 1] = <<q[1] + 1, q[2] \o s[q[1] + 1]>>
        BY <3>3, <4>1 DEF q
      <4>3. g[i - 1][2] = q[2] \o s[q[1] + 1]
        <5> DEFINE h == g[i - 1]
                   a == q[1] + 1
                   b == q[2] \o s[q[1] + 1]
        <5>1. h = <<a, b>>
          BY <4>2
        <5> HIDE DEF h, a, b
        <5>2. h[2] = b
          BY ONLY <5>1
        <5> QED BY <5>2 DEF h, b
      <4>4. s[q[1] + 1] = s[i]
        BY <4>1
      <4>5. g[i - 1][2] = q[2] \o s[i]
        BY <4>3, <4>4
      <4> QED BY <4>5 DEF q
    <3>5. f[i - 1] = g[(i - 1) - 1][2]
      BY <3>1
    <3> QED BY <2>2, <2>4, <3>4, <3>5
  <2> QED BY <2>2, <2>3, <2>4
<1>7. P(f)
  BY <1>6
<1>8. P(flatten)
  <2> HIDE DEF f
  <2>1. \E h : P(h)
    BY <1>7
  <2> HIDE DEF P
  <2> QED BY <2>1
<1>9. ASSUME NEW i \in 1 .. n PROVE flatten[i] = f[i]
  <2> DEFINE Sat == {k \in 0 .. n : k > 0 => flatten[k] = f[k]}
  <2>1. 0 \in Sat
    BY <1>1
  <2>2. ASSUME NEW k \in 0 .. n - 1, k \in Sat PROVE k + 1 \in Sat
    <3>1. k + 1 \in 1 .. n /\ (k + 1) - 1 = k /\ k + 1 \in 0 .. n
      BY <1>1
    <3> HIDE DEF f, flatten
    <3>2. flatten[k + 1] = IF k + 1 = 1 THEN s[k + 1] ELSE flatten[(k + 1) - 1] \o s[k + 1]
      BY <1>8, <3>1
    <3>3. f[k + 1] = IF k + 1 = 1 THEN s[k + 1] ELSE f[(k + 1) - 1] \o s[k + 1]
      BY <1>6, <3>1
    <3>4. CASE k = 0
      BY <3>1, <3>2, <3>3, <3>4
    <3>5. CASE k > 0
      <4>1. flatten[k] = f[k]
        BY <2>2, <3>5
      <4> QED BY <3>1, <3>2, <3>3, <3>5, <4>1
    <3> QED BY <3>4, <3>5
  <2>3. 0 .. n \subseteq Sat
    <3> HIDE DEF Sat, n
    <3> QED BY <1>1, <2>1, <2>2, StepInduction
  <2>4. i \in Sat /\ i > 0
    <3>1. i \in 0 .. n /\ i > 0
      BY <1>1
    <3> HIDE DEF Sat
    <3> QED BY <2>3, <3>1
  <2> QED BY <2>4
<1> HIDE DEF flatten
<1>10. FlattenSeq(s) = f[n] /\ f[1] = s[1] /\ \A i \in 2 .. n : f[i] = f[i - 1] \o s[i]
  <2> HIDE DEF f
  <2>1. n \in 1 .. n /\ 1 \in 1 .. n /\ \A i \in 2 .. n : i \in 1 .. n /\ i # 1
    BY <1>1
  <2> QED BY <1>2, <1>6, <1>9, <2>1
<1>11. f \in [1 .. n -> Seq(Nat)]
  BY <1>6
<1> HIDE DEF f
<1> QED BY <1>10, <1>11 DEF Flattens

\* A sequence more, flattened behind the others.
LEMMA FlattenAppend ==
  ASSUME NEW s \in Seq(Seq(Nat)), NEW x \in Seq(Nat)
  PROVE  FlattenSeq(s) \in Seq(Nat) /\ FlattenSeq(Append(s, x)) = FlattenSeq(s) \o x
<1> DEFINE t == Append(s, x)
           n == Len(s)
<1>1. /\ t \in Seq(Seq(Nat)) /\ Len(t) = n + 1 /\ n \in Nat /\ Len(t) > 0
      /\ \A i \in 1 .. n : t[i] = s[i]
      /\ t[n + 1] = x
  BY AppendProperties
<1> HIDE DEF t
<1>2. PICK g : Flattens(g, t)
  BY <1>1, FlattenIs
<1>3. CASE n = 0
  <2>1. s = <<>>
    BY <1>3, EmptySeq
  <2>2. FlattenSeq(s) = s
    BY <1>3 DEF FlattenSeq
  <2>3. FlattenSeq(t) = x
    BY <1>1, <1>2, <1>3 DEF Flattens
  <2>4. <<>> \o x = x /\ <<>> \in Seq(Nat)
    BY ConcatEmptySeq
  <2> QED BY <2>1, <2>2, <2>3, <2>4 DEF t
<1>4. CASE n > 0
  <2>1. PICK f : Flattens(f, s)
    BY <1>4, FlattenIs
  <2> DEFINE Sat == {k \in 0 .. n : k > 0 => f[k] = g[k]}
  <2>2. 0 \in Sat
    BY <1>1
  <2>3. ASSUME NEW k \in 0 .. n - 1, k \in Sat PROVE k + 1 \in Sat
    <3>1. k + 1 \in 1 .. n /\ (k + 1) - 1 = k /\ k + 1 \in 0 .. n
      <4>1. n \in Nat
        BY <1>1
      <4> HIDE DEF n
      <4> QED BY <4>1
    <3>2. CASE k = 0
      <4>1. f[1] = s[1] /\ g[1] = t[1] /\ t[1] = s[1]
        BY <1>1, <1>2, <1>4, <2>1 DEF Flattens
      <4> QED BY <3>1, <3>2, <4>1
    <3>3. CASE k > 0
      <4>1. k + 1 \in 2 .. n /\ k + 1 \in 2 .. Len(t)
        BY <1>1, <3>1, <3>3
      <4>2. f[k + 1] = f[k] \o s[k + 1] /\ g[k + 1] = g[k] \o t[k + 1]
        BY <1>2, <2>1, <3>1, <4>1 DEF Flattens
      <4>3. f[k] = g[k]
        BY <2>3, <3>3
      <4> QED BY <1>1, <3>1, <4>2, <4>3
    <3> QED BY <3>2, <3>3
  <2>4. 0 .. n \subseteq Sat
    <3> HIDE DEF Sat, n
    <3> QED BY <1>1, <2>2, <2>3, StepInduction
  <2>5. f[n] = g[n]
    BY <1>1, <1>4, <2>4
  <2>6. n + 1 \in 2 .. Len(t) /\ (n + 1) - 1 = n
    BY <1>1, <1>4
  <2>7. g[n + 1] = g[n] \o t[n + 1]
    BY <1>2, <2>6 DEF Flattens
  <2>8. FlattenSeq(s) = f[n] /\ f[n] \in Seq(Nat)
    <3>1. n \in 1 .. Len(s)
      BY <1>1, <1>4
    <3> QED BY <2>1, <3>1 DEF Flattens
  <2>9. FlattenSeq(t) = g[n + 1]
    BY <1>1, <1>2 DEF Flattens
  <2> QED BY <1>1, <2>5, <2>7, <2>8, <2>9 DEF t
<1> QED BY <1>1, <1>3, <1>4

-----------------------------------------------------------------------------
(* Programs, and where their instructions lie.                             *)

Mnemonics == Ends \cup NoOperand \cup OneOperand \cup TwoOperand \cup ThreeOperand

IsInstr(x) ==
    /\ x \in Seq(Nat) /\ Len(x) >= 1
    /\ x[1] \in DOMAIN Mnemonic
    /\ Len(x) = 1 + Operands(Op(x))

\* The inductive invariant: whatever its operands, an instruction is as long as
\* its opcode says, and none but the last ends the program.
ProgramInv ==
    /\ instrs \in Seq(Seq(Nat)) /\ Len(instrs) <= MaxInstrs
    /\ \A i \in 1 .. Len(instrs) : IsInstr(instrs[i])
    /\ \A i \in 1 .. Len(instrs) - 1 : Op(instrs[i]) \notin Ends

LEMMA OperandsOf ==
  ASSUME NEW op \in Mnemonics
  PROVE  /\ Operands(op) \in 0 .. 3
         /\ op \in Ends => Operands(op) = 0 /\ op \notin TwoOperand
         /\ op \notin TwoOperand => PtrStep(op) = 1 + Operands(op)
         /\ op \in TwoOperand => PtrStep(op) = 4 /\ Operands(op) = 2
<1>1. op \in Ends => op \notin OneOperand \cup TwoOperand \cup ThreeOperand
  BY DEF Ends, OneOperand, TwoOperand, ThreeOperand
<1>2. op \in TwoOperand => op \notin OneOperand
  BY DEF OneOperand, TwoOperand
<1>3. Operands(op) = IF op \in OneOperand THEN 1 ELSE IF op \in TwoOperand THEN 2
                     ELSE IF op \in ThreeOperand THEN 3 ELSE 0
  <2>1. op \in ThreeOperand => op \notin OneOperand \cup TwoOperand
    BY DEF OneOperand, TwoOperand, ThreeOperand
  <2> QED BY <1>2, <2>1 DEF Operands
<1>4. PtrStep(op) = IF op \in TwoOperand THEN 4 ELSE 1 + Operands(op)
  BY DEF PtrStep
<1> QED BY <1>1, <1>2, <1>3, <1>4

LEMMA OpcodeOf ==
  ASSUME NEW n \in DOMAIN Mnemonic
  PROVE  n \in Nat /\ OpcodeIn(n) = Mnemonic[n] /\ OpcodeIn(n) \in Mnemonics
<1>1. n \in 0 .. ByteMod - 1 /\ ByteMod \in Nat \ {0}
  BY TypeRecordAssumption
<1>2. n % ByteMod = n /\ n \in Nat
  BY <1>1
<1>3. OpcodeIn(n) = Mnemonic[n]
  BY <1>2 DEF OpcodeIn
<1> QED BY <1>2, <1>3, ProgramAssumption DEF Mnemonics

THEOREM ProgramInvHolds == Programs => []ProgramInv
<1>1. NoInstrs => ProgramInv
  <2> SUFFICES ASSUME NoInstrs PROVE ProgramInv
    OBVIOUS
  <2>1. instrs = <<>> /\ Len(instrs) = 0 /\ instrs \in Seq(Seq(Nat)) /\ MaxInstrs \in Nat
    BY EmptySeq, ProgramAssumption DEF NoInstrs
  <2> QED BY <2>1 DEF ProgramInv
<1>2. ProgramInv /\ [Extend]_instrs => ProgramInv'
  <2> SUFFICES ASSUME ProgramInv, [Extend]_instrs PROVE ProgramInv'
    OBVIOUS
  <2>1. CASE UNCHANGED instrs
    BY <2>1 DEF ProgramInv, IsInstr, Op
  <2>2. CASE Extend
    <3>1. PICK n \in DOMAIN Mnemonic :
             \E operands \in [1 .. Operands(Mnemonic[n]) -> OperandValues] :
                instrs' = Append(instrs, <<n>> \o operands)
      BY <2>2 DEF Extend
    <3>2. PICK operands \in [1 .. Operands(Mnemonic[n]) -> OperandValues] :
                instrs' = Append(instrs, <<n>> \o operands)
      BY <3>1
    <3> DEFINE k == Operands(Mnemonic[n])
               one == <<n>>
               x == one \o operands
               len == Len(instrs)
    <3>3. n \in Nat /\ OpcodeIn(n) = Mnemonic[n] /\ k \in 0 .. 3
      BY OpcodeOf, OperandsOf
    <3>4. operands \in Seq(Nat) /\ Len(operands) = k
      <4>1. operands \in [1 .. k -> Nat]
        BY ProgramAssumption
      <4> HIDE DEF k
      <4> QED BY <3>3, <4>1
    <3>5. one \in Seq(Nat) /\ Len(one) = 1 /\ one[1] = n
      BY <3>3
    <3> HIDE DEF one, k
    <3>6. x \in Seq(Nat) /\ Len(x) = 1 + k /\ x[1] = n
      <4>1. /\ x \in Seq(Nat) /\ Len(x) = Len(one) + Len(operands)
            /\ \A i \in 1 .. Len(one) + Len(operands) :
                  x[i] = IF i <= Len(one) THEN one[i] ELSE operands[i - Len(one)]
        BY <3>4, <3>5, ConcatProperties
      <4>2. 1 \in 1 .. Len(one) + Len(operands)
        BY <3>3, <3>4, <3>5
      <4> HIDE DEF x
      <4> QED BY <3>4, <3>5, <4>1, <4>2
    <3> HIDE DEF x
    <3>7. IsInstr(x)
      BY <3>3, <3>6 DEF IsInstr, Op, k
    <3>8. /\ instrs \in Seq(Seq(Nat)) /\ len \in Nat /\ ~Complete /\ len < MaxInstrs
          /\ \A i \in 1 .. len : IsInstr(instrs[i])
          /\ \A i \in 1 .. len - 1 : Op(instrs[i]) \notin Ends
      BY <2>2 DEF ProgramInv, Extend
    <3>9. /\ instrs' \in Seq(Seq(Nat)) /\ Len(instrs') = len + 1
          /\ \A i \in 1 .. len : instrs'[i] = instrs[i]
          /\ instrs'[len + 1] = x
      BY <3>2, <3>6, <3>8, AppendProperties DEF x, one
    <3>10. Len(instrs') <= MaxInstrs
      BY <3>8, <3>9, ProgramAssumption
    <3>11. ASSUME NEW i \in 1 .. Len(instrs') PROVE IsInstr(instrs'[i])
      <4>1. i \in 1 .. len \/ i = len + 1
        BY <3>8, <3>9
      <4> QED BY <3>7, <3>8, <3>9, <4>1
    <3>12. ASSUME NEW i \in 1 .. Len(instrs') - 1 PROVE Op(instrs'[i]) \notin Ends
      <4>1. i \in 1 .. len /\ (i \in 1 .. len - 1 \/ i = len)
        BY <3>8, <3>9
      <4>2. instrs'[i] = instrs[i]
        BY <3>9, <4>1
      <4>3. i = len => Op(instrs[i]) \notin Ends
        BY <3>8, <4>1, EmptySeq DEF Complete, Last
      <4> QED BY <3>8, <4>1, <4>2, <4>3
    <3> QED BY <3>9, <3>10, <3>11, <3>12 DEF ProgramInv, IsInstr, Op
  <2> QED BY <2>1, <2>2
<1> QED BY <1>1, <1>2, PTL DEF Programs

\* The first k instructions, as they lie in the file.
Code(k) == FlattenSeq(SubSeq(instrs, 1, k))

LEMMA CodeGrows ==
  ASSUME ProgramInv
  PROVE  /\ Code(0) = <<>>
         /\ \A k \in 1 .. Len(instrs) :
               Code(k - 1) \in Seq(Nat) /\ Code(k) \in Seq(Nat) /\ Code(k) = Code(k - 1) \o instrs[k]
<1>1. instrs \in Seq(Seq(Nat)) /\ Len(instrs) \in Nat
  BY DEF ProgramInv
<1>2. Code(0) = <<>>
  <2>1. SubSeq(instrs, 1, 0) = <<>>
    BY SubSeqEmpty
  <2> QED BY <2>1 DEF Code, FlattenSeq
<1>3. ASSUME NEW k \in 1 .. Len(instrs)
      PROVE  Code(k - 1) \in Seq(Nat) /\ Code(k) \in Seq(Nat) /\ Code(k) = Code(k - 1) \o instrs[k]
  <2> DEFINE s == SubSeq(instrs, 1, k - 1)
             x == instrs[k]
  <2>1. k - 1 \in Int /\ 1 \in Int /\ 1 \in 1 .. Len(instrs) /\ k \in 1 .. Len(instrs) /\ k \in Nat
    BY <1>1
  <2>2. \A i \in 1 .. k - 1 : instrs[i] \in Seq(Nat)
    BY <1>1, <2>1, ElementOfSeq
  <2>3. s \in Seq(Seq(Nat)) /\ x \in Seq(Nat)
    BY <1>1, <2>1, <2>2, SubSeqProperties, ElementOfSeq
  <2>4. SubSeq(instrs, 1, k) = s \o <<x>>
    BY <1>1, <2>1, SubSeqRecursiveSecond
  <2> HIDE DEF s, x
  <2>5. s \o <<x>> = Append(s, x)
    BY <2>3
  <2>6. FlattenSeq(s) \in Seq(Nat) /\ FlattenSeq(Append(s, x)) = FlattenSeq(s) \o x
    BY <2>3, FlattenAppend
  <2>7. Code(k) = FlattenSeq(Append(s, x)) /\ Code(k - 1) = FlattenSeq(s)
    BY <2>4, <2>5 DEF Code, s
  <2>8. FlattenSeq(s) \o x \in Seq(Nat)
    BY <2>3, <2>6, ConcatProperties
  <2> QED BY <2>6, <2>7, <2>8 DEF x
<1> QED BY <1>2, <1>3

\* Where the instructions lie.
LEMMA FirstWords ==
  ASSUME ProgramInv
  PROVE  /\ FirstWord(1) = MetadataWords
         /\ \A k \in 1 .. Len(instrs) :
               /\ FirstWord(k) \in MetadataWords .. MetadataWords + 4 * (k - 1)
               /\ FirstWord(k + 1) = FirstWord(k) + 1 + Operands(Op(instrs[k]))
               /\ FirstWord(k) + 3 < MemoryWords
               /\ FirstWord(k) \in Words /\ FirstWord(k + 1) \in Nat
               /\ Op(instrs[k]) \in Mnemonics
<1> DEFINE len == Len(instrs)
<1>1. len \in Nat /\ len <= MaxInstrs /\ \A i \in 1 .. len : IsInstr(instrs[i])
  BY DEF ProgramInv
<1>2. MetadataWords \in Nat /\ MemoryWords \in Nat /\ MaxInstrs \in Nat
      /\ MetadataWords + 4 * MaxInstrs <= MemoryWords
  BY TypeRecordAssumption, ProgramAssumption
<1>3. \A k \in Int : FirstWord(k) = MetadataWords + Len(Code(k - 1))
  BY DEF FirstWord, Code
<1>4. FirstWord(1) = MetadataWords
  <2>1. Len(Code(0)) = 0
    BY CodeGrows
  <2>2. FirstWord(1) = MetadataWords + Len(Code(1 - 1)) /\ 1 - 1 = 0
    BY <1>3
  <2> QED BY <1>2, <2>1, <2>2
<1>5. ASSUME NEW k \in 1 .. len
      PROVE  /\ FirstWord(k + 1) = FirstWord(k) + 1 + Operands(Op(instrs[k]))
             /\ FirstWord(k) \in Nat /\ Op(instrs[k]) \in Mnemonics /\ Operands(Op(instrs[k])) \in 0 .. 3
  <2>1. /\ Code(k - 1) \in Seq(Nat) /\ Code(k) = Code(k - 1) \o instrs[k]
        /\ instrs[k] \in Seq(Nat) /\ Len(instrs[k]) = 1 + Operands(Op(instrs[k]))
        /\ instrs[k][1] \in DOMAIN Mnemonic
    BY <1>1, CodeGrows DEF IsInstr
  <2> DEFINE c == Code(k - 1)
             d == Code(k)
             x == instrs[k]
  <2>2. Len(d) = Len(c) + Len(x) /\ Len(c) \in Nat
    <3> HIDE DEF c, d, x
    <3>1. c \in Seq(Nat) /\ d = c \o x /\ x \in Seq(Nat)
      BY <2>1 DEF c, d, x
    <3> QED BY <3>1, ConcatProperties, LenProperties
  <2>3. Op(instrs[k]) \in Mnemonics
    BY <2>1, OpcodeOf DEF Op
  <2>4. Operands(Op(instrs[k])) \in 0 .. 3
    BY <2>3, OperandsOf
  <2>5. /\ FirstWord(k) = MetadataWords + Len(Code(k - 1))
        /\ FirstWord(k + 1) = MetadataWords + Len(Code(k))
    <3>1. k \in Int /\ k + 1 \in Int /\ (k + 1) - 1 = k
      BY <1>1
    <3> QED BY <1>3, <3>1
  <2> DEFINE a == FirstWord(k)
             b == FirstWord(k + 1)
             o == Operands(Op(x))
  <2>6. b = a + 1 + o /\ a \in Nat
    <3>1. a = MetadataWords + Len(c) /\ b = MetadataWords + Len(d) /\ Len(x) = 1 + o /\ o \in 0 .. 3
      BY <2>1, <2>4, <2>5
    <3> HIDE DEF a, b, c, d, x, o
    <3> QED BY <1>2, <2>2, <3>1
  <2> QED BY <2>3, <2>4, <2>6
<1> DEFINE Sat == {k \in 0 .. len : FirstWord(k + 1) \in MetadataWords .. MetadataWords + 4 * k}
<1>6. 0 \in Sat
  BY <1>1, <1>2, <1>4
<1>7. ASSUME NEW k \in 0 .. len - 1, k \in Sat PROVE k + 1 \in Sat
  <2>1. k + 1 \in 1 .. len /\ k \in Nat /\ k + 1 \in 0 .. len
    BY <1>1
  <2> DEFINE a == FirstWord(k + 1)
             o == Operands(Op(instrs[k + 1]))
             b == FirstWord((k + 1) + 1)
  <2>2. b = a + 1 + o /\ o \in 0 .. 3
    BY <1>5, <2>1
  <2>3. a \in MetadataWords .. MetadataWords + 4 * k
    BY <1>7
  <2> HIDE DEF a, b, o
  <2>4. b \in MetadataWords .. MetadataWords + 4 * (k + 1)
    BY <1>2, <2>1, <2>2, <2>3
  <2> QED BY <2>1, <2>4 DEF b
<1>8. 0 .. len \subseteq Sat
  <2> HIDE DEF Sat, len
  <2> QED BY <1>1, <1>6, <1>7, StepInduction
<1>9. ASSUME NEW k \in 1 .. len
      PROVE  /\ FirstWord(k) \in MetadataWords .. MetadataWords + 4 * (k - 1)
             /\ FirstWord(k) + 3 < MemoryWords /\ FirstWord(k) \in Words
             /\ FirstWord(k + 1) \in Nat
  <2>1. k - 1 \in 0 .. len /\ k \in 0 .. len /\ (k - 1) + 1 = k /\ k \in Nat /\ k <= MaxInstrs
    BY <1>1, <1>2
  <2>2. FirstWord((k - 1) + 1) \in MetadataWords .. MetadataWords + 4 * (k - 1)
        /\ FirstWord(k + 1) \in MetadataWords .. MetadataWords + 4 * k
    BY <1>8, <2>1
  <2> DEFINE a == FirstWord(k)
             b == FirstWord(k + 1)
  <2>3. a \in MetadataWords .. MetadataWords + 4 * (k - 1) /\ b \in MetadataWords .. MetadataWords + 4 * k
    BY <2>1, <2>2
  <2> HIDE DEF a, b
  <2>4. a + 3 < MemoryWords /\ a \in 0 .. MemoryWords - 1 /\ b \in Nat
    BY <1>2, <2>1, <2>3
  <2> QED BY <2>3, <2>4 DEF a, b, Words
<1> QED BY <1>4, <1>5, <1>9

\* What is loaded at the first word of an instruction is its opcode.
LEMMA OpcodesLoaded ==
  ASSUME ProgramInv, NEW k \in 1 .. Len(instrs)
  PROVE  Image[FirstWord(k)] = instrs[k][1] /\ instrs[k][1] \in DOMAIN Mnemonic
<1> DEFINE len == Len(instrs)
           from == Len(Code(k - 1)) + 1
           Sat == {m \in 0 .. len : m >= k => from <= Len(Code(m)) /\ Code(m)[from] = instrs[k][1]}
<1>1. /\ instrs \in Seq(Seq(Nat)) /\ len \in Nat /\ k \in 1 .. len
      /\ instrs[k] \in Seq(Nat) /\ Len(instrs[k]) >= 1 /\ instrs[k][1] \in DOMAIN Mnemonic
  <2>1. instrs \in Seq(Seq(Nat)) /\ IsInstr(instrs[k])
    BY DEF ProgramInv
  <2>2. len \in Nat
    BY <2>1, LenProperties
  <2> QED BY <2>1, <2>2 DEF IsInstr
<1>2. Len(Code(k - 1)) \in Nat /\ from \in Nat /\ from >= 1
  BY <1>1, CodeGrows
<1>3. 0 \in Sat
  BY <1>1
<1>4. ASSUME NEW m \in 0 .. len - 1, m \in Sat PROVE m + 1 \in Sat
  <2>1. m + 1 \in 1 .. len /\ (m + 1) - 1 = m /\ m + 1 \in 0 .. len /\ m \in Nat
    BY <1>1
  <2>2. /\ Code(m) \in Seq(Nat) /\ instrs[m + 1] \in Seq(Nat) /\ Code(m + 1) = Code(m) \o instrs[m + 1]
    BY <1>1, <2>1, CodeGrows, ElementOfSeq
  <2>3. /\ Len(Code(m + 1)) = Len(Code(m)) + Len(instrs[m + 1])
        /\ Len(Code(m)) \in Nat /\ Len(instrs[m + 1]) \in Nat
        /\ \A i \in 1 .. Len(Code(m)) + Len(instrs[m + 1]) :
              Code(m + 1)[i] = IF i <= Len(Code(m)) THEN Code(m)[i]
                               ELSE instrs[m + 1][i - Len(Code(m))]
    <3> DEFINE x == Code(m)
               y == instrs[m + 1]
               z == Code(m + 1)
    <3>1. x \in Seq(Nat) /\ y \in Seq(Nat) /\ z = x \o y
      BY <2>2
    <3> HIDE DEF x, y, z
    <3>2. /\ Len(z) = Len(x) + Len(y) /\ Len(x) \in Nat /\ Len(y) \in Nat
          /\ \A i \in 1 .. Len(x) + Len(y) : z[i] = IF i <= Len(x) THEN x[i] ELSE y[i - Len(x)]
      BY <3>1, ConcatProperties, LenProperties
    <3> QED BY <3>2 DEF x, y, z
  <2>4. CASE m + 1 = k
    <3>1. m = k - 1
      BY <2>1, <2>4
    <3>2. from = Len(Code(m)) + 1 /\ from <= Len(Code(m + 1))
      <4>1. from = Len(Code(m)) + 1
        BY <3>1
      <4>2. Len(instrs[m + 1]) >= 1
        BY <1>1, <2>4
      <4> HIDE DEF from
      <4> QED BY <2>3, <4>1, <4>2
    <3>3. from \in 1 .. Len(Code(m)) + Len(instrs[m + 1]) /\ ~(from <= Len(Code(m)))
          /\ from - Len(Code(m)) = 1
      BY <1>2, <2>3, <3>2
    <3>4. Code(m + 1)[from] = instrs[m + 1][1]
      BY <2>3, <3>3
    <3> QED BY <2>1, <2>4, <3>2, <3>4
  <2>5. CASE m + 1 > k
    <3>1. from <= Len(Code(m)) /\ Code(m)[from] = instrs[k][1]
      <4>1. m >= k
        BY <1>1, <2>1, <2>5
      <4> QED BY <1>4, <4>1
    <3>2. from \in 1 .. Len(Code(m)) + Len(instrs[m + 1])
      BY <1>2, <2>3, <3>1
    <3>3. Code(m + 1)[from] = Code(m)[from] /\ from <= Len(Code(m + 1))
      BY <1>2, <2>3, <3>1, <3>2
    <3> QED BY <2>1, <3>1, <3>3
  <2>6. CASE m + 1 < k
    BY <1>1, <2>1, <2>6
  <2> QED BY <1>1, <2>1, <2>4, <2>5, <2>6
<1>5. len \in Sat
  <2>1. 0 .. len \subseteq Sat
    <3> HIDE DEF Sat, len
    <3> QED BY <1>1, <1>3, <1>4, StepInduction
  <2>2. len \in 0 .. len
    BY <1>1
  <2> HIDE DEF Sat
  <2> QED BY <2>1, <2>2
<1>6. Code(len) = FlattenSeq(instrs)
  BY <1>1, SubSeqFull DEF Code
<1>7. from <= Len(Code(len)) /\ Code(len)[from] = instrs[k][1]
  BY <1>1, <1>5
<1>8. FirstWord(k) = MetadataWords + Len(Code(k - 1)) /\ FirstWord(k) \in Words /\ MetadataWords \in Nat
  BY FirstWords, TypeRecordAssumption DEF FirstWord, Code
<1>9. Image[FirstWord(k)] = Code(len)[from]
  <2> DEFINE w == FirstWord(k)
             code == Code(len)
  <2>1. w - MetadataWords = Len(Code(k - 1)) /\ ~(w < MetadataWords) /\ w \in Words
    BY <1>2, <1>8
  <2>2. w - MetadataWords < Len(code) /\ w - MetadataWords + 1 = from
    <3>1. Len(Code(len)) \in Nat
      BY <1>1, CodeGrows
    <3> QED BY <1>2, <1>7, <2>1, <3>1
  <2> HIDE DEF w, code, from, len
  <2>3. Image = Loaded(code)
    BY <1>6 DEF Image, code
  <2>4. Loaded(code)[w] = code[w - MetadataWords + 1]
    BY <2>1, <2>2 DEF Loaded
  <2> QED BY <2>2, <2>3, <2>4 DEF w, code
<1> QED BY <1>1, <1>7, <1>9

-----------------------------------------------------------------------------
(* The rounds of the recorder.                                             *)

Recorders ==
    [types     : [Words -> {"UINT8", "UINT32", "fresh"}],
     curr_addr : Nat,
     ptr       : Nat,
     result    : {"recording", "recorded", "undefined", "INVALID_OPCODE_IN_TYPEREC"}]

Start ==
    [types     |-> [w \in Words |-> IF w < MetadataWords THEN "UINT32" ELSE "fresh"],
     curr_addr |-> MetadataWords,
     ptr       |-> MetadataWords,
     result    |-> "recording"]

Round(s) == IF s.result = "recording" THEN RecordOp(Image, s) ELSE s

\* a is the function typerecord_input_file is defined by.
Rounds(a) ==
    /\ a[0] = Start
    /\ \A n \in 0 .. MemoryWords : a[n] \in Recorders
    /\ \A n \in 1 .. MemoryWords : a[n] = Round(a[n - 1])
    /\ Record = a[MemoryWords]

Typed(s) == [s.types EXCEPT ![s.curr_addr] = "UINT8"]

\* A round with both cursors in memory, on a word that was written.
Recorded(s) ==
    LET op   == OpcodeIn(Image[s.ptr])
        past == s.curr_addr + Operands(op)
    IN  IF op \in Ends THEN [s EXCEPT !.types = Typed(s), !.result = "recorded"]
        ELSE IF op \notin Mnemonics
        THEN [s EXCEPT !.types = Typed(s), !.result = "INVALID_OPCODE_IN_TYPEREC"]
        ELSE IF past \notin Words THEN [s EXCEPT !.result = "undefined"]
        ELSE [types     |-> [w \in Words |-> IF w \in s.curr_addr + 1 .. past
                                             THEN "UINT32" ELSE Typed(s)[w]],
              curr_addr |-> past + 1,
              ptr       |-> s.ptr + PtrStep(op),
              result    |-> "recording"]

LEMMA RoundCases ==
  ASSUME NEW s
  PROVE  LET u == RecordOp(Image, s)
             inside == s.curr_addr \in Words /\ s.ptr \in Words
         IN  /\ ~inside => u = [s EXCEPT !.result = "undefined"]
             /\ inside /\ Image[s.ptr] = Junk => u = [s EXCEPT !.types = Typed(s), !.result = "undefined"]
             /\ inside /\ Image[s.ptr] # Junk => u = Recorded(s)
<1> DEFINE in == s.curr_addr \in Words
           on == s.ptr \in Words
           junk == Image[s.ptr] = Junk
           op == OpcodeIn(Image[s.ptr])
<1>1. op \in Ends \/ (op \notin NoOperand \cup OneOperand \cup TwoOperand \cup ThreeOperand
                      <=> op \notin Mnemonics)
  <2> HIDE DEF op
  <2> QED BY Zenon DEF Mnemonics
<1>2. ASSUME ~(in /\ on) PROVE RecordOp(Image, s) = [s EXCEPT !.result = "undefined"]
  BY <1>2, Zenon DEF RecordOp
<1>3. ASSUME in, on, junk
      PROVE  RecordOp(Image, s) = [s EXCEPT !.types = Typed(s), !.result = "undefined"]
  BY <1>3, Zenon DEF RecordOp, Typed
<1>4. ASSUME in, on, ~junk PROVE RecordOp(Image, s) = Recorded(s)
  <2> DEFINE past == s.curr_addr + Operands(op)
             A == [s EXCEPT !.types = Typed(s), !.result = "recorded"]
             B == [s EXCEPT !.types = Typed(s), !.result = "INVALID_OPCODE_IN_TYPEREC"]
             C == [s EXCEPT !.result = "undefined"]
             D == [types     |-> [w \in Words |-> IF w \in s.curr_addr + 1 .. past
                                                  THEN "UINT32" ELSE Typed(s)[w]],
                   curr_addr |-> past + 1,
                   ptr       |-> s.ptr + PtrStep(op),
                   result    |-> "recording"]
  <2>1. RecordOp(Image, s) = IF op \in Ends THEN A
                             ELSE IF op \notin NoOperand \cup OneOperand \cup TwoOperand \cup ThreeOperand
                             THEN B ELSE IF past \notin Words THEN C ELSE D
    BY <1>4, Zenon DEF RecordOp, Typed
  <2>2. Recorded(s) = IF op \in Ends THEN A ELSE IF op \notin Mnemonics THEN B
                      ELSE IF past \notin Words THEN C ELSE D
    BY DEF Recorded
  <2> HIDE DEF op, past, A, B, C, D
  <2> QED BY <1>1, <2>1, <2>2
<1> QED BY <1>2, <1>3, <1>4, Zenon

LEMMA OperandsOfAny ==
  ASSUME NEW op
  PROVE  Operands(op) \in 0 .. 3 /\ PtrStep(op) \in Nat
<1>1. Operands(op) \in 0 .. 3
  <2>1. op \in TwoOperand => op \notin OneOperand
    BY DEF OneOperand, TwoOperand
  <2>2. op \in ThreeOperand => op \notin OneOperand \cup TwoOperand
    BY DEF OneOperand, TwoOperand, ThreeOperand
  <2>3. Operands(op) = IF op \in OneOperand THEN 1 ELSE IF op \in TwoOperand THEN 2
                       ELSE IF op \in ThreeOperand THEN 3 ELSE 0
    BY <2>1, <2>2 DEF Operands
  <2> QED BY <2>3
<1> QED BY <1>1 DEF PtrStep

\* A recorder with other types and another result.
LEMMA TypesChanged ==
  ASSUME NEW a, NEW c, NEW p, NEW e, NEW x
  PROVE  [[types |-> a, curr_addr |-> c, ptr |-> p, result |-> e] EXCEPT !.types = x] =
                   [types |-> x, curr_addr |-> c, ptr |-> p, result |-> e]
OBVIOUS

LEMMA ResultChanged ==
  ASSUME NEW a, NEW c, NEW p, NEW e, NEW x
  PROVE  [[types |-> a, curr_addr |-> c, ptr |-> p, result |-> e] EXCEPT !.result = x] =
                   [types |-> a, curr_addr |-> c, ptr |-> p, result |-> x]
OBVIOUS

LEMMA BothChanged ==
  ASSUME NEW s, NEW x, NEW res
  PROVE  [s EXCEPT !.types = x, !.result = res] = [[s EXCEPT !.types = x] EXCEPT !.result = res]
OBVIOUS

LEMMA ChangedRecorder ==
  ASSUME NEW s \in Recorders, NEW x, NEW res
  PROVE  [s EXCEPT !.types = x, !.result = res] =
            [types |-> x, curr_addr |-> s.curr_addr, ptr |-> s.ptr, result |-> res]
<1> DEFINE a == s.types
           c == s.curr_addr
           p == s.ptr
           e == s.result
           q == [types |-> a, curr_addr |-> c, ptr |-> p, result |-> e]
           t == [types |-> x, curr_addr |-> c, ptr |-> p, result |-> e]
<1>1. s = q
  BY DEF Recorders
<1> HIDE DEF a, c, p, e
<1>3. [q EXCEPT !.types = x] = t
  BY TypesChanged
<1>4. [t EXCEPT !.result = res] = [types |-> x, curr_addr |-> c, ptr |-> p, result |-> res]
  BY ResultChanged
<1> HIDE DEF q, t
<1>5. [q EXCEPT !.types = x, !.result = res] = [t EXCEPT !.result = res]
  <2>1. [q EXCEPT !.types = x, !.result = res] = [[q EXCEPT !.types = x] EXCEPT !.result = res]
    BY BothChanged
  <2> QED BY <1>3, <2>1
<1>6. [s EXCEPT !.types = x, !.result = res] =
         [types |-> x, curr_addr |-> c, ptr |-> p, result |-> res]
  BY <1>1, <1>4, <1>5
<1> QED BY <1>6 DEF a, c, p

\* A word's type written.
LEMMA TypeWritten ==
  ASSUME NEW T, NEW f \in [Words -> T], NEW c \in Nat, NEW v \in T
  PROVE  /\ [f EXCEPT ![c] = v] \in [Words -> T]
         /\ \A w \in Words : w # c => [f EXCEPT ![c] = v][w] = f[w]
         /\ c \in Words => [f EXCEPT ![c] = v][c] = v
OBVIOUS

\* What a round does to a recorder.
LEMMA RoundTyped ==
  ASSUME NEW s \in Recorders, NEW u, u = RecordOp(Image, s)
  PROVE  /\ u \in Recorders
         /\ u.curr_addr >= s.curr_addr
         /\ \A w \in Words : w < s.curr_addr => u.types[w] = s.types[w]
         /\ u.result = "recording" /\ s.result = "recording" => u.curr_addr > s.curr_addr
         /\ s.curr_addr \in Words /\ s.ptr \in Words /\ s.curr_addr + 3 < MemoryWords =>
               u.types[s.curr_addr] = "UINT8"
<1> DEFINE op == OpcodeIn(Image[s.ptr])
           c == s.curr_addr
           d == c + Operands(op)
           types == Typed(s)
           T == {"UINT8", "UINT32", "fresh"}
           Results == {"recording", "recorded", "undefined", "INVALID_OPCODE_IN_TYPEREC"}
           t == [w \in Words |-> IF w \in c + 1 .. d THEN "UINT32" ELSE types[w]]
           Result(x, res) == [types |-> x, curr_addr |-> c, ptr |-> s.ptr, result |-> res]
<1>1. /\ c \in Nat /\ s.ptr \in Nat /\ s.types \in [Words -> T] /\ s.result \in Results
      /\ s = [types |-> s.types, curr_addr |-> s.curr_addr, ptr |-> s.ptr, result |-> s.result]
      /\ MemoryWords \in Nat
  BY TypeRecordAssumption DEF Recorders
<1>2. /\ types \in [Words -> T] /\ \A w \in Words : w < c => types[w] = s.types[w]
      /\ c \in Words => types[c] = "UINT8"
  <2>1. "UINT8" \in T
    OBVIOUS
  <2> HIDE DEF T
  <2>2. /\ types \in [Words -> T] /\ \A w \in Words : w # c => types[w] = s.types[w]
        /\ c \in Words => types[c] = "UINT8"
    BY <1>1, <2>1, TypeWritten DEF Typed
  <2>3. \A w \in Words : w < c => w # c
    BY <1>1 DEF Words
  <2> HIDE DEF types, c
  <2> QED BY <2>2, <2>3
<1>3. d \in Nat /\ c <= d /\ d <= c + 3 /\ s.ptr + PtrStep(op) \in Nat
  BY <1>1, OperandsOfAny
<1>4. /\ t \in [Words -> T] /\ \A w \in Words : w < c => t[w] = s.types[w]
      /\ c \in Words => t[c] = "UINT8"
  <2> HIDE DEF c, d, types
  <2> QED BY <1>1, <1>2, <1>3 DEF Words, c
<1>5. \/ u = Result(s.types, "undefined") /\ ~(c \in Words /\ s.ptr \in Words /\ d \in Words)
      \/ \E res \in Results \ {"recording"} : u = Result(types, res)
      \/ u = [types |-> t, curr_addr |-> d + 1, ptr |-> s.ptr + PtrStep(op), result |-> "recording"]
  <2> HIDE DEF types, t
  <2>1. ASSUME NEW res PROVE /\ [s EXCEPT !.result = res] = Result(s.types, res)
                             /\ [s EXCEPT !.types = types, !.result = res] = Result(types, res)
    <3>1. [s EXCEPT !.result = res] =
             [types |-> s.types, curr_addr |-> s.curr_addr, ptr |-> s.ptr, result |-> res]
      BY DEF Recorders
    <3>2. [s EXCEPT !.types = types, !.result = res] =
             [types |-> types, curr_addr |-> s.curr_addr, ptr |-> s.ptr, result |-> res]
      BY ONLY s \in Recorders, ChangedRecorder
    <3> QED BY <3>1, <3>2 DEF Result, c
  <2> HIDE DEF Result
  <2>2. CASE ~(c \in Words /\ s.ptr \in Words)
    BY <2>1, <2>2, RoundCases
  <2>3. CASE c \in Words /\ s.ptr \in Words /\ Image[s.ptr] = Junk
    BY <2>1, <2>3, RoundCases DEF types
  <2>4. CASE c \in Words /\ s.ptr \in Words /\ Image[s.ptr] # Junk
    <3>1. u = Recorded(s)
      BY <2>4, RoundCases
    <3>2. CASE op \in Ends
      BY <2>1, <3>1, <3>2 DEF Recorded, types
    <3>3. CASE op \notin Ends /\ op \notin Mnemonics
      BY <2>1, <3>1, <3>3 DEF Recorded, types
    <3>4. CASE op \notin Ends /\ op \in Mnemonics /\ d \notin Words
      BY <2>1, <3>1, <3>4 DEF Recorded
    <3>5. CASE op \notin Ends /\ op \in Mnemonics /\ d \in Words
      BY <3>1, <3>5 DEF Recorded, types, t
    <3> QED BY <3>2, <3>3, <3>4, <3>5
  <2> QED BY <2>2, <2>3, <2>4
<1> HIDE DEF types, t, c, d
<1>6. CASE u = Result(s.types, "undefined") /\ ~(c \in Words /\ s.ptr \in Words /\ d \in Words)
  <2>1. c + 3 < MemoryWords => c \in Words /\ d \in Words
    BY <1>1, <1>3 DEF Words
  <2> QED BY <1>1, <1>6, <2>1 DEF Recorders, c
<1>7. CASE \E res \in Results \ {"recording"} : u = Result(types, res)
  BY <1>1, <1>2, <1>7 DEF Recorders, c
<1>8. CASE u = [types |-> t, curr_addr |-> d + 1, ptr |-> s.ptr + PtrStep(op), result |-> "recording"]
  BY <1>1, <1>3, <1>4, <1>8 DEF Recorders, c
<1> QED BY <1>5, <1>6, <1>7, <1>8

LEMMA RoundsExist == \E a : Rounds(a)
<1> DEFINE P(a) == a = [n \in 0 .. MemoryWords |->
                          IF n = 0 THEN Start
                          ELSE LET s == a[n - 1]
                               IN  IF s.result = "recording" THEN RecordOp(Image, s) ELSE s]
           after == CHOOSE a : P(a)
           F == [s \in Recorders |-> Round(s)]
<1>1. MemoryWords \in Nat /\ MetadataWords \in Nat
  BY TypeRecordAssumption
<1>2. Start \in Recorders
  BY <1>1 DEF Start, Recorders
<1>3. \A s \in Recorders : Round(s) \in Recorders
  BY RoundTyped DEF Round
<1>4. F \in [Recorders -> Recorders]
  BY <1>3
<1>5. PICK g : Iterates(g, Recorders, F, Start, MemoryWords)
  <2> HIDE DEF F
  <2> QED BY <1>1, <1>2, <1>4, IterationExists
<1>6. /\ g \in [0 .. MemoryWords -> Recorders] /\ g[0] = Start
      /\ \A n \in 1 .. MemoryWords : g[n] = Round(g[n - 1])
  <2>1. \A n \in 1 .. MemoryWords : n - 1 \in 0 .. MemoryWords
    BY <1>1
  <2> QED BY <1>5, <2>1 DEF Iterates
<1>7. P(g)
  <2>1. \A n \in 0 .. MemoryWords : n = 0 \/ n \in 1 .. MemoryWords
    BY <1>1
  <2> QED BY <1>6, <2>1 DEF Round
<1>8. P(after)
  <2>1. \E a : P(a)
    BY <1>7
  <2> HIDE DEF P
  <2> QED BY <2>1
<1>9. Record = after[MemoryWords]
  BY DEF Record, typerecord_input_file, Start
<1> HIDE DEF after
<1>10. /\ after[0] = Start
       /\ \A n \in 1 .. MemoryWords : after[n] = Round(after[n - 1])
  <2>1. \A n \in 1 .. MemoryWords : n \in 0 .. MemoryWords /\ n # 0
    BY <1>1
  <2>2. 0 \in 0 .. MemoryWords
    BY <1>1
  <2> QED BY <1>8, <2>1, <2>2 DEF Round
<1>11. \A n \in 0 .. MemoryWords : after[n] \in Recorders
  <2> DEFINE Sat == {n \in 0 .. MemoryWords : after[n] \in Recorders}
  <2>1. 0 \in Sat
    BY <1>1, <1>2, <1>10
  <2>2. ASSUME NEW n \in 0 .. MemoryWords - 1, n \in Sat PROVE n + 1 \in Sat
    <3>1. n + 1 \in 1 .. MemoryWords /\ (n + 1) - 1 = n /\ n + 1 \in 0 .. MemoryWords
      BY <1>1
    <3>2. after[n + 1] = Round(after[n]) /\ after[n] \in Recorders
      BY <1>10, <2>2, <3>1
    <3> QED BY <1>3, <3>1, <3>2
  <2>3. 0 .. MemoryWords \subseteq Sat
    <3> HIDE DEF Sat
    <3> QED BY <1>1, <2>1, <2>2, StepInduction
  <2> QED BY <2>3
<1>12. Rounds(after)
  BY <1>9, <1>10, <1>11 DEF Rounds
<1> QED BY <1>12

-----------------------------------------------------------------------------
(* The instructions up to the first with two operands.                     *)

\* Types f gives the first n instructions, and no word after them.
PrefixTyped(n, f) ==
    /\ \A k \in 1 .. n :
          /\ FirstWord(k + 1) <= FirstWord(n + 1)
          /\ f[FirstWord(k)] = "UINT8"
          /\ \A w \in FirstWord(k) + 1 .. FirstWord(k + 1) - 1 : f[w] = "UINT32"
    /\ \A w \in Words : w >= FirstWord(n + 1) => f[w] = "fresh"

\* Both cursors on the word of instruction k, what is before it recorded.
AtInstr(k, s) ==
    /\ s \in Recorders
    /\ s.curr_addr = FirstWord(k) /\ s.ptr = FirstWord(k) /\ s.result = "recording"
    /\ PrefixTyped(k - 1, s.types)

LEMMA RecordsInstr ==
  ASSUME ProgramInv, NEW k \in 1 .. Len(instrs), NEW s, AtInstr(k, s)
  PROVE  LET op == Op(instrs[k])
             u  == Round(s)
         IN  /\ PrefixTyped(k, u.types)
             /\ op \in Ends => u.result = "recorded"
             /\ op \notin Ends => /\ u.result = "recording"
                                  /\ u.curr_addr = FirstWord(k + 1)
                                  /\ u.ptr = FirstWord(k) + PtrStep(op)
<1> DEFINE op == Op(instrs[k])
           c == FirstWord(k)
           d == FirstWord(k + 1)
           T == {"UINT8", "UINT32", "fresh"}
           f == s.types
           u == Round(s)
           typed == Typed(s)
<1>1. /\ c \in Nat /\ d \in Nat /\ MemoryWords \in Nat /\ c + 3 < MemoryWords /\ c \in Words
      /\ d = c + 1 + Operands(op) /\ op \in Mnemonics /\ Operands(op) \in 0 .. 3
      /\ op \in Ends => Operands(op) = 0
  BY FirstWords, OperandsOf, TypeRecordAssumption DEF Words
<1>2. /\ s \in Recorders /\ s.curr_addr = c /\ s.ptr = c /\ s.result = "recording"
      /\ f \in [Words -> T]
  BY DEF AtInstr, Recorders
<1>3. /\ typed \in [Words -> T] /\ \A w \in Words : w # c => typed[w] = f[w]
      /\ typed[c] = "UINT8"
  <2>1. "UINT8" \in T
    OBVIOUS
  <2> HIDE DEF T, f, c
  <2>2. typed = [f EXCEPT ![c] = "UINT8"]
    BY <1>2 DEF Typed, f
  <2> QED BY <1>1, <1>2, <2>1, <2>2, TypeWritten
<1>4. OpcodeIn(Image[s.ptr]) = op /\ Image[s.ptr] # Junk
  <2>1. Image[c] = instrs[k][1] /\ instrs[k][1] \in Nat
    BY OpcodesLoaded
  <2> HIDE DEF c
  <2> QED BY <1>2, <2>1, TypeRecordAssumption DEF Op
<1>5. u = Recorded(s)
  <2>1. u = RecordOp(Image, s)
    BY <1>2 DEF Round
  <2> HIDE DEF c, u
  <2> QED BY <1>1, <1>2, <1>4, <2>1, RoundCases
<1>6. ASSUME NEW g, \A w \in Words : g[w] = IF w \in c + 1 .. d - 1 THEN "UINT32" ELSE typed[w]
      PROVE  PrefixTyped(k, g)
  <2>1. /\ \A j \in 1 .. k - 1 :
              /\ FirstWord(j + 1) <= FirstWord((k - 1) + 1)
              /\ f[FirstWord(j)] = "UINT8"
              /\ \A w \in FirstWord(j) + 1 .. FirstWord(j + 1) - 1 : f[w] = "UINT32"
        /\ \A w \in Words : w >= FirstWord((k - 1) + 1) => f[w] = "fresh"
    BY DEF AtInstr, PrefixTyped
  <2>2. (k - 1) + 1 = k /\ k \in Nat /\ Len(instrs) \in Nat
    BY DEF ProgramInv
  <2>3. ASSUME NEW j \in 1 .. k
        PROVE  /\ FirstWord(j + 1) <= d
               /\ g[FirstWord(j)] = "UINT8"
               /\ \A w \in FirstWord(j) + 1 .. FirstWord(j + 1) - 1 : g[w] = "UINT32"
    <3>1. CASE j = k
      <4> HIDE DEF c, d, typed, op
      <4>1. FirstWord(j) = c /\ FirstWord(j + 1) = d
        BY <3>1 DEF c, d
      <4>2. g[c] = "UINT8"
        BY <1>1, <1>3, <1>6
      <4>3. \A w \in c + 1 .. d - 1 : w \in Words
        BY <1>1 DEF Words
      <4> QED BY <1>1, <1>6, <4>1, <4>2, <4>3
    <3>2. CASE j \in 1 .. k - 1
      <4> DEFINE x == FirstWord(j)
                 y == FirstWord(j + 1)
      <4>1. y <= c /\ f[x] = "UINT8" /\ \A w \in x + 1 .. y - 1 : f[w] = "UINT32"
        BY <2>1, <2>2, <3>2
      <4>2. j \in 1 .. Len(instrs)
        BY <2>2
      <4>3. /\ x \in Words /\ x + 3 < MemoryWords /\ y = x + 1 + Operands(Op(instrs[j]))
            /\ Operands(Op(instrs[j])) \in 0 .. 3
        BY <4>2, FirstWords, OperandsOf
      <4> HIDE DEF x, y, c, d, op, typed
      <4>4. x \in Nat /\ x < y /\ y <= x + 4
        BY <4>3, <1>1 DEF Words
      <4>5. \A w \in x .. y - 1 : w \in Words /\ w # c /\ w \notin c + 1 .. d - 1
        BY <1>1, <4>1, <4>3, <4>4 DEF Words
      <4>6. \A w \in x .. y - 1 : g[w] = f[w]
        BY <1>3, <1>6, <4>5
      <4>7. x \in x .. y - 1 /\ \A w \in x + 1 .. y - 1 : w \in x .. y - 1
        BY <4>4, <4>3, <1>1
      <4>8. g[x] = "UINT8" /\ \A w \in x + 1 .. y - 1 : g[w] = "UINT32"
        BY <4>1, <4>6, <4>7
      <4>9. y <= d
        <5>1. y \in Nat /\ c \in Nat /\ d \in Nat /\ y <= c /\ d = c + 1 + Operands(op) /\ Operands(op) \in 0 .. 3
          BY <1>1, <4>1, <4>3, <4>4
        <5> QED BY ONLY <5>1
      <4> QED BY <4>8, <4>9 DEF x, y
    <3> QED BY <2>2, <3>1, <3>2
  <2>4. ASSUME NEW w \in Words, w >= d PROVE g[w] = "fresh"
    <3>1. w # c /\ w \notin c + 1 .. d - 1 /\ w >= c
      <4> HIDE DEF c, d, op
      <4> QED BY <1>1, <2>4 DEF Words
    <3>2. g[w] = f[w]
      <4> HIDE DEF c, d, op, typed, f
      <4> QED BY <1>3, <1>6, <3>1
    <3> QED BY <2>1, <2>2, <3>1, <3>2
  <2> QED BY <2>3, <2>4 DEF PrefixTyped
<1>7. CASE op \in Ends
  <2>1. u = [s EXCEPT !.types = typed, !.result = "recorded"]
    <3> HIDE DEF u, typed
    <3> QED BY <1>4, <1>5, <1>7 DEF Recorded, typed
  <2>2. u.types = typed /\ u.result = "recorded"
    <3> HIDE DEF typed, u
    <3> QED BY <1>2, <2>1, ChangedRecorder
  <2>3. \A w \in Words : u.types[w] = IF w \in c + 1 .. d - 1 THEN "UINT32" ELSE typed[w]
    <3>1. \A w \in Words : w \notin c + 1 .. d - 1
      <4> HIDE DEF c, d, op
      <4> QED BY <1>1, <1>7
    <3> HIDE DEF u, typed, c, d
    <3> QED BY <2>2, <3>1
  <2>4. PrefixTyped(k, u.types)
    <3> HIDE DEF u, typed, c, d
    <3> QED BY <1>6, <2>3
  <2> QED BY <1>7, <2>2, <2>4
<1>8. CASE op \notin Ends
  <2> DEFINE past == c + Operands(op)
             g == [w \in Words |-> IF w \in c + 1 .. past THEN "UINT32" ELSE typed[w]]
  <2>1. past \in Words /\ past + 1 = d /\ past = d - 1
    <3> DEFINE n == Operands(op)
    <3>1. c \in Nat /\ n \in 0 .. 3 /\ MemoryWords \in Nat /\ c + 3 < MemoryWords /\ d = c + 1 + n
      BY <1>1
    <3> HIDE DEF c, d, op, n
    <3>2. c + n \in 0 .. MemoryWords - 1 /\ (c + n) + 1 = d /\ c + n = d - 1
      BY ONLY <3>1
    <3> QED BY <3>2 DEF Words, n
  <2>2. u = [types |-> g, curr_addr |-> past + 1, ptr |-> c + PtrStep(op), result |-> "recording"]
    <3> HIDE DEF u, typed, c, op
    <3> QED BY <1>1, <1>2, <1>4, <1>5, <1>8, <2>1 DEF Recorded, typed
  <2>3. u.types = g /\ u.curr_addr = d /\ u.ptr = c + PtrStep(op) /\ u.result = "recording"
    <3> HIDE DEF g, u, c, op, past, d
    <3> QED BY <2>1, <2>2
  <2>4. PrefixTyped(k, g)
    <3>1. \A w \in Words : g[w] = IF w \in c + 1 .. d - 1 THEN "UINT32" ELSE typed[w]
      <4> HIDE DEF c, d, typed, past
      <4> QED BY <2>1
    <3> HIDE DEF g, c, d, typed
    <3> QED BY <1>6, <3>1
  <2>5. PrefixTyped(k, u.types)
    <3> HIDE DEF g, u
    <3> QED BY <2>3, <2>4
  <2> QED BY <1>8, <2>3, <2>5
<1> QED BY <1>7, <1>8

\* What the recorder leaves behind stays.
LEMMA RecordKept ==
  ASSUME NEW a, Rounds(a), NEW n \in 0 .. MemoryWords, NEW c \in Nat,
         a[n].result = "recording" => a[n].curr_addr >= c
  PROVE  /\ \A w \in Words : w < c => Record.types[w] = a[n].types[w]
         /\ a[n].result # "recording" => Record = a[n]
<1> DEFINE b(m) == a[n + m]
           Same(m) == /\ b(m).result = "recording" => b(m).curr_addr >= c
                      /\ \A w \in Words : w < c => b(m).types[w] = a[n].types[w]
                      /\ a[n].result # "recording" => b(m) = a[n]
           last == MemoryWords - n
           Sat == {m \in 0 .. last : Same(m)}
<1>1. MemoryWords \in Nat /\ n \in Nat /\ last \in Nat /\ n + last = MemoryWords /\ n + 0 = n
  BY TypeRecordAssumption
<1>2. 0 \in Sat
  <2>1. b(0) = a[n] /\ 0 \in 0 .. last
    BY <1>1
  <2> HIDE DEF b, last
  <2> QED BY <2>1
<1>3. ASSUME NEW m \in 0 .. last - 1, m \in Sat PROVE m + 1 \in Sat
  <2>1. /\ n + m \in 0 .. MemoryWords /\ n + (m + 1) \in 1 .. MemoryWords
        /\ (n + (m + 1)) - 1 = n + m /\ m + 1 \in 0 .. last
    BY <1>1
  <2>2. b(m + 1) = Round(b(m)) /\ b(m) \in Recorders
    BY <2>1 DEF Rounds
  <2>3. Same(m)
    BY <1>3
  <2>4. CASE b(m).result # "recording"
    <3>1. b(m + 1) = b(m)
      BY <2>2, <2>4 DEF Round
    <3>2. Same(m + 1)
      <4> HIDE DEF b
      <4> QED BY <2>3, <3>1
    <3> QED BY <2>1, <3>2
  <2>5. CASE b(m).result = "recording"
    <3> DEFINE s == b(m)
               u == b(m + 1)
    <3>1. u = RecordOp(Image, s)
      BY <2>2, <2>5 DEF Round
    <3> HIDE DEF b, s, u
    <3>2. /\ u.curr_addr >= s.curr_addr /\ u.curr_addr \in Nat /\ s.curr_addr \in Nat
          /\ \A w \in Words : w < s.curr_addr => u.types[w] = s.types[w]
      <4>1. s \in Recorders
        BY <2>2 DEF s
      <4>2. u \in Recorders /\ u.curr_addr >= s.curr_addr
            /\ \A w \in Words : w < s.curr_addr => u.types[w] = s.types[w]
        BY <3>1, <4>1, RoundTyped
      <4>3. \A q \in Recorders : q.curr_addr \in Nat
        BY DEF Recorders
      <4> QED BY <4>1, <4>2, <4>3
    <3>3. /\ s.curr_addr >= c /\ \A w \in Words : w < c => s.types[w] = a[n].types[w]
          /\ a[n].result = "recording"
      BY <2>3, <2>5 DEF s
    <3>4. u.curr_addr >= c
      BY <3>2, <3>3
    <3>5. \A w \in Words : w < c => u.types[w] = a[n].types[w]
      <4>1. \A w \in Words : w < c => w < s.curr_addr
        BY <1>1, <3>2, <3>3 DEF Words
      <4> QED BY <3>2, <3>3, <4>1
    <3>6. Same(m + 1)
      BY <3>3, <3>4, <3>5 DEF u
    <3> QED BY <2>1, <3>6
  <2> QED BY <2>4, <2>5
<1>4. last \in Sat
  <2>1. 0 .. last \subseteq Sat
    <3> HIDE DEF Sat, last
    <3> QED BY <1>1, <1>2, <1>3, StepInduction
  <2>2. last \in 0 .. last
    BY <1>1
  <2> HIDE DEF Sat
  <2> QED BY <2>1, <2>2
<1>5. Same(last)
  BY <1>4
<1>6. b(last) = Record
  BY <1>1 DEF Rounds
<1> HIDE DEF b
<1> QED BY <1>5, <1>6

\* The rounds before instruction t when none before it ends the program or
\* has two operands.
LEMMA ReachesInstr ==
  ASSUME ProgramInv, NEW a, Rounds(a), NEW t \in 1 .. Len(instrs),
         \A k \in 1 .. t - 1 : Op(instrs[k]) \notin Ends \cup TwoOperand
  PROVE  AtInstr(t, a[t - 1]) /\ t + 1 \in 1 .. MemoryWords + 1
<1> DEFINE Sat == {n \in 0 .. t - 1 : AtInstr(n + 1, a[n])}
<1>1. t \in Nat /\ Len(instrs) \in Nat /\ t <= Len(instrs) /\ t <= MemoryWords /\ MemoryWords \in Nat
      /\ MetadataWords \in Nat
  <2>1. Len(instrs) <= MaxInstrs /\ Len(instrs) \in Nat
    BY DEF ProgramInv
  <2> QED BY <2>1, ProgramAssumption, TypeRecordAssumption
<1>2. 0 \in Sat
  <2>1. FirstWord(1) = MetadataWords /\ a[0] = Start /\ Start \in Recorders
    <3>1. 0 \in 0 .. MemoryWords
      BY <1>1
    <3> QED BY <3>1, FirstWords DEF Rounds
  <2>2. PrefixTyped(0, Start.types)
    <3>1. \A w \in Words : w >= MetadataWords => Start.types[w] = "fresh"
      BY <1>1 DEF Start, Words
    <3> QED BY <2>1, <3>1 DEF PrefixTyped
  <2>3. Start.curr_addr = MetadataWords /\ Start.ptr = MetadataWords /\ Start.result = "recording"
    BY DEF Start
  <2>4. AtInstr(1, a[0])
    BY <2>1, <2>2, <2>3 DEF AtInstr
  <2> QED BY <1>1, <2>4
<1>3. ASSUME NEW n \in 0 .. (t - 1) - 1, n \in Sat PROVE n + 1 \in Sat
  <2> DEFINE k == n + 1
  <2>1. k \in 1 .. t - 1 /\ k \in 1 .. Len(instrs) /\ k \in 1 .. MemoryWords /\ k - 1 = n /\ k \in 0 .. t - 1
        /\ (k + 1) - 1 = k /\ k \in 0 .. MemoryWords
    BY <1>1
  <2>2. AtInstr(k, a[n])
    BY <1>3
  <2> HIDE DEF k
  <2>3. a[k] = Round(a[n]) /\ a[k] \in Recorders
    BY <2>1 DEF Rounds
  <2>4. Op(instrs[k]) \notin Ends /\ Op(instrs[k]) \notin TwoOperand
    BY <2>1
  <2>5. /\ PrefixTyped(k, a[k].types) /\ a[k].result = "recording"
        /\ a[k].curr_addr = FirstWord(k + 1) /\ a[k].ptr = FirstWord(k) + PtrStep(Op(instrs[k]))
    BY <2>1, <2>2, <2>3, <2>4, RecordsInstr
  <2>6. a[k].ptr = FirstWord(k + 1)
    <3> DEFINE op == Op(instrs[k])
    <3>1. op \in Mnemonics /\ FirstWord(k + 1) = FirstWord(k) + 1 + Operands(op) /\ FirstWord(k) \in Words
      BY <2>1, FirstWords
    <3> HIDE DEF op
    <3>2. PtrStep(op) = 1 + Operands(op) /\ Operands(op) \in 0 .. 3
      BY <2>4, <3>1, OperandsOf DEF op
    <3>3. FirstWord(k) \in Nat
      BY <1>1, <3>1 DEF Words
    <3> QED BY <2>5, <3>1, <3>2, <3>3 DEF op
  <2>7. AtInstr(k + 1, a[k])
    BY <2>1, <2>3, <2>5, <2>6 DEF AtInstr
  <2> QED BY <2>1, <2>7 DEF k
<1>4. t - 1 \in Sat
  <2>1. 0 .. t - 1 \subseteq Sat
    <3>1. t - 1 \in Nat
      BY <1>1
    <3> HIDE DEF Sat
    <3> QED BY <1>2, <1>3, <3>1, StepInduction
  <2>2. t - 1 \in 0 .. t - 1
    BY <1>1
  <2> HIDE DEF Sat
  <2> QED BY <2>1, <2>2
<1>5. (t - 1) + 1 = t /\ t + 1 \in 1 .. MemoryWords + 1
  BY <1>1
<1> QED BY <1>4, <1>5

LEMMA FirstStop ==
  ASSUME ProgramInv, Complete
  PROVE  /\ Len(instrs) \in Nat /\ Len(instrs) >= 1 /\ DOMAIN instrs = 1 .. Len(instrs)
         /\ Op(instrs[Len(instrs)]) \in Ends
         /\ \E t \in 1 .. Len(instrs) :
               /\ Op(instrs[t]) \in Ends \cup TwoOperand
               /\ \A k \in 1 .. t - 1 : Op(instrs[k]) \notin Ends \cup TwoOperand
<1> DEFINE len == Len(instrs)
           Stops == {k \in 1 .. len : Op(instrs[k]) \in Ends \cup TwoOperand}
<1>1. instrs \in Seq(Seq(Nat)) /\ instrs # <<>> /\ Op(instrs[len]) \in Ends
  BY DEF ProgramInv, Complete, Last
<1>2. len \in Nat /\ len >= 1 /\ DOMAIN instrs = 1 .. len
  BY <1>1, EmptySeq
<1>3. Stops \subseteq Nat /\ len \in Stops
  BY <1>1, <1>2
<1>4. PICK t \in Stops : \A k \in Stops : t <= k
  <2> HIDE DEF Stops
  <2> QED BY <1>3, LeastElement
<1>5. ASSUME NEW k \in 1 .. t - 1 PROVE Op(instrs[k]) \notin Ends \cup TwoOperand
  <2>1. k \in 1 .. len /\ ~(t <= k)
    BY <1>2
  <2>2. k \notin Stops
    BY <1>4, <2>1
  <2> QED BY <2>1, <2>2
<1> QED BY <1>1, <1>2, <1>4, <1>5

\* The record of the whole program: the first t instructions, and the opcode
\* after them if the last of the t has two operands.
LEMMA RecordOfPrefix ==
  ASSUME ProgramInv, NEW t \in 1 .. Len(instrs),
         Op(instrs[t]) \in Ends \cup TwoOperand,
         \A k \in 1 .. t - 1 : Op(instrs[k]) \notin Ends \cup TwoOperand
  PROVE  /\ \A k \in 1 .. t : TypedAsInstr(k)
         /\ Op(instrs[t]) \in TwoOperand /\ t + 1 \in 1 .. Len(instrs) =>
               Record.types[FirstWord(t + 1)] = "UINT8"
         /\ Op(instrs[t]) \in Ends => PrefixTyped(t, Record.types) /\ Record.result = "recorded"
<1>1. PICK a : Rounds(a)
  BY RoundsExist
<1>2. AtInstr(t, a[t - 1])
  BY <1>1, ReachesInstr
<1>3. /\ t \in Nat /\ Len(instrs) \in Nat /\ t <= Len(instrs) /\ t \in 1 .. MemoryWords
      /\ t \in 0 .. MemoryWords /\ MemoryWords \in Nat
  <2>1. t + 1 \in 1 .. MemoryWords + 1
    BY <1>1, ReachesInstr
  <2>2. Len(instrs) \in Nat /\ MemoryWords \in Nat
    BY TypeRecordAssumption DEF ProgramInv
  <2> QED BY <2>1, <2>2
<1> DEFINE op == Op(instrs[t])
           s == a[t]
           d == FirstWord(t + 1)
<1>4. s = Round(a[t - 1]) /\ s \in Recorders
  BY <1>1, <1>3 DEF Rounds
<1>5. /\ PrefixTyped(t, s.types)
      /\ op \in Ends => s.result = "recorded"
      /\ op \notin Ends => /\ s.result = "recording" /\ s.curr_addr = d
                           /\ s.ptr = FirstWord(t) + PtrStep(op)
  BY <1>2, <1>4, RecordsInstr
<1>6. d \in Nat /\ d = FirstWord(t) + 1 + Operands(op) /\ FirstWord(t) \in Words /\ op \in Mnemonics
      /\ FirstWord(t) + 3 < MemoryWords
  BY FirstWords
<1>7. op \in TwoOperand => op \notin Ends /\ Operands(op) = 2 /\ PtrStep(op) = 4
  <2> HIDE DEF op
  <2> QED BY <1>6, OperandsOf
<1>8. s.result = "recording" => s.curr_addr >= d
  BY <1>5, <1>6
<1>9. \A w \in Words : w < d => Record.types[w] = s.types[w]
  <2> HIDE DEF d
  <2> QED BY <1>1, <1>3, <1>6, <1>8, RecordKept DEF s
<1>10. ASSUME NEW k \in 1 .. t PROVE TypedAsInstr(k)
  <2> DEFINE x == FirstWord(k)
             y == FirstWord(k + 1)
  <2>1. y <= d /\ s.types[x] = "UINT8" /\ \A w \in x + 1 .. y - 1 : s.types[w] = "UINT32"
    BY <1>5 DEF PrefixTyped
  <2>2. x \in Words /\ y \in Nat /\ y = x + 1 + Operands(Op(instrs[k])) /\ x + 3 < MemoryWords
        /\ Operands(Op(instrs[k])) \in 0 .. 3
    <3>1. k \in 1 .. Len(instrs)
      BY <1>3
    <3> QED BY <3>1, FirstWords, OperandsOf
  <2> HIDE DEF x, y, d, s
  <2>3. x \in Nat /\ x < y
    BY <1>3, <2>2 DEF Words
  <2>4. \A w \in x .. y - 1 : w \in Words /\ w < d
    <3>1. /\ x \in Nat /\ y \in Nat /\ d \in Nat /\ y <= d /\ y <= x + 4 /\ x + 3 < MemoryWords
          /\ MemoryWords \in Nat
      BY <1>3, <1>6, <2>1, <2>2, <2>3
    <3> QED BY ONLY <3>1 DEF Words
  <2>5. \A w \in x .. y - 1 : Record.types[w] = s.types[w]
    BY <1>9, <2>4
  <2>6. x \in x .. y - 1 /\ \A w \in x + 1 .. y - 1 : w \in x .. y - 1
    BY <2>2, <2>3
  <2>7. Record.types[x] = "UINT8" /\ \A w \in x + 1 .. y - 1 : Record.types[w] = "UINT32"
    BY <2>1, <2>5, <2>6
  <2> QED BY <2>7 DEF TypedAsInstr, x, y
<1>11. ASSUME op \in Ends PROVE PrefixTyped(t, Record.types) /\ Record.result = "recorded"
  <2>1. s.result = "recorded"
    BY <1>5, <1>11
  <2>2. Record = s
    <3>1. s.result # "recording"
      BY <2>1
    <3> HIDE DEF d
    <3> QED BY <1>1, <1>3, <1>6, <1>8, <3>1, RecordKept DEF s
  <2> HIDE DEF s
  <2> QED BY <1>5, <2>1, <2>2
<1>12. ASSUME op \in TwoOperand, t + 1 \in 1 .. Len(instrs)
       PROVE  Record.types[d] = "UINT8"
  <2> DEFINE u == a[t + 1]
  <2>1. t + 1 \in 1 .. MemoryWords /\ t + 1 \in 0 .. MemoryWords /\ (t + 1) - 1 = t
    <3>1. Len(instrs) <= MaxInstrs
      BY DEF ProgramInv
    <3>2. Len(instrs) <= MemoryWords
      BY <1>3, <3>1, ProgramAssumption, TypeRecordAssumption
    <3> QED BY <1>3, <1>12, <3>2
  <2>2. s.result = "recording" /\ s.curr_addr = d /\ s.ptr = FirstWord(t) + 4 /\ d = FirstWord(t) + 3
    <3>1. FirstWord(t) \in Nat
      BY <1>3, <1>6 DEF Words
    <3> HIDE DEF op, s, d
    <3> QED BY <1>5, <1>6, <1>7, <1>12, <3>1
  <2>3. d + 3 < MemoryWords /\ d \in Words
    BY <1>12, FirstWords
  <2>4. s.ptr \in Words
    <3>1. FirstWord(t) \in Nat
      BY <1>3, <1>6 DEF Words
    <3> HIDE DEF s, d
    <3> QED BY <1>3, <2>2, <2>3, <3>1 DEF Words
  <2>5. u = RecordOp(Image, s)
    BY <1>1, <2>1, <2>2 DEF Rounds, Round
  <2> HIDE DEF s, u, d
  <2>6. u.types[d] = "UINT8" /\ u.curr_addr >= d /\ u \in Recorders
        /\ (u.result = "recording" => u.curr_addr > d)
    BY <1>4, <2>2, <2>3, <2>4, <2>5, RoundTyped
  <2>7. d + 1 \in Nat /\ d < d + 1 /\ (u.result = "recording" => u.curr_addr >= d + 1)
    <3>1. u.curr_addr \in Nat
      BY <2>6 DEF Recorders
    <3> QED BY <1>6, <2>6, <3>1
  <2>8. \A w \in Words : w < d + 1 => Record.types[w] = u.types[w]
    BY <1>1, <2>1, <2>7, RecordKept DEF u
  <2> QED BY <2>3, <2>6, <2>7, <2>8
<1> QED BY <1>10, <1>11, <1>12

LEMMA PrefixOfProgram ==
  ASSUME ProgramInv
  PROVE  PrefixIsRecorded
<1> SUFFICES ASSUME Complete PROVE PrefixIsRecorded
  BY DEF PrefixIsRecorded
<1> DEFINE len == Len(instrs)
           two == {k \in DOMAIN instrs : Op(instrs[k]) \in TwoOperand}
           typed == {k \in DOMAIN instrs : \A j \in two : k <= j}
<1>1. len \in Nat /\ len >= 1 /\ DOMAIN instrs = 1 .. len /\ Op(instrs[len]) \in Ends
  BY FirstStop
<1>2. PICK t \in 1 .. len : /\ Op(instrs[t]) \in Ends \cup TwoOperand
                            /\ \A k \in 1 .. t - 1 : Op(instrs[k]) \notin Ends \cup TwoOperand
  BY FirstStop
<1>3. /\ \A k \in 1 .. t : TypedAsInstr(k)
      /\ Op(instrs[t]) \in TwoOperand /\ t + 1 \in 1 .. len => Record.types[FirstWord(t + 1)] = "UINT8"
      /\ Op(instrs[t]) \in Ends => PrefixTyped(t, Record.types) /\ Record.result = "recorded"
  BY <1>2, RecordOfPrefix
<1>4. Op(instrs[t]) \in Ends => t = len /\ Op(instrs[t]) \notin TwoOperand
  <2>1. t \in 1 .. len - 1 \/ t = len
    <3>1. len \in Nat /\ t \in 1 .. len
      BY <1>1
    <3> HIDE DEF len
    <3> QED BY ONLY <3>1
  <2>2. \A op \in Ends : op \notin TwoOperand
    BY DEF Ends, TwoOperand
  <2> QED BY <2>1, <2>2 DEF ProgramInv
<1>5. CASE Op(instrs[t]) \in Ends
  <2>1. two = {} /\ typed = 1 .. t /\ typed = DOMAIN instrs
    <3>1. \A k \in 1 .. len : k \in 1 .. t - 1 \/ k = t
      BY <1>1, <1>4, <1>5
    <3>2. two = {}
      BY <1>1, <1>2, <1>4, <1>5, <3>1
    <3> QED BY <1>1, <1>4, <1>5, <3>2
  <2>2. \A w \in Words : w >= FirstWord(len + 1) => Record.types[w] = "fresh"
    BY <1>3, <1>4, <1>5 DEF PrefixTyped
  <2> HIDE DEF two, typed
  <2>3. /\ \A k \in typed : TypedAsInstr(k)
        /\ \A k \in DOMAIN instrs \ typed : k - 1 \in typed => Record.types[FirstWord(k)] = "UINT8"
        /\ two = {} => /\ Record.result = "recorded"
                       /\ \A w \in Words : w >= FirstWord(len + 1) => Record.types[w] = "fresh"
    BY <1>3, <1>5, <2>1, <2>2
  <2> QED BY <2>3, Zenon DEF PrefixIsRecorded, two, typed
<1>6. CASE Op(instrs[t]) \in TwoOperand
  <2>1. t \in two /\ typed = 1 .. t
    <3>1. t \in two
      BY <1>1, <1>6
    <3>2. \A k \in two : t <= k
      <4>1. \A k \in 1 .. len : k \in 1 .. t - 1 \/ t <= k
        BY <1>1
      <4> QED BY <1>1, <1>2, <4>1
    <3>3. ASSUME NEW k \in typed PROVE k \in 1 .. t
      <4>1. k \in 1 .. len /\ k <= t
        BY <1>1, <3>1
      <4> QED BY <4>1
    <3>4. ASSUME NEW k \in 1 .. t PROVE k \in typed
      <4>1. k \in 1 .. len
        BY <1>1
      <4>2. ASSUME NEW j \in two PROVE k <= j
        <5>1. t <= j /\ j \in 1 .. len
          BY <1>1, <3>2
        <5> QED BY <5>1
      <4> QED BY <1>1, <4>1, <4>2
    <3> QED BY <3>1, <3>3, <3>4
  <2>2. ASSUME NEW k \in DOMAIN instrs \ typed, k - 1 \in typed
        PROVE  Record.types[FirstWord(k)] = "UINT8"
    <3>1. k = t + 1 /\ t + 1 \in 1 .. len
      <4> HIDE DEF typed
      <4>1. k \in 1 .. len /\ k \notin 1 .. t /\ k - 1 \in 1 .. t
        BY <1>1, <2>1, <2>2
      <4> QED BY <4>1
    <3> QED BY <1>3, <1>6, <3>1
  <2> HIDE DEF two, typed
  <2>3. /\ \A k \in typed : TypedAsInstr(k)
        /\ \A k \in DOMAIN instrs \ typed : k - 1 \in typed => Record.types[FirstWord(k)] = "UINT8"
        /\ two = {} => /\ Record.result = "recorded"
                       /\ \A w \in Words : w >= FirstWord(len + 1) => Record.types[w] = "fresh"
    BY <1>3, <2>1, <2>2
  <2> QED BY <2>3, Zenon DEF PrefixIsRecorded, two, typed
<1> QED BY <1>2, <1>5, <1>6

\* On every program of at most MaxInstrs instructions, the recorder types the
\* instructions up to the first with two operands, and the opcode after it, as
\* they lie in the file; without such an instruction it types all of the program
\* and nothing after it.
THEOREM PrefixIsRecordedHolds == Programs => []PrefixIsRecorded
<1>1. ProgramInv => PrefixIsRecorded
  BY PrefixOfProgram
<1> QED BY <1>1, ProgramInvHolds, PTL

=============================================================================

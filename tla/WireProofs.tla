------------------------------ MODULE WireProofs ------------------------------
(***************************************************************************)
(* Proofs about WireFormat, for any even number of values of a byte, any   *)
(* texts, samples and bounds: the collector reads from the stream the      *)
(* records that were written, and each call writes its own span of the     *)
(* buffer.                                                                 *)
(*                                                                         *)
(* Numbers first: the n bytes of a number, read back, are the number       *)
(* modulo Power[n] (SignedOf).  Then the reader: Read has a solution, as   *)
(* each announcement and each record leaves less to read (ReadSolved); an  *)
(* announcement at the front teaches it a string (ReadsString), a record   *)
(* at the front gives what was written (ReadsRecord), if it knows the      *)
(* strings of the record.  WireInv is inductive: it says of the stream and *)
(* of the buffer what they will tell a reader, whatever comes behind them. *)
(***************************************************************************)
EXTENDS WireFormat, DataInduction, SequenceTheorems, FiniteSetTheorems, TLAPS

-----------------------------------------------------------------------------
(* Division.                                                                *)

\* What a division leaves.
LEMMA Divides ==
  ASSUME NEW a \in Int, NEW b \in Nat, b > 0
  PROVE  /\ a \div b \in Int /\ a % b \in Int
         /\ a = (a \div b) * b + (a % b) /\ 0 <= a % b /\ a % b < b
OBVIOUS

\* Quotient and remainder are the only such numbers.
LEMMA DividesOnly ==
  ASSUME NEW q \in Int, NEW r \in Int, NEW b \in Nat, 0 <= r, r < b
  PROVE  (q * b + r) \div b = q /\ (q * b + r) % b = r
<1> DEFINE a == q * b + r
<1>1. a \in Int /\ b > 0
  OBVIOUS
<1>2. a = (a \div b) * b + (a % b) /\ 0 <= a % b /\ a % b < b /\ a \div b \in Int /\ a % b \in Int
  BY <1>1, Divides
<1> DEFINE p == a \div b
           m == a % b
<1>3. p \in Int /\ m \in Int /\ q * b + r = p * b + m /\ 0 <= m /\ m < b
  BY <1>2
<1> HIDE DEF p, m
<1>4. (q - p) * b = m - r
  BY <1>3
<1>5. q - p = 0
  <2>1. CASE q - p >= 1
    <3>1. (q - p) * b >= b
      BY <2>1, <1>1, <1>3
    <3>2. QED
      BY <3>1, <1>3, <1>4
  <2>2. CASE q - p <= -1
    <3>1. (q - p) * b <= -b
      BY <2>2, <1>1, <1>3
    <3>2. QED
      BY <3>1, <1>3, <1>4
  <2>3. QED
    BY <2>1, <2>2, <1>3
<1>6. p = q /\ m = r
  BY <1>3, <1>5
<1>7. QED
  BY <1>6 DEF p, m

\* Dividing by a and then by b is dividing by their product.
LEMMA DividesTwice ==
  ASSUME NEW v \in Int, NEW a \in Nat, NEW b \in Nat, a > 0, b > 0
  PROVE  /\ (v \div a) \div b = v \div (a * b)
         /\ v % (a * b) = (((v \div a) % b) * a) + (v % a)
<1> DEFINE q == v \div a
           r == v % a
           p == q \div b
           m == q % b
<1>1. /\ q \in Int /\ r \in Int /\ v = q * a + r /\ 0 <= r /\ r < a
      /\ p \in Int /\ m \in Int /\ q = p * b + m /\ 0 <= m /\ m < b
  BY Divides
<1> HIDE DEF q, r, p, m
<1>2. v = p * (a * b) + (m * a + r)
  <2>1. (p * b + m) * a = p * (a * b) + m * a
    BY <1>1
  <2>2. QED
    BY <1>1, <2>1
<1>3. 0 <= m * a + r /\ m * a + r < a * b /\ a * b \in Nat /\ m * a + r \in Int
  <2>1. 0 <= m * a
    BY <1>1
  <2>2. (m + 1) * a <= b * a
    BY <1>1
  <2>3. (m + 1) * a = m * a + a
    BY <1>1
  <2>4. QED
    BY <1>1, <2>1, <2>2, <2>3
<1>4. v \div (a * b) = p /\ v % (a * b) = m * a + r
  BY <1>1, <1>2, <1>3, DividesOnly
<1>5. QED
  BY <1>4 DEF q, r, p, m

-----------------------------------------------------------------------------
(* Numbers and their bytes.                                                 *)

LEMMA BaseFacts == Base \in Nat /\ Base > 1 /\ Base % 2 = 0 /\ Base = 2 * (Base \div 2) /\ Base \div 2 \in Nat
BY BaseAssumption

\* The definition of Power has a solution.
LEMMA Powers ==
  /\ Power \in [0 .. 8 -> Nat \ {0}] /\ Power[0] = 1
  /\ \A n \in 1 .. 8 : Power[n] = Power[n - 1] * Base
<1> DEFINE P == Nat \ {0}
           D == [n \in Nat |-> [x \in P |-> x * Base]]
           Body(f) == [n \in 0 .. 8 |-> IF n = 0 THEN 1 ELSE f[n - 1] * Base]
<1>1. D \in [Nat -> [P -> P]]
  <2>1. \A x \in P : x * Base \in P
    BY BaseFacts
  <2>2. QED
    BY <2>1
<1>2. PICK g : Solves(g, P, 1, D, 8)
  <2> HIDE DEF D
  <2>1. 1 \in P
    OBVIOUS
  <2>2. QED
    BY <1>1, <2>1, RecursionUpTo
<1>3. g \in [0 .. 8 -> P] /\ g[0] = 1 /\ \A n \in 1 .. 8 : g[n] = g[n - 1] * Base
  <2>1. g \in [0 .. 8 -> P] /\ g[0] = 1 /\ \A n \in 1 .. 8 : g[n] = D[n][g[n - 1]]
    <3> HIDE DEF D
    <3>1. QED
      BY <1>2 DEF Solves
  <2>2. ASSUME NEW n \in 1 .. 8 PROVE g[n] = g[n - 1] * Base
    <3>1. g[n - 1] \in P
      BY <2>1
    <3>2. QED
      BY <2>1, <3>1
  <2>3. QED
    BY <2>1, <2>2
<1>4. g = Body(g)
  <2>1. \A n \in 0 .. 8 : g[n] = Body(g)[n]
    BY <1>3
  <2>2. QED
    BY <1>3, <2>1
<1>5. Power = Body(Power)
  BY <1>4 DEF Power
<1>6. \A n \in 0 .. 8 : Power[n] = g[n]
  <2>1. Power[0] = 1 /\ \A n \in 1 .. 8 : Power[n] = Power[n - 1] * Base
    BY <1>5
  <2>2. GrowAlike(Power, g, 8)
    BY <1>3, <2>1 DEF GrowAlike
  <2>3. QED
    BY <2>2, SameUpTo
<1>7. Power = [n \in 0 .. 8 |-> Power[n]]
  BY <1>5
<1>8. \A n \in 0 .. 8 : Power[n] \in P
  BY <1>3, <1>6
<1>9. \A n \in 1 .. 8 : Power[n] = Power[n - 1] * Base
  BY <1>3, <1>6
<1>10. Power \in [0 .. 8 -> P]
  BY <1>7, <1>8
<1>11. QED
  BY <1>3, <1>6, <1>9, <1>10

LEMMA PowerFacts ==
  /\ \A n \in 0 .. 8 : Power[n] \in Nat /\ Power[n] > 0
  /\ Power[0] = 1 /\ \A n \in 1 .. 8 : Power[n] = Power[n - 1] * Base
  /\ Base \in Nat /\ Base > 0
BY Powers, BaseFacts

\* The definition of Unsigned has a solution.
LEMMA Sums ==
  ASSUME NEW bytes \in Seq(Int)
  PROVE  \E sum \in [0 .. Len(bytes) -> Int] :
           /\ sum[0] = 0 /\ \A k \in 1 .. Len(bytes) : sum[k] = sum[k - 1] * Base + bytes[k]
           /\ Unsigned(bytes) = sum[Len(bytes)]
<1> DEFINE m == Len(bytes)
           D == [n \in Nat |-> [x \in Int |-> IF n \in 1 .. m THEN x * Base + bytes[n] ELSE 0]]
           Body(f) == [n \in 0 .. m |-> IF n = 0 THEN 0 ELSE f[n - 1] * Base + bytes[n]]
           Sum == CHOOSE f : f = Body(f)
<1>1. m \in Nat /\ \A n \in 1 .. m : bytes[n] \in Int
  OBVIOUS
<1>2. D \in [Nat -> [Int -> Int]]
  <2>1. \A n \in Nat, x \in Int : (IF n \in 1 .. m THEN x * Base + bytes[n] ELSE 0) \in Int
    BY BaseFacts, <1>1
  <2>2. QED
    BY <2>1
<1>3. PICK g : Solves(g, Int, 0, D, m)
  <2> HIDE DEF D, m
  <2>1. 0 \in Int
    OBVIOUS
  <2>2. QED
    BY <1>1, <1>2, <2>1, RecursionUpTo, Zenon
<1>4. g \in [0 .. m -> Int] /\ g[0] = 0 /\ \A n \in 1 .. m : g[n] = g[n - 1] * Base + bytes[n]
  <2>1. g \in [0 .. m -> Int] /\ g[0] = 0 /\ \A n \in 1 .. m : g[n] = D[n][g[n - 1]]
    <3> HIDE DEF D, m
    <3>1. QED
      BY <1>3 DEF Solves
  <2>2. ASSUME NEW n \in 1 .. m PROVE g[n] = g[n - 1] * Base + bytes[n]
    <3>1. g[n - 1] \in Int /\ n \in Nat
      BY <2>1, <1>1
    <3>2. QED
      BY <2>1, <3>1
  <2>3. QED
    BY <2>1, <2>2
<1>5. g = Body(g)
  <2>1. \A n \in 0 .. m : g[n] = Body(g)[n]
    BY <1>4
  <2>2. QED
    BY <1>4, <2>1
<1>6. Sum = Body(Sum)
  BY <1>5
<1>7. Sum = g
  <2> HIDE DEF Sum, m
  <2>1. Sum[0] = 0 /\ \A n \in 1 .. m : Sum[n] = Sum[n - 1] * Base + bytes[n]
    <3>1. \A n \in 0 .. m : Sum[n] = IF n = 0 THEN 0 ELSE Sum[n - 1] * Base + bytes[n]
      BY <1>6, Zenon
    <3>2. 0 \in 0 .. m /\ \A n \in 1 .. m : n \in 0 .. m /\ n # 0
      BY <1>1
    <3>3. QED
      BY <3>1, <3>2
  <2>2. GrowAlike(Sum, g, m)
    BY <1>4, <2>1 DEF GrowAlike
  <2>3. \A n \in 0 .. m : Sum[n] = g[n]
    BY <1>1, <2>2, SameUpTo
  <2>4. Sum = [n \in 0 .. m |-> Sum[n]]
    BY <1>6
  <2>5. QED
    BY <2>3, <2>4, <1>4
<1>8. Unsigned(bytes) = Sum[m]
  BY DEF Unsigned
<1>9. QED
  BY <1>4, <1>7, <1>8

\* The bytes of a number.
LEMMA BytesOf ==
  ASSUME NEW v \in Int, NEW n \in 0 .. 8
  PROVE  /\ BigEndian(v, n) \in Seq(Byte) /\ BigEndian(v, n) \in Seq(Int) /\ Len(BigEndian(v, n)) = n
         /\ \A k \in 1 .. n : BigEndian(v, n)[k] = (v \div Power[n - k]) % Base
<1>1. \A k \in 1 .. n : (v \div Power[n - k]) % Base \in Byte
  <2> TAKE k \in 1 .. n
  <2>1. n - k \in 0 .. 8
    OBVIOUS
  <2> DEFINE a == Power[n - k]
             q == v \div a
  <2>2. a \in Nat /\ a > 0
    BY <2>1, PowerFacts
  <2>3. q \in Int
    BY <2>2, Divides
  <2> HIDE DEF q
  <2>4. q % Base \in Int /\ 0 <= q % Base /\ q % Base < Base
    BY <2>3, Divides, PowerFacts
  <2>5. q % Base \in Byte
    BY <2>4, PowerFacts DEF Byte
  <2>6. QED
    BY <2>5 DEF q
<1>2. Byte \subseteq Int
  BY DEF Byte
<1>3. n \in Nat
  OBVIOUS
<1> DEFINE d(k) == (v \div Power[n - k]) % Base
<1>4. BigEndian(v, n) = [k \in 1 .. n |-> d(k)] /\ \A k \in 1 .. n : d(k) \in Byte /\ d(k) \in Int
  BY <1>1, <1>2 DEF BigEndian
<1> HIDE DEF d
<1>5. /\ BigEndian(v, n) \in Seq(Byte) /\ BigEndian(v, n) \in Seq(Int)
      /\ Len(BigEndian(v, n)) = n /\ \A k \in 1 .. n : BigEndian(v, n)[k] = d(k)
  BY <1>3, <1>4
<1>6. QED
  BY <1>5 DEF d

\* Reading the bytes of a number gives it modulo their number of values.
LEMMA UnsignedOf ==
  ASSUME NEW v \in Int, NEW n \in 0 .. 8
  PROVE  Unsigned(BigEndian(v, n)) = v % Power[n]
<1> DEFINE bytes == BigEndian(v, n)
           read(k) == (v \div Power[n - k]) % Power[k]
<1>1. bytes \in Seq(Int) /\ Len(bytes) = n /\ \A k \in 1 .. n : bytes[k] = (v \div Power[n - k]) % Base
  BY BytesOf
<1> HIDE DEF bytes
<1>2. PICK sum \in [0 .. n -> Int] :
        /\ sum[0] = 0 /\ \A k \in 1 .. n : sum[k] = sum[k - 1] * Base + bytes[k]
        /\ Unsigned(bytes) = sum[n]
  BY <1>1, Sums
<1> DEFINE T == {k \in Nat : k <= n => sum[k] = read(k)}
<1>3. 0 \in T
  <2> DEFINE a == Power[n]
  <2>0. a \in Nat /\ a > 0
    BY PowerFacts
  <2>1. v \div a \in Int /\ Power[0] = 1
    BY <2>0, PowerFacts, Divides
  <2>2. (v \div Power[n]) % 1 = 0
    BY <2>1
  <2>3. QED
    BY <1>2, <2>1, <2>2
<1>4. ASSUME NEW k \in 1 .. n, k - 1 \in T PROVE k \in T
  <2> DEFINE a == Power[n - k]
             b == Power[k - 1]
             u == v \div a
  <2>1. a \in Nat /\ a > 0 /\ b \in Nat /\ b > 0 /\ Power[n - (k - 1)] = a * Base /\ Power[k] = b * Base
    <3>1. n - k \in 0 .. 8 /\ k - 1 \in 0 .. 8 /\ k \in 1 .. 8
      OBVIOUS
    <3>2. n - (k - 1) \in 1 .. 8 /\ (n - (k - 1)) - 1 = n - k
      OBVIOUS
    <3>3. a \in Nat /\ a > 0 /\ b \in Nat /\ b > 0
      BY <3>1, PowerFacts
    <3>4. Power[n - (k - 1)] = a * Base
      BY <3>2, PowerFacts
    <3>5. Power[k] = b * Base
      BY <3>1, PowerFacts
    <3>6. QED
      BY <3>3, <3>4, <3>5
  <2>2. u \in Int
    BY <2>1, Divides
  <2>3. sum[k - 1] = (v \div (a * Base)) % b
    BY <1>4, <2>1
  <2>4. bytes[k] = u % Base
    BY <1>1
  <2> HIDE DEF a, b
  <2>5. u \div Base = v \div (a * Base)
    BY <2>1, PowerFacts, DividesTwice
  <2> HIDE DEF u
  <2>6. u % (Base * b) = (((u \div Base) % b) * Base) + (u % Base)
    BY <2>1, <2>2, PowerFacts, DividesTwice
  <2>7. Base * b = b * Base
    BY <2>1, PowerFacts
  <2>8. sum[k] = u % Power[k]
    BY <1>2, <2>1, <2>3, <2>4, <2>5, <2>6, <2>7
  <2>9. QED
    BY <2>8 DEF u, a
<1>5. n \in T
  <2> HIDE DEF T
  <2>1. \A k \in 1 .. n : k - 1 \in T => k \in T
    BY <1>4
  <2>2. n \in Nat
    OBVIOUS
  <2>3. 0 .. n \subseteq T
    BY <1>3, <2>1, <2>2, InductionUpTo
  <2>4. QED
    BY <2>2, <2>3
<1>6. Power[0] = 1 /\ v \div 1 = v
  BY Powers
<1>7. sum[n] = v % Power[n]
  BY <1>5, <1>6
<1>8. QED
  BY <1>2, <1>7 DEF bytes

\* Half of the numbers of n bytes: the negative ones.
LEMMA Halves ==
  ASSUME NEW n \in 1 .. 8
  PROVE  /\ Half(n) \in Nat /\ Half(n) > 0 /\ Power[n] = 2 * Half(n)
         /\ Half(n) = Power[n - 1] * (Base \div 2)
<1> DEFINE a == Power[n - 1]
           h == Base \div 2
<1>1. a \in Nat /\ a > 0 /\ Power[n] = a * Base
  BY Powers
<1>2. h \in Nat /\ h > 0 /\ Base = 2 * h
  BY BaseFacts
<1> HIDE DEF a, h
<1>3. a * Base = 2 * (a * h)
  BY <1>1, <1>2
<1>4. a * h \in Nat /\ a * h > 0
  BY <1>1, <1>2
<1>5. Half(n) = a * h
  BY <1>1, <1>3, <1>4 DEF Half
<1>6. QED
  BY <1>1, <1>3, <1>4, <1>5 DEF a, h

LEMMA SignedOf ==
  ASSUME NEW v \in Int, NEW n \in 1 .. 8
  PROVE  Signed(BigEndian(v, n)) = Wrapped(v, n)
<1> DEFINE bytes == BigEndian(v, n)
           a == Power[n - 1]
           h == Half(n)
           U == v % Power[n]
           b == bytes[1]
<1>1. Len(bytes) = n /\ b = (v \div a) % Base /\ Unsigned(bytes) = U
  <2>1. n \in 0 .. 8 /\ 1 \in 1 .. n
    OBVIOUS
  <2>2. Len(bytes) = n /\ bytes[1] = (v \div Power[n - 1]) % Base
    BY <2>1, BytesOf
  <2>3. Unsigned(bytes) = v % Power[n]
    BY <2>1, UnsignedOf
  <2>4. QED
    BY <2>2, <2>3
<1>2. /\ a \in Nat /\ a > 0 /\ Power[n] = a * Base /\ Power[n] = 2 * h /\ h \in Nat /\ h > 0
      /\ h = a * (Base \div 2)
  BY Powers, Halves
<1>3. Signed(bytes) = IF b < Base \div 2 THEN U ELSE U - Power[n]
  BY <1>1 DEF Signed
<1>4. Wrapped(v, n) = ((v + h) % Power[n]) - h
  BY DEF Wrapped, Half
<1>5. U = (b * a) + (v % a) /\ b \in Int /\ v % a \in Int /\ 0 <= v % a /\ v % a < a
  <2> DEFINE u == v \div a
  <2>1. Base \in Nat /\ Base > 0
    BY PowerFacts
  <2>2. v % a \in Int /\ 0 <= v % a /\ v % a < a /\ u \in Int
    BY <1>2, Divides
  <2>3. v % (a * Base) = ((u % Base) * a) + (v % a)
    BY <1>2, <2>1, DividesTwice
  <2> HIDE DEF u
  <2>4. u % Base \in Int
    BY <2>1, <2>2, Divides
  <2>5. b = u % Base /\ U = v % (a * Base)
    BY <1>1, <1>2 DEF u
  <2> HIDE DEF a, b, U
  <2>6. QED
    BY <2>2, <2>3, <2>4, <2>5
<1> DEFINE q == v \div Power[n]
           P == Power[n]
           c == v % a
           half == Base \div 2
<1>6. v = q * P + U /\ q \in Int /\ U \in Int /\ 0 <= U /\ U < P /\ P \in Nat
  BY <1>2, Divides
<1>7. b < half <=> U < h
  <2>1. half \in Nat
    BY BaseFacts
  <2>2. a \in Nat /\ h = a * half /\ U = (b * a) + c /\ 0 <= c /\ c < a /\ c \in Int /\ b \in Int
    BY <1>2, <1>5
  <2> HIDE DEF half, a, b, c, U, h
  <2>3. CASE b < half
    <3>1. (b + 1) * a <= half * a
      BY <2>1, <2>2, <2>3
    <3>2. (b + 1) * a = b * a + a
      BY <2>2
    <3>3. half * a = a * half
      BY <2>1, <2>2
    <3>4. b * a \in Int /\ a * half \in Int
      BY <2>1, <2>2
    <3>5. QED
      BY <2>2, <2>3, <3>1, <3>2, <3>3, <3>4
  <2>4. CASE ~(b < half)
    <3>1. b * a >= half * a
      BY <2>1, <2>2, <2>4
    <3>2. half * a = a * half
      BY <2>1, <2>2
    <3>3. b * a \in Int /\ a * half \in Int
      BY <2>1, <2>2
    <3>4. QED
      BY <2>2, <2>4, <3>1, <3>2, <3>3
  <2>5. QED
    BY <2>3, <2>4
<1>8. (v + h) % P = IF U < h THEN U + h ELSE U + h - P
  <2>1. P = 2 * h /\ h \in Nat
    BY <1>2
  <2> HIDE DEF P, q, U, h
  <2>2. CASE U < h
    <3>1. v + h = q * P + (U + h) /\ 0 <= U + h /\ U + h < P
      BY <1>6, <2>1, <2>2
    <3>2. QED
      BY <1>6, <2>1, <2>2, <3>1, DividesOnly
  <2>3. CASE ~(U < h)
    <3>1. (q + 1) * P = q * P + P
      BY <1>6
    <3>2. v + h = (q + 1) * P + (U + h - P) /\ 0 <= U + h - P /\ U + h - P < P
      BY <1>6, <2>1, <2>3, <3>1
    <3>3. QED
      BY <1>6, <2>1, <2>3, <3>2, DividesOnly
  <2>4. QED
    BY <2>2, <2>3
<1>9. /\ Wrapped(v, n) = ((v + h) % P) - h
      /\ Signed(bytes) = IF b < half THEN U ELSE U - P
      /\ h \in Nat /\ P \in Nat /\ U \in Int
  BY <1>2, <1>3, <1>4, <1>6
<1> HIDE DEF P, U, h, b, half
<1>10. Wrapped(v, n) = Signed(bytes)
  BY <1>7, <1>8, <1>9
<1>11. QED
  BY <1>10

\* A number in the range of its width is carried as it is.
LEMMA WrappedSame ==
  ASSUME NEW n \in 1 .. 8, NEW v \in -Half(n) .. Half(n) - 1
  PROVE  Wrapped(v, n) = v
<1>1. /\ Half(n) \in Nat /\ Power[n] = 2 * Half(n) /\ v + Half(n) \in Int
      /\ 0 <= v + Half(n) /\ v + Half(n) < Power[n]
  BY Halves
<1> DEFINE P == Power[n]
           w == v + Half(n)
<1> HIDE DEF P, w
<1>2. (0 * P + w) % P = w
  BY <1>1, DividesOnly DEF P, w
<1>3. 0 * P + w = w
  BY <1>1 DEF P, w
<1>4. Wrapped(v, n) = (w % P) - Half(n)
  BY DEF Wrapped, P, w, Half
<1>5. QED
  BY <1>1, <1>2, <1>3, <1>4 DEF w

-----------------------------------------------------------------------------
(* Record types.                                                            *)

Kinds == {Boolean, Int32, Int64, Double, Text}

LEMMA SchemasTyped == Schemas \subseteq Seq(Kinds) /\ TraceMetadata \in Schemas
<1> DEFINE S == Seq(Kinds)
<1> HIDE DEF S
<1>1. TraceMetadata \in Schemas
  BY DEF Schemas
<1>2. Boolean \in Kinds /\ Int32 \in Kinds /\ Int64 \in Kinds /\ Double \in Kinds /\ Text \in Kinds
  BY DEF Kinds
<1>3. {BranchingRecord, OperationExecutionRecord, AfterDatabaseEvent,
       BeforeDatabaseEvent, DatabaseFailedEvent, AfterFailedThreadBasedEvent,
       AfterThreadBasedEvent, BeforeThreadBasedEvent}
      \subseteq S
  BY <1>2, SMT DEF S, BranchingRecord, OperationExecutionRecord, AfterDatabaseEvent,
                     BeforeDatabaseEvent, DatabaseFailedEvent,
                     AfterFailedThreadBasedEvent, AfterThreadBasedEvent,
                     BeforeThreadBasedEvent
<1>4. {ApplicationTraceMetadata, BeforeReceivedRemoteEvent, BeforeSentRemoteEvent,
       ConstructionEvent, TraceMetadata, JoinEvent, SplitEvent}
      \subseteq S
  BY <1>2, SMT DEF S, ApplicationTraceMetadata, BeforeReceivedRemoteEvent,
                     BeforeSentRemoteEvent, ConstructionEvent, TraceMetadata, JoinEvent,
                     SplitEvent
<1>5. {MonitorEntryEvent, MonitorExitEvent, MonitorNotifyAllEvent, MonitorNotifyEvent,
       MonitorRequestEvent, MonitorWaitEvent}
      \subseteq S
  BY <1>2, SMT DEF S, MonitorEntryEvent, MonitorExitEvent, MonitorNotifyAllEvent,
                     MonitorNotifyEvent, MonitorRequestEvent, MonitorWaitEvent
<1>6. {AfterOperationEvent, AfterOperationFailedEvent, BeforeOperationEvent,
       CallOperationEvent, AfterConstructorEvent, AfterConstructorFailedEvent,
       BeforeConstructorEvent, CallConstructorEvent}
      \subseteq S
  BY <1>2, SMT DEF S, AfterOperationEvent, AfterOperationFailedEvent,
                     BeforeOperationEvent, CallOperationEvent, AfterConstructorEvent,
                     AfterConstructorFailedEvent, BeforeConstructorEvent,
                     CallConstructorEvent
<1>7. {AfterConstructorFailedObjectEvent, AfterConstructorObjectEvent,
       BeforeConstructorObjectEvent, BeforeConstructorObjectInterfaceEvent,
       CallConstructorObjectEvent}
      \subseteq S
  BY <1>2, SMT DEF S, AfterConstructorFailedObjectEvent, AfterConstructorObjectEvent,
                     BeforeConstructorObjectEvent,
                     BeforeConstructorObjectInterfaceEvent, CallConstructorObjectEvent
<1>8. {AfterOperationFailedObjectEvent, AfterOperationObjectEvent,
       BeforeOperationObjectEvent, BeforeOperationObjectInterfaceEvent,
       CallOperationObjectEvent}
      \subseteq S
  BY <1>2, SMT DEF S, AfterOperationFailedObjectEvent, AfterOperationObjectEvent,
                     BeforeOperationObjectEvent, BeforeOperationObjectInterfaceEvent,
                     CallOperationObjectEvent
<1>9. {ClassLoadingRecord, CompilationRecord, GCRecord, MemoryRecord,
       ThreadsStatusRecord, UptimeRecord}
      \subseteq S
  BY <1>2, SMT DEF S, ClassLoadingRecord, CompilationRecord, GCRecord, MemoryRecord,
                     ThreadsStatusRecord, UptimeRecord
<1>10. {EmptyRecord, HostApplicationMetaData, KiekerMetadataRecord, ThreadMetaData,
       TimestampRecord}
      \subseteq S
  BY <1>2, SMT DEF S, EmptyRecord, HostApplicationMetaData, KiekerMetadataRecord,
                     ThreadMetaData, TimestampRecord
<1>11. {ActivationEvent, ActivationParameterEvent, AddParameterValueEvent,
       DeactivationEvent, RemoveParameterValueEvent, UpdateParameterEvent}
      \subseteq S
  BY <1>2, SMT DEF S, ActivationEvent, ActivationParameterEvent, AddParameterValueEvent,
                     DeactivationEvent, RemoveParameterValueEvent, UpdateParameterEvent
<1>12. {CPUUtilizationRecord, DiskUsageRecord, LoadAverageRecord, MemSwapUsageRecord,
       NetworkUtilizationRecord, ResourceUtilizationRecord}
      \subseteq S
  BY <1>2, SMT DEF S, CPUUtilizationRecord, DiskUsageRecord, LoadAverageRecord,
                     MemSwapUsageRecord, NetworkUtilizationRecord,
                     ResourceUtilizationRecord
<1>13. \A s \in Schemas : s \in S
  <2>1. QED
    BY <1>3, <1>4, <1>5, <1>6, <1>7, <1>8, <1>9, <1>10, <1>11, <1>12, SMT DEF Schemas
<1>14. QED
  BY <1>1, <1>13 DEF S

\* The widths of kinds.
LEMMA Widths ==
  ASSUME NEW kind \in Kinds
  PROVE  Width(kind) \in {1, 4, 8}
BY DEF Width, Kinds, Boolean, Int32, Int64, Double, Text

\* The definition of Ends has a solution.
LEMMA EndsSolved ==
  ASSUME NEW schema \in Seq(Kinds)
  PROVE  /\ Ends(schema) \in [0 .. Len(schema) -> Nat] /\ Ends(schema)[0] = 12
         /\ \A i \in 1 .. Len(schema) : Ends(schema)[i] = Ends(schema)[i - 1] + Width(schema[i])
<1> DEFINE m == Len(schema)
           D == [n \in Nat |-> [x \in Nat |-> IF n \in 1 .. m THEN x + Width(schema[n]) ELSE 0]]
           Body(f) == [i \in 0 .. m |-> IF i = 0 THEN 12 ELSE f[i - 1] + Width(schema[i])]
           End == CHOOSE f : f = Body(f)
<1>1. m \in Nat /\ \A n \in 1 .. m : Width(schema[n]) \in Nat
  BY Widths
<1>2. D \in [Nat -> [Nat -> Nat]]
  <2>1. \A n \in Nat, x \in Nat : (IF n \in 1 .. m THEN x + Width(schema[n]) ELSE 0) \in Nat
    BY <1>1
  <2>2. QED
    BY <2>1
<1>3. PICK g : Solves(g, Nat, 12, D, m)
  <2> HIDE DEF D, m
  <2>1. 12 \in Nat
    OBVIOUS
  <2>2. QED
    BY <1>1, <1>2, <2>1, RecursionUpTo, Zenon
<1>4. g \in [0 .. m -> Nat] /\ g[0] = 12 /\ \A n \in 1 .. m : g[n] = g[n - 1] + Width(schema[n])
  <2>1. g \in [0 .. m -> Nat] /\ g[0] = 12 /\ \A n \in 1 .. m : g[n] = D[n][g[n - 1]]
    <3> HIDE DEF D, m
    <3>1. QED
      BY <1>3 DEF Solves
  <2>2. ASSUME NEW n \in 1 .. m PROVE g[n] = g[n - 1] + Width(schema[n])
    <3>1. g[n - 1] \in Nat /\ n \in Nat
      BY <2>1, <1>1
    <3>2. QED
      BY <2>1, <3>1
  <2>3. QED
    BY <2>1, <2>2
<1>5. g = Body(g)
  <2>1. \A n \in 0 .. m : g[n] = Body(g)[n]
    BY <1>4
  <2>2. QED
    BY <1>4, <2>1
<1>6. End = Body(End)
  BY <1>5
<1>7. End = g
  <2> HIDE DEF End, m
  <2>1. End[0] = 12 /\ \A n \in 1 .. m : End[n] = End[n - 1] + Width(schema[n])
    <3>1. \A n \in 0 .. m : End[n] = IF n = 0 THEN 12 ELSE End[n - 1] + Width(schema[n])
      BY <1>6, Zenon
    <3>2. 0 \in 0 .. m /\ \A n \in 1 .. m : n \in 0 .. m /\ n # 0
      BY <1>1
    <3>3. QED
      BY <3>1, <3>2
  <2>2. GrowAlike(End, g, m)
    BY <1>4, <2>1 DEF GrowAlike
  <2>3. \A n \in 0 .. m : End[n] = g[n]
    BY <1>1, <2>2, SameUpTo
  <2>4. End = [n \in 0 .. m |-> End[n]]
    BY <1>6
  <2>5. QED
    BY <2>3, <2>4, <1>4
<1>8. Ends(schema) = End
  BY DEF Ends
<1>9. QED
  BY <1>4, <1>7, <1>8

\* A field begins where the one before it ends, and none ends behind the record.
LEMMA EndsFacts ==
  ASSUME NEW schema \in Seq(Kinds)
  PROVE  /\ \A i \in 0 .. Len(schema) :
              Ends(schema)[i] \in Nat /\ 12 <= Ends(schema)[i] /\ Ends(schema)[i] <= RecordEnd(schema)
         /\ Ends(schema)[0] = 12 /\ RecordEnd(schema) \in Nat /\ 12 <= RecordEnd(schema)
         /\ \A i \in 1 .. Len(schema) :
              /\ Ends(schema)[i] = Ends(schema)[i - 1] + Width(schema[i])
              /\ Width(schema[i]) \in {1, 4, 8}
<1> DEFINE m == Len(schema)
           End == Ends(schema)
<1>1. m \in Nat /\ \A i \in 1 .. m : Width(schema[i]) \in {1, 4, 8}
  BY Widths
<1>2. End \in [0 .. m -> Nat] /\ End[0] = 12 /\ \A i \in 1 .. m : End[i] = End[i - 1] + Width(schema[i])
  BY EndsSolved
<1>3. RecordEnd(schema) = End[m]
  BY DEF RecordEnd
<1> HIDE DEF m, End
<1>4. \A i \in 0 .. m : 12 <= End[i]
  <2> DEFINE T == {i \in 0 .. m : 12 <= End[i]}
  <2>1. 0 \in T
    BY <1>1, <1>2
  <2>2. \A i \in 1 .. m : i - 1 \in T => i \in T
    <3> SUFFICES ASSUME NEW i \in 1 .. m, i - 1 \in T PROVE i \in T
      OBVIOUS
    <3>1. i - 1 \in 0 .. m /\ i \in 0 .. m /\ 12 <= End[i - 1]
      BY <1>1
    <3>2. End[i - 1] \in Nat /\ End[i] = End[i - 1] + Width(schema[i]) /\ Width(schema[i]) \in {1, 4, 8}
      BY <1>1, <1>2, <3>1
    <3>3. QED
      BY <3>1, <3>2
  <2> HIDE DEF T
  <2>3. 0 .. m \subseteq T
    BY <1>1, <2>1, <2>2, InductionUpTo
  <2>4. QED
    BY <2>3 DEF T
<1>5. \A i \in 0 .. m : End[i] <= End[m]
  <2> DEFINE T == {i \in 0 .. m : End[m - i] <= End[m]}
  <2>1. 0 \in T
    BY <1>1, <1>2
  <2>2. \A i \in 1 .. m : i - 1 \in T => i \in T
    <3> SUFFICES ASSUME NEW i \in 1 .. m, i - 1 \in T PROVE i \in T
      OBVIOUS
    <3> DEFINE k == m - (i - 1)
    <3>1. k \in 1 .. m /\ k - 1 = m - i /\ End[k] <= End[m] /\ k - 1 \in 0 .. m
      BY <1>1
    <3> HIDE DEF k
    <3>2. End[k] \in Nat /\ End[k - 1] \in Nat /\ End[k] = End[k - 1] + Width(schema[k]) /\ End[m] \in Nat
      BY <1>1, <1>2, <3>1
    <3>3. End[k - 1] <= End[m]
      BY <1>1, <3>1, <3>2
    <3>4. QED
      BY <1>1, <3>1, <3>3
  <2> HIDE DEF T
  <2>3. 0 .. m \subseteq T
    BY <1>1, <2>1, <2>2, InductionUpTo
  <2>4. \A i \in 0 .. m : m - i \in 0 .. m /\ m - (m - i) = i
    BY <1>1
  <2>5. QED
    BY <2>3, <2>4 DEF T
<1>6. QED
  BY <1>1, <1>2, <1>3, <1>4, <1>5 DEF m, End

-----------------------------------------------------------------------------
(* Strings of bytes.                                                        *)

\* c has the first m elements of a in front and the k elements of b behind.
Joint(c, a, b, S, m, k) ==
  /\ c \in Seq(S) /\ Len(c) = m + k
  /\ \A n \in 1 .. m : c[n] = a[n]
  /\ \A n \in 1 .. k : c[m + n] = b[n]

LEMMA Joined == \A S : \A a, b \in Seq(S) : Joint(a \o b, a, b, S, Len(a), Len(b))
BY DEF Joint

\* b has the bytes m behind the first at.
HasAt(b, at, m) == at + Len(m) <= Len(b) /\ \A n \in 1 .. Len(m) : b[at + n] = m[n]

\* A part of a string is what its bytes are.
LEMMA Slice ==
  ASSUME NEW S, NEW b \in Seq(S), NEW m \in Seq(S), NEW at \in Nat, HasAt(b, at, m)
  PROVE  SubSeq(b, at + 1, at + Len(m)) = m
<1>1. Len(m) \in Nat /\ m = [n \in 1 .. Len(m) |-> m[n]]
  OBVIOUS
<1>2. SubSeq(b, at + 1, at + Len(m)) = [n \in 1 .. Len(m) |-> b[at + n]]
  <2>1. at + Len(m) <= Len(b)
    BY DEF HasAt
  <2> DEFINE from == at + 1
             to == at + Len(m)
  <2>2. from \in Nat /\ to \in Nat /\ from >= 1 /\ to = from + Len(m) - 1 /\ to <= Len(b)
    BY <1>1, <2>1
  <2>3. \A n \in 1 .. Len(m) : from + n - 1 = at + n
    BY <1>1
  <2> HIDE DEF from, to
  <2>4. SubSeq(b, from, to) = [n \in 1 .. to + 1 - from |-> b[from + n - 1]]
    BY <2>2
  <2>5. 1 .. to + 1 - from = 1 .. Len(m)
    BY <1>1, <2>2
  <2>6. [n \in 1 .. Len(m) |-> b[from + n - 1]] = [n \in 1 .. Len(m) |-> b[at + n]]
    BY <2>3
  <2>7. QED
    BY <2>4, <2>5, <2>6 DEF from, to
<1>3. \A n \in 1 .. Len(m) : b[at + n] = m[n]
  BY DEF HasAt
<1>4. QED
  BY <1>1, <1>2, <1>3

\* What a string contains, a longer one contains at the same place; and the end.
LEMMA HasAtJoined ==
  ASSUME NEW S, NEW a \in Seq(S), NEW b \in Seq(S)
  PROVE  /\ HasAt(a \o b, Len(a), b)
         /\ \A at \in Nat, m \in Seq(S) : HasAt(a, at, m) => HasAt(a \o b, at, m)
<1> DEFINE c == a \o b
<1>1. Joint(c, a, b, S, Len(a), Len(b)) /\ Len(a) \in Nat /\ Len(b) \in Nat
  BY Joined
<1> HIDE DEF c
<1>2. HasAt(c, Len(a), b)
  BY <1>1 DEF Joint, HasAt
<1>3. ASSUME NEW at \in Nat, NEW m \in Seq(S), HasAt(a, at, m) PROVE HasAt(c, at, m)
  <2>1. Len(m) \in Nat
    OBVIOUS
  <2>2. \A n \in 1 .. Len(m) : at + n \in 1 .. Len(a) /\ a[at + n] = m[n]
    BY <1>1, <1>3, <2>1 DEF HasAt
  <2>3. at + Len(m) <= Len(c)
    BY <1>1, <1>3, <2>1 DEF HasAt, Joint
  <2>4. QED
    BY <1>1, <2>2, <2>3 DEF HasAt, Joint
<1>4. QED
  BY <1>2, <1>3 DEF c

\* Behind the front of a string comes its rest.
LEMMA RestOf ==
  ASSUME NEW S, NEW a \in Seq(S), NEW b \in Seq(S)
  PROVE  Rest(a \o b, Len(a)) = b
<1> DEFINE c == a \o b
<1>1. c \in Seq(S) /\ Len(c) = Len(a) + Len(b) /\ Len(a) \in Nat /\ Len(b) \in Nat
  OBVIOUS
<1>2. HasAt(c, Len(a), b)
  BY HasAtJoined
<1> HIDE DEF c
<1>3. SubSeq(c, Len(a) + 1, Len(a) + Len(b)) = b
  BY <1>1, <1>2, Slice
<1>4. QED
  BY <1>1, <1>3 DEF Rest, c

LEMMA ByteStrings == Byte \subseteq Int /\ Seq(Byte) \subseteq Seq(Int)
<1>1. Byte \subseteq Int
  BY DEF Byte
<1>2. QED
  BY <1>1, SeqMonotonic

\* The parts of an announcement.
LEMMA AnnouncementParts ==
  ASSUME NEW k \in Nat, NEW s \in Seq(Byte)
  PROVE  /\ Announcement(k, s) \in Seq(Byte) /\ Len(Announcement(k, s)) = 12 + Len(s)
         /\ HasAt(Announcement(k, s), 0, BigEndian(-1, 4)) /\ HasAt(Announcement(k, s), 4, BigEndian(k, 4))
         /\ HasAt(Announcement(k, s), 8, BigEndian(Len(s), 4)) /\ HasAt(Announcement(k, s), 12, s)
<1> DEFINE a == BigEndian(-1, 4)
           b == BigEndian(k, 4)
           c == BigEndian(Len(s), 4)
           d == a \o b
           e == d \o c
           f == e \o s
<1>1. /\ a \in Seq(Byte) /\ b \in Seq(Byte) /\ c \in Seq(Byte)
      /\ Len(a) = 4 /\ Len(b) = 4 /\ Len(c) = 4 /\ Len(s) \in Nat
  <2>1. -1 \in Int /\ k \in Int /\ Len(s) \in Int /\ Len(s) \in Nat /\ 4 \in 0 .. 8
    OBVIOUS
  <2>2. QED
    BY <2>1, BytesOf
<1>2. Announcement(k, s) = f
  BY DEF Announcement
<1> HIDE DEF a, b, c, d, e, f
<1>3. d \in Seq(Byte) /\ Len(d) = 8 /\ HasAt(d, 0, a) /\ HasAt(d, 4, b)
  <2>1. Joint(d, a, b, Byte, 4, 4)
    BY <1>1, Joined DEF d
  <2>2. QED
    BY <1>1, <2>1 DEF Joint, HasAt
<1>4. e \in Seq(Byte) /\ Len(e) = 12 /\ HasAt(e, 0, a) /\ HasAt(e, 4, b) /\ HasAt(e, 8, c)
  <2>1. Joint(e, d, c, Byte, 8, 4)
    BY <1>1, <1>3, Joined DEF e
  <2>2. HasAt(e, 0, a) /\ HasAt(e, 4, b)
    BY <1>1, <1>3, HasAtJoined DEF e
  <2>3. QED
    BY <1>1, <2>1, <2>2 DEF Joint, HasAt
<1>5. /\ f \in Seq(Byte) /\ Len(f) = 12 + Len(s)
      /\ HasAt(f, 0, a) /\ HasAt(f, 4, b) /\ HasAt(f, 8, c) /\ HasAt(f, 12, s)
  <2>1. Joint(f, e, s, Byte, 12, Len(s))
    BY <1>1, <1>4, Joined DEF f
  <2>2. HasAt(f, 0, a) /\ HasAt(f, 4, b) /\ HasAt(f, 8, c)
    BY <1>1, <1>4, HasAtJoined DEF f
  <2>3. QED
    BY <1>1, <2>1, <2>2 DEF Joint, HasAt
<1>6. QED
  BY <1>2, <1>5 DEF a, b, c

-----------------------------------------------------------------------------
(* The values of fields and their bytes.                                    *)

Values(kind) ==
  CASE kind = Boolean -> Byte [] kind \in {Int32, Int64} -> Long
    [] kind = Double -> Nat [] kind = Text -> Texts

LEMMA ValuesOf ==
  /\ Values(Boolean) = Byte /\ Values(Int32) = Long /\ Values(Int64) = Long
  /\ Values(Double) = Nat /\ Values(Text) = Texts
BY DEF Values, Boolean, Int32, Int64, Double, Text

LEMMA WidthsOf ==
  Width(Boolean) = 1 /\ Width(Int32) = 4 /\ Width(Int64) = 8 /\ Width(Double) = 8 /\ Width(Text) = 4
BY DEF Width, Boolean, Int32, Int64, Double, Text

LEMMA SerializesAs ==
  \A v, tab :
    /\ Serialize(Boolean, v, tab) = Copied(<<v>>, 1)
    /\ Serialize(Int32, v, tab) = Copied(BigEndian(v, 4), 4)
    /\ Serialize(Int64, v, tab) = Copied(BigEndian(v, 8), 8)
    /\ Serialize(Double, v, tab) = Copied(BigEndian(v \div 2, 8), 8)
    /\ Serialize(Text, v, tab) = Copied(BigEndian(KeyIn(tab, v), 4), 4)
BY DEF Serialize, kieker_serialize_boolean, kieker_serialize_int32, kieker_serialize_int64,
       kieker_serialize_double, kieker_serialize_string, Boolean, Int32, Int64, Double, Text

LEMMA TextFacts ==
  /\ Texts \subseteq Seq(Byte) /\ IsFiniteSet(Texts)
  /\ TypeNames[1] \in Texts /\ TypeNames[2] \in Texts /\ TypeNames[1] # TypeNames[2]
<1>1. /\ TypeNames \in Seq(Seq(Byte)) /\ Samples[Text] \in Seq(Seq(Byte)) /\ Len(TypeNames) = 2
      /\ TypeNames[1] # TypeNames[2]
  BY TextsAssumption
<1>2. ASSUME NEW s \in Seq(Seq(Byte)) PROVE ToSet(s) \subseteq Seq(Byte) /\ IsFiniteSet(ToSet(s))
  <2>1. /\ Len(s) \in Nat /\ DOMAIN s = 1 .. Len(s) /\ \A i \in DOMAIN s : s[i] \in Seq(Byte)
        /\ s \in [1 .. Len(s) -> Seq(Byte)]
    BY LenProperties
  <2>2. IsFiniteSet(1 .. Len(s))
    BY <2>1, FS_Interval
  <2>3. s \in Surjection(1 .. Len(s), ToSet(s))
    BY <2>1, Zenon DEF Surjection, ToSet
  <2>4. IsFiniteSet(ToSet(s))
    BY <2>2, <2>3, FS_Surjection
  <2>5. QED
    BY <2>1, <2>4, Zenon DEF ToSet
<1>3. TypeNames[1] \in ToSet(TypeNames) /\ TypeNames[2] \in ToSet(TypeNames)
  BY <1>1 DEF ToSet
<1>4. IsFiniteSet(Texts)
  BY <1>1, <1>2, FS_Union DEF Texts
<1>5. QED
  BY <1>1, <1>2, <1>3, <1>4 DEF Texts

LEMMA Picked ==
  ASSUME NEW S, NEW s \in Seq(S), s # <<>>, NEW n \in Nat
  PROVE  s[(n % Len(s)) + 1] \in S /\ s[(n % Len(s)) + 1] \in ToSet(s)
<1>1. Len(s) \in Nat /\ Len(s) > 0
  OBVIOUS
<1>2. n % Len(s) \in Int /\ 0 <= n % Len(s) /\ n % Len(s) < Len(s)
  BY <1>1, Divides
<1> DEFINE i == (n % Len(s)) + 1
<1>3. i \in 1 .. Len(s)
  BY <1>1, <1>2
<1> HIDE DEF i
<1>4. s[i] \in S /\ s[i] \in ToSet(s)
  BY <1>3 DEF ToSet
<1>5. QED
  BY <1>4 DEF i

LEMMA SampleTyped ==
  ASSUME NEW kind \in Kinds, NEW n \in Nat
  PROVE  Sample(kind, n) \in Values(kind)
<1>1. Samples[kind] # <<>>
  BY SamplesAssumption DEF Kinds
<1>2. CASE kind = Boolean
  <2>1. Sample(kind, n) \in Byte
    BY <1>1, <1>2, SamplesAssumption, Picked DEF Sample
  <2>2. QED
    BY <1>2, <2>1, ValuesOf, WidthsOf, SerializesAs
<1>3. CASE kind \in {Int32, Int64}
  <2>1. Sample(kind, n) \in Long
    BY <1>1, <1>3, SamplesAssumption, Picked DEF Sample
  <2>2. QED
    BY <1>3, <2>1, ValuesOf, WidthsOf, SerializesAs
<1>4. CASE kind = Double
  <2>1. Sample(kind, n) \in Nat
    BY <1>1, <1>4, SamplesAssumption, Picked DEF Sample
  <2>2. QED
    BY <1>4, <2>1, ValuesOf, WidthsOf, SerializesAs
<1>5. CASE kind = Text
  <2>1. Sample(kind, n) \in ToSet(Samples[Text])
    BY <1>1, <1>5, TextsAssumption, Picked DEF Sample
  <2>2. QED
    BY <1>5, <2>1, ValuesOf, WidthsOf, SerializesAs DEF Texts
<1>6. QED
  BY <1>2, <1>3, <1>4, <1>5 DEF Kinds

LEMMA LongFacts == Long \subseteq Int
BY Halves DEF Long

\* The key of a string of the table is where it stands.
LEMMA KeyFacts ==
  ASSUME NEW S, NEW tab \in Seq(S), NEW s \in ToSet(tab)
  PROVE  KeyIn(tab, s) \in 0 .. Len(tab) - 1 /\ tab[KeyIn(tab, s) + 1] = s
<1>1. PICK i \in 1 .. Len(tab) : tab[i] = s
  BY DEF ToSet
<1>2. i - 1 \in 0 .. Len(tab) - 1 /\ (i - 1) + 1 = i
  OBVIOUS
<1>3. QED
  BY <1>1, <1>2 DEF KeyIn

\* A serializer copies the bytes whose number it returns: the width of the field.
LEMMA SerializeTyped ==
  ASSUME NEW kind \in Kinds, NEW v \in Values(kind), NEW tab \in Seq(Texts), kind = Text => v \in ToSet(tab)
  PROVE  /\ Serialize(kind, v, tab).bytes \in Seq(Byte)
         /\ Len(Serialize(kind, v, tab).bytes) = Width(kind)
         /\ Serialize(kind, v, tab).returns = Width(kind)
<1>1. 4 \in 0 .. 8 /\ 8 \in 0 .. 8
  OBVIOUS
<1>2. ASSUME NEW w \in Int, NEW n \in {4, 8}
      PROVE  /\ Copied(BigEndian(w, n), n).bytes \in Seq(Byte)
             /\ Len(Copied(BigEndian(w, n), n).bytes) = n
             /\ Copied(BigEndian(w, n), n).returns = n
  BY <1>1, BytesOf DEF Copied
<1>3. CASE kind = Boolean
  <2>1. v \in Byte
    BY <1>3, ValuesOf, WidthsOf, SerializesAs
  <2>2. Serialize(kind, v, tab) = Copied(<<v>>, 1) /\ Width(kind) = 1
    BY <1>3, ValuesOf, WidthsOf, SerializesAs
  <2>3. QED
    BY <2>1, <2>2 DEF Copied
<1>4. CASE kind = Int32
  <2>1. v \in Int
    BY <1>4, LongFacts, ValuesOf, WidthsOf, SerializesAs
  <2>2. Serialize(kind, v, tab) = Copied(BigEndian(v, 4), 4) /\ Width(kind) = 4
    BY <1>4, ValuesOf, WidthsOf, SerializesAs
  <2>3. QED
    BY <1>2, <2>1, <2>2
<1>5. CASE kind = Int64
  <2>1. v \in Int
    BY <1>5, LongFacts, ValuesOf, WidthsOf, SerializesAs
  <2>2. Serialize(kind, v, tab) = Copied(BigEndian(v, 8), 8) /\ Width(kind) = 8
    BY <1>5, ValuesOf, WidthsOf, SerializesAs
  <2>3. QED
    BY <1>2, <2>1, <2>2
<1>6. CASE kind = Double
  <2>1. v \in Nat
    BY <1>6, ValuesOf, WidthsOf, SerializesAs
  <2>2. v \div 2 \in Int
    BY <2>1
  <2>3. Serialize(kind, v, tab) = Copied(BigEndian(v \div 2, 8), 8) /\ Width(kind) = 8
    BY <1>6, ValuesOf, WidthsOf, SerializesAs
  <2>4. QED
    BY <1>2, <2>2, <2>3
<1>7. CASE kind = Text
  <2>1. KeyIn(tab, v) \in Int
    BY <1>7, KeyFacts
  <2>2. Serialize(kind, v, tab) = Copied(BigEndian(KeyIn(tab, v), 4), 4) /\ Width(kind) = 4
    BY <1>7, ValuesOf, WidthsOf, SerializesAs
  <2>3. QED
    BY <1>2, <2>1, <2>2
<1>8. QED
  BY <1>3, <1>4, <1>5, <1>6, <1>7 DEF Kinds

-----------------------------------------------------------------------------
(* The collector.                                                           *)

Pairs == Seq(Int) \X Seq(Seq(Int))
AfterString(p) ==
  <<Rest(p[1], StringEnd(p[1])), Append(p[2], SubSeq(p[1], 13, StringEnd(p[1])))>>
AfterRecord(schemas, p) == <<Rest(p[1], RecordEnd(schemas[TypeAt(p[1], p[2]) + 1])), p[2]>>

LEMMA PairsFacts ==
  ASSUME NEW p \in Pairs
  PROVE  p[1] \in Seq(Int) /\ p[2] \in Seq(Seq(Int)) /\ Len(p[1]) \in Nat
BY DEF Pairs

LEMMA RestTyped ==
  ASSUME NEW S, NEW b \in Seq(S), NEW end \in 1 .. Len(b)
  PROVE  Rest(b, end) \in Seq(S) /\ Len(Rest(b, end)) < Len(b)
BY DEF Rest

LEMMA AfterStringTyped ==
  ASSUME NEW p \in Pairs, StartsWithString(p[1], p[2])
  PROVE  AfterString(p) \in Pairs /\ Len(AfterString(p)[1]) < Len(p[1])
<1> DEFINE b == p[1]
           k == p[2]
           end == StringEnd(b)
           s == SubSeq(b, 13, end)
<1>1. b \in Seq(Int) /\ k \in Seq(Seq(Int)) /\ Len(b) \in Nat /\ end \in 12 .. Len(b)
  BY PairsFacts DEF StartsWithString
<1>2. AfterString(p) = <<Rest(b, end), Append(k, s)>>
  BY DEF AfterString
<1> HIDE DEF b, k, end
<1>3. s \in Seq(Int)
  BY <1>1
<1> HIDE DEF s
<1>4. Append(k, s) \in Seq(Seq(Int))
  BY <1>1, <1>3
<1>5. Rest(b, end) \in Seq(Int) /\ Len(Rest(b, end)) < Len(b)
  <2>1. end \in 1 .. Len(b)
    BY <1>1
  <2>2. QED
    BY <1>1, <2>1, RestTyped
<1> DEFINE r == Rest(b, end)
           a == Append(k, s)
<1>6. r \in Seq(Int) /\ a \in Seq(Seq(Int)) /\ AfterString(p) = <<r, a>> /\ Len(r) < Len(b)
  BY <1>2, <1>4, <1>5
<1> HIDE DEF r, a
<1>7. QED
  BY <1>6 DEF Pairs, b

\* The record types are two.
TypesAre(schemas) == schemas[1] \in Seq(Kinds) /\ schemas[2] \in Seq(Kinds)

LEMMA AfterRecordTyped ==
  ASSUME NEW schemas, TypesAre(schemas), NEW p \in Pairs, StartsWithRecord(schemas, p[1], p[2])
  PROVE  AfterRecord(schemas, p) \in Pairs /\ Len(AfterRecord(schemas, p)[1]) < Len(p[1])
<1> DEFINE b == p[1]
           k == p[2]
           schema == schemas[TypeAt(b, k) + 1]
           end == RecordEnd(schema)
<1>1. b \in Seq(Int) /\ k \in Seq(Seq(Int)) /\ Len(b) \in Nat /\ TypeAt(b, k) # -1 /\ end <= Len(b)
  BY PairsFacts DEF StartsWithRecord
<1>2. TypeAt(b, k) \in {0, 1}
  BY <1>1 DEF TypeAt, TypeOf
<1>3. schema \in Seq(Kinds)
  BY <1>2 DEF TypesAre
<1>4. AfterRecord(schemas, p) = <<Rest(b, end), k>>
  BY DEF AfterRecord
<1> HIDE DEF b, k, schema
<1>5. end \in 1 .. Len(b)
  BY <1>1, <1>3, EndsFacts
<1> HIDE DEF end
<1> DEFINE r == Rest(b, end)
<1>6. r \in Seq(Int) /\ Len(r) < Len(b) /\ AfterRecord(schemas, p) = <<r, k>>
  BY <1>1, <1>4, <1>5, RestTyped
<1> HIDE DEF r
<1>7. QED
  BY <1>1, <1>6 DEF Pairs, b

\* What a reader may get.
Items(schemas) == {RecordAt(schemas, p[1], p[2]) : p \in Pairs} \cup {"garbage"}

\* One step of the reader, the rest being read by f.
ReadStep(schemas, f, p) ==
  IF p[1] = <<>> THEN <<>>
  ELSE IF StartsWithString(p[1], p[2]) THEN f[AfterString(p)]
  ELSE IF StartsWithRecord(schemas, p[1], p[2])
  THEN <<RecordAt(schemas, p[1], p[2])>> \o f[AfterRecord(schemas, p)]
  ELSE <<"garbage">>

LEMMA ReadStepTyped ==
  ASSUME NEW schemas, TypesAre(schemas), NEW f \in [Pairs -> Seq(Items(schemas))], NEW p \in Pairs
  PROVE  ReadStep(schemas, f, p) \in Seq(Items(schemas))
<1>1. RecordAt(schemas, p[1], p[2]) \in Items(schemas) /\ "garbage" \in Items(schemas)
  BY DEF Items
<1>2. StartsWithString(p[1], p[2]) => f[AfterString(p)] \in Seq(Items(schemas))
  BY AfterStringTyped
<1>3. StartsWithRecord(schemas, p[1], p[2]) => f[AfterRecord(schemas, p)] \in Seq(Items(schemas))
  BY AfterRecordTyped
<1> DEFINE I == Items(schemas)
<1>4. ASSUME NEW x \in I, NEW y \in Seq(I) PROVE <<x>> \o y \in Seq(I)
  <2> HIDE DEF I
  <2>1. QED
    OBVIOUS
<1>5. <<>> \in Seq(I) /\ <<"garbage">> \in Seq(I)
  <2>1. "garbage" \in I
    BY <1>1
  <2> HIDE DEF I
  <2>2. QED
    BY <2>1
<1> HIDE DEF I
<1>6. QED
  BY <1>1, <1>2, <1>3, <1>4, <1>5 DEF ReadStep, I

LEMMA ReadStepSmaller ==
  ASSUME NEW schemas, TypesAre(schemas), NEW p \in Pairs, NEW f, NEW g,
         \A q \in Pairs : Len(q[1]) < Len(p[1]) => f[q] = g[q]
  PROVE  ReadStep(schemas, f, p) = ReadStep(schemas, g, p)
<1>1. StartsWithString(p[1], p[2]) => f[AfterString(p)] = g[AfterString(p)]
  BY AfterStringTyped
<1>2. StartsWithRecord(schemas, p[1], p[2]) => f[AfterRecord(schemas, p)] = g[AfterRecord(schemas, p)]
  BY AfterRecordTyped
<1>3. QED
  BY <1>1, <1>2, Zenon DEF ReadStep

\* The definition of Read has a solution.
LEMMA ReadSolved ==
  ASSUME NEW schemas, TypesAre(schemas)
  PROVE  \E r \in [Pairs -> Seq(Items(schemas))] :
           /\ \A p \in Pairs : r[p] = ReadStep(schemas, r, p)
           /\ \A b \in Seq(Int), k \in Seq(Seq(Int)) : Read(schemas, b, k) = r[<<b, k>>]
<1> DEFINE S == Seq(Items(schemas))
           size == [p \in Pairs |-> Len(p[1])]
           D == [f \in [Pairs -> S] |-> [p \in Pairs |-> ReadStep(schemas, f, p)]]
           Body(f) == [p \in Pairs |-> ReadStep(schemas, f, p)]
           Reader == CHOOSE f : f = Body(f)
<1>1. size \in [Pairs -> Nat]
  BY PairsFacts
<1>2. D \in [[Pairs -> S] -> [Pairs -> S]]
  BY ReadStepTyped, Zenon
<1>3. S # {}
  <2>1. <<>> \in S
    OBVIOUS
  <2>2. QED
    BY <2>1
<1>4. Descends(Pairs, S, size, D)
  <2> SUFFICES ASSUME NEW f \in [Pairs -> S], NEW g \in [Pairs -> S], NEW p \in Pairs,
                      \A q \in Pairs : size[q] < size[p] => f[q] = g[q]
               PROVE  D[f][p] = D[g][p]
    BY DEF Descends
  <2>1. \A q \in Pairs : Len(q[1]) < Len(p[1]) => f[q] = g[q]
    OBVIOUS
  <2>2. ReadStep(schemas, f, p) = ReadStep(schemas, g, p)
    BY <2>1, ReadStepSmaller
  <2>3. QED
    BY <2>2, Zenon
<1>5. PICK r \in [Pairs -> S] : r = D[r]
  <2> HIDE DEF S, size, D
  <2>1. Recursion(Pairs, S, size, D)
    BY <1>1, <1>2, <1>3, <1>4 DEF Recursion
  <2>2. Solvable(Pairs, S, D)
    BY <2>1, RecursionBySize
  <2>3. QED
    BY <2>2 DEF Solvable
<1>6. r = Body(r)
  BY <1>5
<1>7. Reader = Body(Reader)
  BY <1>6
<1>8. \A p \in Pairs : Reader[p] = ReadStep(schemas, Reader, p)
  <2> HIDE DEF Reader
  <2>1. QED
    BY <1>7, Zenon
<1>9. \A p \in Pairs : r[p] = ReadStep(schemas, r, p)
  BY <1>6, Zenon
<1>10. \A p \in Pairs : Reader[p] = r[p]
  <2> DEFINE T == {n \in Nat : \A p \in Pairs : Len(p[1]) < n => Reader[p] = r[p]}
  <2> HIDE DEF Reader
  <2>1. 0 \in T
    BY PairsFacts
  <2>2. ASSUME NEW n \in Nat, n \in T PROVE n + 1 \in T
    <3> SUFFICES ASSUME NEW p \in Pairs, Len(p[1]) < n + 1 PROVE Reader[p] = r[p]
      OBVIOUS
    <3>1. \A q \in Pairs : Len(q[1]) < Len(p[1]) => Reader[q] = r[q]
      <4>1. \A q \in Pairs : Len(q[1]) < Len(p[1]) => Len(q[1]) < n
        BY PairsFacts
      <4>2. QED
        BY <4>1, <2>2
    <3>2. ReadStep(schemas, Reader, p) = ReadStep(schemas, r, p)
      BY <3>1, ReadStepSmaller
    <3>3. QED
      BY <1>8, <1>9, <3>2
  <2>3. Nat \subseteq T
    <3> HIDE DEF T
    <3>1. QED
      BY <2>1, <2>2, InductionOnNat
  <2>4. ASSUME NEW p \in Pairs PROVE Reader[p] = r[p]
    <3>1. Len(p[1]) + 1 \in T /\ Len(p[1]) < Len(p[1]) + 1
      BY <2>3, PairsFacts
    <3>2. QED
      BY <3>1
  <2>5. QED
    BY <2>4
<1>11. \A b, k : Read(schemas, b, k) = Reader[<<b, k>>]
  BY Zenon DEF Read, ReadStep, AfterString, AfterRecord, Pairs
<1>12. \A b \in Seq(Int), k \in Seq(Seq(Int)) : Read(schemas, b, k) = r[<<b, k>>]
  <2> HIDE DEF Reader
  <2>1. \A b \in Seq(Int), k \in Seq(Seq(Int)) : <<b, k>> \in Pairs
    BY DEF Pairs
  <2>2. QED
    BY <1>10, <1>11, <2>1
<1>13. QED
  BY <1>9, <1>12

LEMMA ReadFacts ==
  ASSUME NEW schemas, TypesAre(schemas), NEW b \in Seq(Int), NEW k \in Seq(Seq(Int))
  PROVE  /\ Read(schemas, b, k) \in Seq(Items(schemas))
         /\ b = <<>> => Read(schemas, b, k) = <<>>
         /\ b # <<>> /\ StartsWithString(b, k) =>
              Read(schemas, b, k) =
                Read(schemas, Rest(b, StringEnd(b)), Append(k, SubSeq(b, 13, StringEnd(b))))
         /\ b # <<>> /\ ~StartsWithString(b, k) /\ StartsWithRecord(schemas, b, k) =>
              Read(schemas, b, k) =
                <<RecordAt(schemas, b, k)>>
                  \o Read(schemas, Rest(b, RecordEnd(schemas[TypeAt(b, k) + 1])), k)
<1> DEFINE p == <<b, k>>
<1>1. p \in Pairs /\ p[1] = b /\ p[2] = k
  BY DEF Pairs
<1>2. PICK r \in [Pairs -> Seq(Items(schemas))] :
        /\ \A q \in Pairs : r[q] = ReadStep(schemas, r, q)
        /\ \A c \in Seq(Int), l \in Seq(Seq(Int)) : Read(schemas, c, l) = r[<<c, l>>]
  BY ReadSolved
<1>3. Read(schemas, b, k) = r[p] /\ r[p] = ReadStep(schemas, r, p) /\ r[p] \in Seq(Items(schemas))
  BY <1>1, <1>2
<1>4. b = <<>> => r[p] = <<>>
  BY <1>1, <1>3 DEF ReadStep
<1>5. ASSUME NEW q \in Pairs, NEW c, NEW l, q = <<c, l>> PROVE r[q] = Read(schemas, c, l)
  <2>1. c \in Seq(Int) /\ l \in Seq(Seq(Int))
    BY <1>5 DEF Pairs
  <2>2. QED
    BY <1>2, <1>5, <2>1
<1>6. ASSUME b # <<>>, StartsWithString(b, k)
      PROVE  r[p] = Read(schemas, Rest(b, StringEnd(b)), Append(k, SubSeq(b, 13, StringEnd(b))))
  <2>1. AfterString(p) \in Pairs
    BY <1>1, <1>6, AfterStringTyped
  <2>2. r[p] = r[AfterString(p)]
    BY <1>1, <1>3, <1>6 DEF ReadStep
  <2>3. AfterString(p) = <<Rest(b, StringEnd(b)), Append(k, SubSeq(b, 13, StringEnd(b)))>>
    BY <1>1 DEF AfterString
  <2> HIDE DEF p
  <2>4. QED
    BY <1>5, <2>1, <2>2, <2>3
<1>7. ASSUME b # <<>>, ~StartsWithString(b, k), StartsWithRecord(schemas, b, k)
      PROVE  r[p] = <<RecordAt(schemas, b, k)>>
                       \o Read(schemas, Rest(b, RecordEnd(schemas[TypeAt(b, k) + 1])), k)
  <2>1. AfterRecord(schemas, p) \in Pairs
    BY <1>1, <1>7, AfterRecordTyped
  <2>2. r[p] = <<RecordAt(schemas, b, k)>> \o r[AfterRecord(schemas, p)]
    <3> HIDE DEF p
    <3>1. QED
      BY <1>1, <1>3, <1>7, Zenon DEF ReadStep
  <2>3. AfterRecord(schemas, p) = <<Rest(b, RecordEnd(schemas[TypeAt(b, k) + 1])), k>>
    BY <1>1 DEF AfterRecord
  <2> HIDE DEF p
  <2>4. r[AfterRecord(schemas, p)] = Read(schemas, Rest(b, RecordEnd(schemas[TypeAt(b, k) + 1])), k)
    BY <1>5, <2>1, <2>3
  <2>5. QED
    BY <2>2, <2>4, Zenon
<1> HIDE DEF p
<1>8. QED
  BY <1>3, <1>4, <1>6, <1>7, Zenon

\* A number read where its bytes are.
LEMMA NumberAt ==
  ASSUME NEW b \in Seq(Int), NEW at \in Nat, NEW n \in 1 .. 8, NEW v \in Int,
         HasAt(b, at, BigEndian(v, n))
  PROVE  Number(b, at + 1, at + n) = Wrapped(v, n)
<1> DEFINE m == BigEndian(v, n)
<1>1. m \in Seq(Int) /\ Len(m) = n
  <2>1. n \in 0 .. 8
    OBVIOUS
  <2>2. QED
    BY <2>1, BytesOf
<1>2. HasAt(b, at, m)
  OBVIOUS
<1> HIDE DEF m
<1>3. SubSeq(b, at + 1, at + n) = m
  BY <1>1, <1>2, Slice
<1>4. QED
  BY <1>3, SignedOf DEF Number, m

\* An announcement at the front of the stream: the reader learns the string.
LEMMA ReadsString ==
  ASSUME NEW schemas, TypesAre(schemas), NEW k \in Seq(Seq(Int)), NEW s \in Seq(Byte), NEW rest \in Seq(Int),
         Len(k) < Half(4), Len(s) < Half(4)
  PROVE  Read(schemas, Announcement(Len(k), s) \o rest, k) = Read(schemas, rest, Append(k, s))
<1> DEFINE a == Announcement(Len(k), s)
           b == a \o rest
           x == BigEndian(-1, 4)
           y == BigEndian(Len(k), 4)
           z == BigEndian(Len(s), 4)
<1>1. Len(s) \in Nat /\ Len(k) \in Nat /\ Len(rest) \in Nat /\ s \in Seq(Int)
  BY ByteStrings
<1>2. /\ a \in Seq(Int) /\ Len(a) = 12 + Len(s)
      /\ HasAt(a, 0, x) /\ HasAt(a, 4, y) /\ HasAt(a, 8, z) /\ HasAt(a, 12, s)
  BY <1>1, AnnouncementParts, ByteStrings
<1>3. x \in Seq(Int) /\ y \in Seq(Int) /\ z \in Seq(Int)
  <2>1. -1 \in Int /\ Len(k) \in Int /\ Len(s) \in Int /\ 4 \in 0 .. 8
    BY <1>1
  <2>2. QED
    BY <2>1, BytesOf
<1> HIDE DEF a, x, y, z
<1>4. /\ b \in Seq(Int) /\ Len(b) = 12 + Len(s) + Len(rest) /\ Rest(b, 12 + Len(s)) = rest
      /\ HasAt(b, 0, x) /\ HasAt(b, 4, y) /\ HasAt(b, 8, z) /\ HasAt(b, 12, s)
  <2>1. Joint(b, a, rest, Int, 12 + Len(s), Len(rest))
    BY <1>1, <1>2, Joined
  <2>2. HasAt(b, 0, x) /\ HasAt(b, 4, y) /\ HasAt(b, 8, z) /\ HasAt(b, 12, s)
    BY <1>1, <1>2, <1>3, HasAtJoined
  <2>3. Rest(b, 12 + Len(s)) = rest
    BY <1>1, <1>2, RestOf
  <2> HIDE DEF b
  <2>4. QED
    BY <1>1, <2>1, <2>2, <2>3 DEF Joint
<1> HIDE DEF b
<1>5. Wrapped(-1, 4) = -1 /\ Wrapped(Len(k), 4) = Len(k) /\ Wrapped(Len(s), 4) = Len(s)
  <2> DEFINE h == Half(4)
  <2>1. 4 \in 1 .. 8 /\ h \in Nat /\ h > 0 /\ Len(k) < h /\ Len(s) < h
    BY Halves
  <2> HIDE DEF h
  <2>2. -1 \in -h .. h - 1 /\ Len(k) \in -h .. h - 1 /\ Len(s) \in -h .. h - 1
    BY <1>1, <2>1
  <2>3. QED
    BY <2>1, <2>2, WrappedSame DEF h
<1>6. Number(b, 1, 4) = -1 /\ Number(b, 5, 8) = Len(k) /\ Number(b, 9, 12) = Len(s)
  <2>1. /\ 4 \in 1 .. 8 /\ -1 \in Int /\ Len(k) \in Int /\ Len(s) \in Int
        /\ 0 \in Nat /\ 4 \in Nat /\ 8 \in Nat
    BY <1>1
  <2>2. Number(b, 0 + 1, 0 + 4) = Wrapped(-1, 4)
    BY <1>4, <2>1, NumberAt DEF x
  <2>3. Number(b, 4 + 1, 4 + 4) = Wrapped(Len(k), 4)
    BY <1>4, <2>1, NumberAt DEF y
  <2>4. Number(b, 8 + 1, 8 + 4) = Wrapped(Len(s), 4)
    BY <1>4, <2>1, NumberAt DEF z
  <2>5. QED
    BY <1>5, <2>2, <2>3, <2>4
<1>7. StringEnd(b) = 12 + Len(s)
  BY <1>6 DEF StringEnd
<1>8. StartsWithString(b, k) /\ b # <<>>
  <2>1. Len(b) \in Nat /\ Len(b) >= 12 /\ 12 + Len(s) \in 12 .. Len(b)
    BY <1>1, <1>4
  <2>2. b # <<>>
    BY <2>1
  <2>3. StartsWithString(b, k)
    BY <1>6, <1>7, <2>1, Zenon DEF StartsWithString, HasPrefix
  <2>4. QED
    BY <2>2, <2>3
<1>9. SubSeq(b, 13, 12 + Len(s)) = s
  <2>1. SubSeq(b, 12 + 1, 12 + Len(s)) = s
    BY <1>1, <1>4, Slice
  <2>2. 12 + 1 = 13
    OBVIOUS
  <2>3. QED
    BY <2>1, <2>2, Zenon
<1>10. Read(schemas, b, k) = Read(schemas, Rest(b, StringEnd(b)), Append(k, SubSeq(b, 13, StringEnd(b))))
  BY <1>4, <1>8, ReadFacts
<1>11. Read(schemas, b, k) = Read(schemas, rest, Append(k, s))
  BY <1>4, <1>7, <1>9, <1>10, Zenon
<1>12. QED
  BY <1>11 DEF a, b

\* new goes on like old.
Extends(new, old) ==
  /\ new \in Seq(Texts) /\ old \in Seq(Texts) /\ Len(old) <= Len(new)
  /\ \A n \in 1 .. Len(old) : new[n] = old[n]

LEMMA ReadBack ==
  /\ \A v : Carried(Boolean, v) = v /\ Carried(Text, v) = v /\ Carried(Double, v) = "a double"
            /\ Carried(Int32, v) = Wrapped(v, 4) /\ Carried(Int64, v) = Wrapped(v, 8)
  /\ \A s, known : /\ ValueOf(Boolean, s, known) = s[1] /\ ValueOf(Double, s, known) = "a double"
                   /\ ValueOf(Int32, s, known) = Signed(s) /\ ValueOf(Int64, s, known) = Signed(s)
                   /\ ValueOf(Text, s, known) = TextOf(Signed(s), known)
<1>1. ASSUME NEW v
      PROVE  /\ Carried(Boolean, v) = v /\ Carried(Text, v) = v /\ Carried(Double, v) = "a double"
             /\ Carried(Int32, v) = Wrapped(v, 4) /\ Carried(Int64, v) = Wrapped(v, 8)
  BY DEF Carried, Boolean, Int32, Int64, Double, Text
<1>2. ASSUME NEW s, NEW known
      PROVE  /\ ValueOf(Boolean, s, known) = s[1] /\ ValueOf(Double, s, known) = "a double"
             /\ ValueOf(Int32, s, known) = Signed(s) /\ ValueOf(Int64, s, known) = Signed(s)
             /\ ValueOf(Text, s, known) = TextOf(Signed(s), known)
  BY DEF ValueOf, Boolean, Int32, Int64, Double, Text
<1>3. QED
  BY <1>1, <1>2

\* A field is read as what it carries, by a reader who knows the strings.
LEMMA ValueCarried ==
  ASSUME NEW kind \in Kinds, NEW v \in Values(kind), NEW tab \in Seq(Texts), NEW known \in Seq(Texts),
         Extends(known, tab), Len(tab) <= Half(4), kind = Text => v \in ToSet(tab)
  PROVE  ValueOf(kind, Serialize(kind, v, tab).bytes, known) = Carried(kind, v)
<1>1. \A w \in Int, n \in 1 .. 8 : Signed(Copied(BigEndian(w, n), n).bytes) = Wrapped(w, n)
  BY SignedOf DEF Copied
<1>2. CASE kind = Boolean
  <2>1. Copied(<<v>>, 1).bytes[1] = v
    BY DEF Copied
  <2>2. Serialize(Boolean, v, tab) = Copied(<<v>>, 1)
    BY SerializesAs, Zenon
  <2>3. ValueOf(Boolean, Serialize(Boolean, v, tab).bytes, known) = Carried(Boolean, v)
    <3>1. ValueOf(Boolean, Copied(<<v>>, 1).bytes, known) = v /\ Carried(Boolean, v) = v
      BY <2>1, ReadBack
    <3>2. QED
      BY <2>2, <3>1
  <2>4. QED
    BY <1>2, <2>3
<1>3. CASE kind = Int32
  <2>1. v \in Int
    BY <1>3, LongFacts, ValuesOf
  <2>2. 4 \in 1 .. 8
    OBVIOUS
  <2>3. Serialize(Int32, v, tab) = Copied(BigEndian(v, 4), 4)
    BY SerializesAs, Zenon
  <2>4. Signed(Serialize(Int32, v, tab).bytes) = Wrapped(v, 4)
    BY <1>1, <2>1, <2>2, <2>3, Zenon
  <2>5. ValueOf(Int32, Serialize(Int32, v, tab).bytes, known) = Carried(Int32, v)
    BY <2>4, ReadBack, Zenon
  <2>6. QED
    BY <1>3, <2>5
<1>4. CASE kind = Int64
  <2>1. v \in Int
    BY <1>4, LongFacts, ValuesOf
  <2>2. 8 \in 1 .. 8
    OBVIOUS
  <2>3. Serialize(Int64, v, tab) = Copied(BigEndian(v, 8), 8)
    BY SerializesAs, Zenon
  <2>4. Signed(Serialize(Int64, v, tab).bytes) = Wrapped(v, 8)
    BY <1>1, <2>1, <2>2, <2>3, Zenon
  <2>5. ValueOf(Int64, Serialize(Int64, v, tab).bytes, known) = Carried(Int64, v)
    BY <2>4, ReadBack, Zenon
  <2>6. QED
    BY <1>4, <2>5
<1>5. CASE kind = Double
  BY <1>5, ReadBack, Zenon
<1>6. CASE kind = Text
  <2> DEFINE k == KeyIn(tab, v)
             h == Half(4)
  <2>1. /\ k \in 0 .. Len(tab) - 1 /\ tab[k + 1] = v /\ Len(tab) \in Nat /\ Len(known) \in Nat
        /\ Len(tab) <= Len(known) /\ DOMAIN known = 1 .. Len(known)
        /\ \A n \in 1 .. Len(tab) : known[n] = tab[n]
    BY <1>6, KeyFacts DEF Extends
  <2>2. h \in Nat /\ 4 \in 1 .. 8 /\ Len(tab) <= h
    BY Halves
  <2> HIDE DEF k, h
  <2>3. k \in Int /\ k \in -h .. h - 1 /\ k + 1 \in 1 .. Len(tab) /\ k + 1 \in 1 .. Len(known)
    BY <2>1, <2>2
  <2>4. Wrapped(k, 4) = k
    BY <2>2, <2>3, WrappedSame DEF h
  <2>5. TextOf(k, known) = v
    BY <2>1, <2>3 DEF TextOf
  <2>6. Serialize(Text, v, tab) = Copied(BigEndian(k, 4), 4)
    BY SerializesAs, Zenon DEF k
  <2>7. Signed(Serialize(Text, v, tab).bytes) = k
    BY <1>1, <2>2, <2>3, <2>4, <2>6, Zenon
  <2>8. ValueOf(Text, Serialize(Text, v, tab).bytes, known) = Carried(Text, v)
    <3>1. ValueOf(Text, Serialize(Text, v, tab).bytes, known) = TextOf(k, known)
      BY <2>7, ReadBack
    <3>2. Carried(Text, v) = v
      BY ReadBack
    <3>3. QED
      BY <2>5, <3>1, <3>2
  <2>9. QED
    BY <1>6, <2>8
<1>7. QED
  BY <1>2, <1>3, <1>4, <1>5, <1>6 DEF Kinds

\* The bytes of the first n fields of a record, at the place at.
HasFields(b, at, schema, values, n, tab) ==
  \A i \in 1 .. n :
    /\ values[i] \in Values(schema[i])
    /\ schema[i] = Text => values[i] \in ToSet(tab)
    /\ HasAt(b, at + Ends(schema)[i - 1], Serialize(schema[i], values[i], tab).bytes)

\* And of its prefix.
HasPrefixOf(b, at, type, time) ==
  HasAt(b, at, BigEndian(type, 4)) /\ HasAt(b, at + 4, BigEndian(time, 8))

\* A reader who knows the names of the types, the first strings of all.
Knows(known) == known \in Seq(Texts) /\ Len(known) >= 2 /\ known[1] = TypeNames[1] /\ known[2] = TypeNames[2]

LEMMA HalfBig == Half(4) \in Nat /\ Half(4) > 1
<1> DEFINE a == Power[2]
           b == Power[3]
           c == Base \div 2
<1>1. /\ a \in Nat /\ a > 0 /\ b \in Nat /\ b = a * Base /\ Base \in Nat /\ Base > 1 /\ c \in Nat /\ Base = 2 * c
      /\ Half(4) = b * c
  <2>1. 2 \in 0 .. 8 /\ 3 \in 1 .. 8 /\ 4 \in 1 .. 8 /\ 3 - 1 = 2 /\ 4 - 1 = 3
    OBVIOUS
  <2>2. Power[3] = Power[3 - 1] * Base /\ Half(4) = Power[4 - 1] * (Base \div 2)
    BY <2>1, PowerFacts, Halves
  <2>3. QED
    BY <2>1, <2>2, PowerFacts, BaseFacts
<1> HIDE DEF a, b, c
<1>2. b >= 2
  BY <1>1
<1>3. c >= 1
  BY <1>1
<1>4. b * c >= 2 /\ b * c \in Nat
  BY <1>1, <1>2, <1>3
<1>5. QED
  BY <1>1, <1>4

\* The reader finds the type of a record.
LEMMA TypeFound ==
  ASSUME NEW type \in {0, 1}, NEW known, Knows(known)
  PROVE  Wrapped(type, 4) = type /\ TypeOf(type, known) = type
<1>1. Wrapped(type, 4) = type
  <2> DEFINE h == Half(4)
  <2>1. h \in Nat /\ h > 1 /\ 4 \in 1 .. 8
    BY HalfBig
  <2> HIDE DEF h
  <2>2. type \in -h .. h - 1
    BY <2>1
  <2>3. QED
    BY <2>1, <2>2, WrappedSame DEF h
<1>2. TextOf(type, known) = TypeNames[type + 1]
  BY DEF TextOf, Knows
<1>3. \A t \in {0, 1} : TypeNames[t + 1] = TextOf(type, known) <=> t = type
  BY <1>2, TextFacts
<1>4. QED
  BY <1>1, <1>3 DEF TypeOf

\* What a reader should get of a record.
EntryOf(schema, type, time, values) ==
  [type |-> type, time |-> time, values |-> [i \in DOMAIN schema |-> Carried(schema[i], values[i])]]

\* r is a whole record, its strings with the keys of tab.
Complete(schemas, type, time, values, r, tab) ==
  /\ type \in {0, 1} /\ time \in Long /\ r \in Seq(Int) /\ Len(r) = RecordEnd(schemas[type + 1])
  /\ HasPrefixOf(r, 0, type, time)
  /\ HasFields(r, 0, schemas[type + 1], values, Len(schemas[type + 1]), tab)

\* A record at the front of the stream: the reader gets what was written.
LEMMA ReadsRecord ==
  ASSUME NEW schemas, TypesAre(schemas), NEW type, NEW time, NEW values, NEW r, NEW tab,
         Complete(schemas, type, time, values, r, tab), Len(tab) <= Half(4),
         NEW known, Knows(known), Extends(known, tab), NEW rest \in Seq(Int)
  PROVE  /\ RecordAt(schemas, r \o rest, known) = EntryOf(schemas[type + 1], type, time, values)
         /\ RecordAt(schemas, r \o rest, known) \in Items(schemas)
         /\ Read(schemas, r \o rest, known) =
              <<RecordAt(schemas, r \o rest, known)>> \o Read(schemas, rest, known)
<1> DEFINE schema == schemas[type + 1]
<1>0. /\ type \in {0, 1} /\ time \in Long /\ r \in Seq(Int) /\ schema = schemas[type + 1]
      /\ Len(r) = RecordEnd(schema) /\ HasPrefixOf(r, 0, type, time)
      /\ HasFields(r, 0, schema, values, Len(schema), tab)
  BY Zenon DEF Complete
<1> HIDE DEF schema
<1> USE <1>0
<1> DEFINE b == r \o rest
           end == RecordEnd(schema)
<1>1. /\ schema \in Seq(Kinds) /\ end \in Nat /\ 12 <= end /\ Len(rest) \in Nat /\ Len(schema) \in Nat
      /\ known \in Seq(Seq(Int)) /\ DOMAIN schema = 1 .. Len(schema)
  <2>1. schema \in Seq(Kinds)
    BY DEF TypesAre
  <2>2. known \in Seq(Seq(Int))
    <3>1. Texts \subseteq Seq(Int)
      BY TextFacts, ByteStrings
    <3>2. QED
      BY <3>1, SeqMonotonic DEF Knows
  <2>3. QED
    BY <2>1, <2>2, EndsFacts
<1>2. b \in Seq(Int) /\ Len(b) = end + Len(rest)
  <2>1. Joint(b, r, rest, Int, Len(r), Len(rest))
    BY Joined
  <2>2. QED
    BY <2>1 DEF Joint
<1>3. Rest(b, end) = rest
  BY RestOf
<1>4. \A at \in Nat, m \in Seq(Int) : HasAt(r, at, m) => HasAt(b, at, m)
  BY HasAtJoined
<1> HIDE DEF b
<1>5. Number(b, 1, 4) = type /\ Number(b, 5, 12) = time
  <2>1. 0 \in Nat /\ 4 \in Nat /\ 4 \in 1 .. 8 /\ 8 \in 1 .. 8 /\ type \in Int /\ time \in Int /\ 4 \in 0 .. 8 /\ 8 \in 0 .. 8
    BY LongFacts
  <2>2. BigEndian(type, 4) \in Seq(Int) /\ BigEndian(time, 8) \in Seq(Int)
    BY <2>1, BytesOf
  <2>3. HasAt(r, 0, BigEndian(type, 4)) /\ HasAt(r, 4, BigEndian(time, 8))
    BY DEF HasPrefixOf
  <2>4. HasAt(b, 0, BigEndian(type, 4)) /\ HasAt(b, 4, BigEndian(time, 8))
    BY <1>4, <2>1, <2>2, <2>3
  <2>5. Number(b, 0 + 1, 0 + 4) = Wrapped(type, 4)
    BY <1>2, <2>1, <2>4, NumberAt
  <2>6. Number(b, 4 + 1, 4 + 8) = Wrapped(time, 8)
    BY <1>2, <2>1, <2>4, NumberAt
  <2>7. Wrapped(time, 8) = time
    BY <2>1, WrappedSame DEF Long
  <2>8. Wrapped(type, 4) = type
    BY TypeFound
  <2>9. QED
    BY <2>5, <2>6, <2>7, <2>8
<1>6. TypeAt(b, known) = type /\ type # -1
  BY <1>5, TypeFound DEF TypeAt
<1>7. schemas[TypeAt(b, known) + 1] = schema
  BY <1>6
<1>8. b # <<>> /\ ~StartsWithString(b, known) /\ StartsWithRecord(schemas, b, known)
  <2>1. Len(b) \in Nat /\ Len(b) >= 12 /\ end <= Len(b)
    <3> HIDE DEF end
    <3>1. QED
      BY <1>1, <1>2
  <2>2. b # <<>>
    BY <2>1
  <2>3. StartsWithRecord(schemas, b, known)
    BY <1>5, <1>6, <1>7, <2>1, Zenon DEF StartsWithRecord, HasPrefix
  <2>4. ~StartsWithString(b, known)
    BY <1>5, <1>6, Zenon DEF StartsWithString
  <2>5. QED
    BY <2>2, <2>3, <2>4
<1>9. ASSUME NEW i \in DOMAIN schema PROVE FieldAt(b, schema, i, known) = Carried(schema[i], values[i])
  <2> DEFINE kind == schema[i]
             m == Serialize(kind, values[i], tab).bytes
             from == Ends(schema)[i - 1]
  <2>1. kind \in Kinds /\ i \in 1 .. Len(schema) /\ i - 1 \in 0 .. Len(schema)
    <3>1. schema \in Seq(Kinds) /\ i \in 1 .. Len(schema) /\ Len(schema) \in Nat
      BY <1>1, Zenon
    <3>2. i - 1 \in 0 .. Len(schema)
      BY <3>1
    <3>3. kind \in Kinds
      BY <3>1, ElementOfSeq
    <3>4. QED
      BY <3>1, <3>2, <3>3
  <2>2. values[i] \in Values(kind) /\ (kind = Text => values[i] \in ToSet(tab))
    BY <2>1 DEF HasFields
  <2>3. tab \in Seq(Texts)
    BY DEF Extends
  <2>4. m \in Seq(Byte) /\ Len(m) = Width(kind)
    BY <2>1, <2>2, <2>3, SerializeTyped
  <2>5. from \in Nat /\ Ends(schema)[i] = from + Width(kind)
    BY <1>1, <2>1, EndsFacts
  <2>6. HasAt(r, 0 + from, m) /\ 0 + from = from
    BY <2>1, <2>5 DEF HasFields
  <2> HIDE DEF from, m
  <2>7. HasAt(b, from, m)
    BY <1>4, <2>4, <2>5, <2>6, ByteStrings
  <2>8. SubSeq(b, from + 1, from + Len(m)) = m
    BY <1>2, <2>4, <2>5, <2>7, Slice, ByteStrings
  <2>9. FieldAt(b, schema, i, known) = ValueOf(kind, m, known)
    BY <2>4, <2>5, <2>8 DEF FieldAt, from
  <2>10. ValueOf(kind, m, known) = Carried(kind, values[i])
    BY <2>1, <2>2, <2>3, ValueCarried DEF m, Knows
  <2>11. QED
    BY <2>9, <2>10
<1>10. RecordAt(schemas, b, known) =
         [type |-> type, time |-> time, values |-> [i \in DOMAIN schema |-> Carried(schema[i], values[i])]]
  <2>1. RecordAt(schemas, b, known) =
          [type |-> type, time |-> time, values |-> [i \in DOMAIN schema |-> FieldAt(b, schema, i, known)]]
    BY <1>5, <1>6, <1>7, Zenon DEF RecordAt
  <2>2. [i \in DOMAIN schema |-> FieldAt(b, schema, i, known)] =
          [i \in DOMAIN schema |-> Carried(schema[i], values[i])]
    BY <1>9
  <2>3. QED
    BY <2>1, <2>2, Zenon
<1>11. Read(schemas, b, known) = <<RecordAt(schemas, b, known)>> \o Read(schemas, rest, known)
  <2>1. Read(schemas, b, known) =
          <<RecordAt(schemas, b, known)>>
            \o Read(schemas, Rest(b, RecordEnd(schemas[TypeAt(b, known) + 1])), known)
    BY <1>1, <1>2, <1>8, ReadFacts
  <2>2. QED
    BY <1>3, <1>7, <2>1, Zenon
<1>12. RecordAt(schemas, b, known) \in Items(schemas)
  <2> DEFINE p == <<b, known>>
  <2>1. p \in Pairs /\ p[1] = b /\ p[2] = known
    BY <1>1, <1>2 DEF Pairs
  <2> HIDE DEF p
  <2>2. QED
    BY <2>1 DEF Items
<1>13. RecordAt(schemas, b, known) = EntryOf(schemas[type + 1], type, time, values)
  BY <1>10, Zenon DEF EntryOf
<1>14. QED
  BY <1>11, <1>12, <1>13, Zenon DEF b

-----------------------------------------------------------------------------
(* The string table and its announcements.                                  *)

\* A table holds no string twice, and the names of the types first.
TableOK(tab) ==
  /\ tab \in Seq(Texts) /\ \A i, j \in 1 .. Len(tab) : tab[i] = tab[j] => i = j
  /\ tab = <<>> \/ Knows(tab)

LEMMA TableSmall ==
  ASSUME NEW tab \in Seq(Texts), \A i, j \in 1 .. Len(tab) : tab[i] = tab[j] => i = j
  PROVE  Len(tab) <= Half(4)
<1>1. Len(tab) \in Nat /\ tab \in [1 .. Len(tab) -> Texts]
  BY LenProperties
<1>2. tab \in Injection(1 .. Len(tab), Texts)
  BY <1>1, Zenon DEF Injection, IsInjective
<1>3. Cardinality(1 .. Len(tab)) <= Cardinality(Texts)
  BY <1>2, TextFacts, FS_Injection
<1>4. Cardinality(1 .. Len(tab)) = Len(tab)
  BY <1>1, FS_Interval
<1>5. Cardinality(Texts) <= Half(4) /\ Cardinality(Texts) \in Nat /\ Half(4) \in Nat
  BY TextsAssumption, TextFacts, FS_CardinalityType, HalfBig
<1>6. QED
  BY <1>1, <1>3, <1>4, <1>5

LEMMA InternExtends ==
  ASSUME NEW tab \in Seq(Texts), NEW s \in Texts,
         \A i, j \in 1 .. Len(tab) : tab[i] = tab[j] => i = j
  PROVE  /\ Intern(tab, s) \in Seq(Texts) /\ Extends(Intern(tab, s), tab) /\ s \in ToSet(Intern(tab, s))
         /\ \A i, j \in 1 .. Len(Intern(tab, s)) : Intern(tab, s)[i] = Intern(tab, s)[j] => i = j
<1>1. CASE s \in ToSet(tab)
  BY <1>1 DEF Intern, Extends
<1>2. CASE s \notin ToSet(tab)
  <2> DEFINE new == Append(tab, s)
  <2>1. Intern(tab, s) = new
    BY <1>2 DEF Intern
  <2>2. /\ new \in Seq(Texts) /\ Len(new) = Len(tab) + 1 /\ Len(tab) \in Nat /\ new[Len(tab) + 1] = s
        /\ \A n \in 1 .. Len(tab) : new[n] = tab[n]
    OBVIOUS
  <2>3. \A n \in 1 .. Len(tab) : tab[n] # s
    BY <1>2 DEF ToSet
  <2> HIDE DEF new
  <2>4. \A i \in 1 .. Len(tab) + 1 : i \in 1 .. Len(tab) \/ i = Len(tab) + 1
    BY <2>2
  <2>5. \A i, j \in 1 .. Len(new) : new[i] = new[j] => i = j
    BY <2>2, <2>3, <2>4
  <2>6. DOMAIN new = 1 .. Len(tab) + 1 /\ Len(tab) + 1 \in 1 .. Len(tab) + 1
    BY <2>2
  <2>7. s \in ToSet(new)
    BY <2>2, <2>6, Zenon DEF ToSet
  <2>8. Extends(new, tab)
    BY <2>2 DEF Extends
  <2>9. QED
    BY <2>1, <2>2, <2>5, <2>7, <2>8
<1>3. QED
  BY <1>1, <1>2

LEMMA ExtendsAgain ==
  ASSUME NEW a, NEW b, NEW c, Extends(c, b), Extends(b, a)
  PROVE  Extends(c, a)
<1>1. Len(a) \in Nat /\ Len(b) \in Nat /\ Len(c) \in Nat
  BY DEF Extends
<1>2. QED
  BY <1>1 DEF Extends

\* A string keeps its key in a table that goes on.
LEMMA KeyStays ==
  ASSUME NEW new, NEW old, Extends(new, old), NEW s \in ToSet(old),
         \A i, j \in 1 .. Len(new) : new[i] = new[j] => i = j
  PROVE  s \in ToSet(new) /\ KeyIn(new, s) = KeyIn(old, s)
<1> DEFINE k == KeyIn(old, s)
           l == KeyIn(new, s)
<1>1. /\ new \in Seq(Texts) /\ old \in Seq(Texts) /\ Len(old) <= Len(new) /\ Len(old) \in Nat /\ Len(new) \in Nat
      /\ \A n \in 1 .. Len(old) : new[n] = old[n]
  BY DEF Extends
<1>2. k \in 0 .. Len(old) - 1 /\ old[k + 1] = s
  BY <1>1, KeyFacts
<1> HIDE DEF k
<1>3. k + 1 \in 1 .. Len(old) /\ k + 1 \in 1 .. Len(new) /\ new[k + 1] = s /\ DOMAIN new = 1 .. Len(new)
  BY <1>1, <1>2
<1>4. s \in ToSet(new)
  BY <1>3, Zenon DEF ToSet
<1>5. l \in 0 .. Len(new) - 1 /\ new[l + 1] = s
  BY <1>1, <1>4, KeyFacts
<1> HIDE DEF l
<1>6. l + 1 \in 1 .. Len(new)
  BY <1>1, <1>5
<1>7. l + 1 = k + 1
  BY <1>3, <1>5, <1>6
<1>8. l = k
  BY <1>2, <1>5, <1>7
<1>9. QED
  BY <1>4, <1>8 DEF k, l

\* The definition of Announcements has a solution.
LEMMA AnnouncementsSolved ==
  ASSUME table \in Seq(Texts), NEW tab \in Seq(Texts), Extends(tab, table)
  PROVE  \E said \in [0 .. Len(tab) - Len(table) -> Seq(Byte)] :
           /\ said[0] = <<>> /\ Announcements(tab) = said[Len(tab) - Len(table)]
           /\ \A n \in 1 .. Len(tab) - Len(table) :
                said[n] = said[n - 1] \o Announcement(Len(table) + n - 1, tab[Len(table) + n])
<1> DEFINE l == Len(table)
           m == Len(tab) - l
           said(n) == Announcement(l + n - 1, tab[l + n])
           D == [n \in Nat |-> [x \in Seq(Byte) |-> IF n \in 1 .. m THEN x \o said(n) ELSE <<>>]]
           Body(f) == [n \in 0 .. m |-> IF n = 0 THEN <<>> ELSE f[n - 1] \o said(n)]
           Said == CHOOSE f : f = Body(f)
<1>1. m \in Nat /\ l \in Nat /\ \A n \in 1 .. m : said(n) \in Seq(Byte)
  <2>1. m \in Nat /\ l \in Nat /\ \A n \in 1 .. m : l + n \in 1 .. Len(tab) /\ l + n - 1 \in Nat
    BY DEF Extends
  <2>2. \A n \in 1 .. m : tab[l + n] \in Seq(Byte)
    BY <2>1, TextFacts
  <2>3. QED
    BY <2>1, <2>2, AnnouncementParts
<1> HIDE DEF m, said
<1>2. D \in [Nat -> [Seq(Byte) -> Seq(Byte)]]
  <2>1. \A n \in Nat, x \in Seq(Byte) : (IF n \in 1 .. m THEN x \o said(n) ELSE <<>>) \in Seq(Byte)
    BY <1>1
  <2>2. QED
    BY <2>1
<1>3. PICK g : Solves(g, Seq(Byte), <<>>, D, m)
  <2> HIDE DEF D
  <2>1. <<>> \in Seq(Byte)
    OBVIOUS
  <2>2. QED
    BY <1>1, <1>2, <2>1, RecursionUpTo, Zenon
<1>4. g \in [0 .. m -> Seq(Byte)] /\ g[0] = <<>> /\ \A n \in 1 .. m : g[n] = g[n - 1] \o said(n)
  <2>1. g \in [0 .. m -> Seq(Byte)] /\ g[0] = <<>> /\ \A n \in 1 .. m : g[n] = D[n][g[n - 1]]
    <3> HIDE DEF D
    <3>1. QED
      BY <1>3 DEF Solves
  <2>2. ASSUME NEW n \in 1 .. m PROVE g[n] = g[n - 1] \o said(n)
    <3>1. g[n - 1] \in Seq(Byte) /\ n \in Nat
      BY <2>1, <1>1
    <3>2. QED
      BY <2>1, <3>1, Zenon
  <2>3. QED
    BY <2>1, <2>2
<1>5. g = Body(g)
  <2>1. ASSUME NEW n \in 0 .. m, n # 0 PROVE g[n] = g[n - 1] \o said(n)
    <3>1. n \in 1 .. m
      BY <1>1, <2>1
    <3>2. QED
      BY <1>4, <3>1, Zenon
  <2>2. \A n \in 0 .. m : g[n] = IF n = 0 THEN <<>> ELSE g[n - 1] \o said(n)
    BY <1>4, <2>1, Zenon
  <2>3. g = [n \in 0 .. m |-> g[n]]
    BY <1>4, Zenon
  <2>4. QED
    BY <2>2, <2>3, Zenon
<1>6. Said = Body(Said)
  BY <1>5
<1>7. Said = g
  <2> HIDE DEF Said
  <2>1. Said[0] = <<>> /\ \A n \in 1 .. m : Said[n] = Said[n - 1] \o said(n)
    <3>1. \A n \in 0 .. m : Said[n] = IF n = 0 THEN <<>> ELSE Said[n - 1] \o said(n)
      BY <1>6, Zenon
    <3>2. 0 \in 0 .. m /\ \A n \in 1 .. m : n \in 0 .. m /\ n # 0
      BY <1>1
    <3>3. QED
      BY <3>1, <3>2, Zenon
  <2>2. GrowAlike(Said, g, m)
    BY <1>4, <2>1, Zenon DEF GrowAlike
  <2>3. \A n \in 0 .. m : Said[n] = g[n]
    BY <1>1, <2>2, SameUpTo
  <2>4. Said = [n \in 0 .. m |-> Said[n]]
    BY <1>6
  <2>5. QED
    BY <2>3, <2>4, <1>4
<1>8. Announcements(tab) = Said[m]
  BY Zenon DEF Announcements, m, said
<1>9. g \in [0 .. m -> Seq(Byte)] /\ g[0] = <<>> /\ Announcements(tab) = g[m]
      /\ \A n \in 1 .. m : g[n] = g[n - 1] \o said(n)
  BY <1>4, <1>7, <1>8
<1>10. QED
  BY <1>9, Zenon DEF m, said

LEMMA RegroupedThree ==
  ASSUME NEW S, NEW a \in Seq(S), NEW b \in Seq(S), NEW c \in Seq(S)
  PROVE  (a \o b) \o c = a \o (b \o c)
BY ConcatAssociative

LEMMA RegroupedIn == \A S : \A a, b, c \in Seq(S) : (a \o b) \o c = a \o (b \o c) /\ b \o c \in Seq(S)
<1> SUFFICES ASSUME NEW S, NEW a \in Seq(S), NEW b \in Seq(S), NEW c \in Seq(S)
             PROVE  (a \o b) \o c = a \o (b \o c) /\ b \o c \in Seq(S)
  OBVIOUS
<1>1. (a \o b) \o c = a \o (b \o c)
  BY RegroupedThree
<1>2. b \o c \in Seq(S)
  BY ConcatProperties, Zenon
<1>3. QED
  BY <1>1, <1>2, Zenon

LEMMA Regrouped == \A a, b, c \in Seq(Int) : (a \o b) \o c = a \o (b \o c) /\ b \o c \in Seq(Int)
BY RegroupedIn, Zenon

\* The first n strings of a table.
FirstOf(tab, n) == SubSeq(tab, 1, n)

LEMMA FirstFacts ==
  ASSUME NEW S, NEW tab \in Seq(S)
  PROVE  /\ \A n \in 0 .. Len(tab) : FirstOf(tab, n) \in Seq(S) /\ Len(FirstOf(tab, n)) = n
         /\ \A n \in 0 .. Len(tab), k \in 1 .. Len(tab) : k <= n => FirstOf(tab, n)[k] = tab[k]
         /\ \A n \in 1 .. Len(tab) : FirstOf(tab, n) = Append(FirstOf(tab, n - 1), tab[n])
         /\ FirstOf(tab, Len(tab)) = tab
<1>1. Len(tab) \in Nat
  OBVIOUS
<1>2. ASSUME NEW n \in 0 .. Len(tab) PROVE FirstOf(tab, n) \in Seq(S) /\ Len(FirstOf(tab, n)) = n
  BY DEF FirstOf
<1>3. ASSUME NEW n \in 0 .. Len(tab), NEW k \in 1 .. Len(tab), k <= n PROVE FirstOf(tab, n)[k] = tab[k]
  BY <1>3 DEF FirstOf
<1>4. ASSUME NEW n \in 1 .. Len(tab) PROVE FirstOf(tab, n) = Append(FirstOf(tab, n - 1), tab[n])
  <2> DEFINE a == FirstOf(tab, n)
             b == FirstOf(tab, n - 1)
  <2>1. /\ a \in Seq(S) /\ Len(a) = n /\ b \in Seq(S) /\ Len(b) = n - 1 /\ n \in Nat
        /\ \A k \in 1 .. n : a[k] = tab[k]
        /\ \A k \in 1 .. n - 1 : b[k] = tab[k]
    <3>1. n \in 0 .. Len(tab) /\ n - 1 \in 0 .. Len(tab) /\ n \in Nat
      OBVIOUS
    <3>2. \A k \in 1 .. n : k \in 1 .. Len(tab) /\ k <= n
      OBVIOUS
    <3>3. \A k \in 1 .. n - 1 : k \in 1 .. Len(tab) /\ k <= n - 1
      OBVIOUS
    <3>4. QED
      BY <1>2, <1>3, <3>1, <3>2, <3>3
  <2> DEFINE c == Append(b, tab[n])
  <2>2. tab[n] \in S
    OBVIOUS
  <2> HIDE DEF a, b
  <2>3. c \in Seq(S) /\ Len(c) = n /\ c[n] = tab[n] /\ \A k \in 1 .. n - 1 : c[k] = tab[k]
    BY <2>1, <2>2
  <2> HIDE DEF c
  <2>4. \A k \in 1 .. n : a[k] = c[k]
    BY <2>1, <2>3
  <2>5. a = c
    BY <2>1, <2>3, <2>4, SeqEqual
  <2>6. QED
    BY <2>5 DEF a, b, c
<1>5. FirstOf(tab, Len(tab)) = tab
  <2> DEFINE a == FirstOf(tab, Len(tab))
  <2>1. a \in Seq(S) /\ Len(a) = Len(tab) /\ \A k \in 1 .. Len(tab) : a[k] = tab[k]
    BY <1>1, <1>2, <1>3
  <2> HIDE DEF a
  <2>2. a = tab
    BY <2>1, SeqEqual
  <2>3. QED
    BY <2>2 DEF a
<1>6. QED
  BY <1>2, <1>3, <1>4, <1>5

\* The announcements of a table, read by one who knows the former one, tell the new one.
LEMMA AnnouncementsRead ==
  ASSUME table \in Seq(Texts), NEW tab \in Seq(Texts), Extends(tab, table), Len(tab) <= Half(4),
         NEW schemas, TypesAre(schemas)
  PROVE  /\ Announcements(tab) \in Seq(Int)
         /\ \A rest \in Seq(Int) :
              Read(schemas, Announcements(tab) \o rest, table) = Read(schemas, rest, tab)
<1> DEFINE l == Len(table)
           m == Len(tab) - l
<1>1. /\ l \in Nat /\ m \in Nat /\ Len(tab) \in Nat /\ Half(4) \in Nat
      /\ \A n \in 1 .. m : /\ l + n \in 1 .. Len(tab) /\ l + n - 1 \in 0 .. Len(tab) /\ l + n - 1 \in Nat
                           /\ l + n - 1 < Half(4) /\ n - 1 \in 0 .. m /\ l + (n - 1) = l + n - 1
  BY HalfBig DEF Extends
<1>2. PICK said \in [0 .. m -> Seq(Byte)] :
        /\ said[0] = <<>> /\ Announcements(tab) = said[m]
        /\ \A n \in 1 .. m : said[n] = said[n - 1] \o Announcement(l + n - 1, tab[l + n])
  BY AnnouncementsSolved
<1>3. FirstOf(tab, l) = table
  <2>1. FirstOf(tab, l) \in Seq(Texts) /\ Len(FirstOf(tab, l)) = l /\ table \in Seq(Texts)
        /\ \A k \in 1 .. l : FirstOf(tab, l)[k] = table[k]
    <3>1. l \in 0 .. Len(tab) /\ \A k \in 1 .. l : k \in 1 .. Len(tab) /\ k <= l /\ tab[k] = table[k]
      BY DEF Extends
    <3>2. QED
      BY <3>1, FirstFacts
  <2>2. QED
    BY <2>1, SeqEqual
<1>4. l + m = Len(tab)
  BY <1>1
<1> HIDE DEF l, m
<1> DEFINE Told(n) == \A rest \in Seq(Int) :
             Read(schemas, said[n] \o rest, table) = Read(schemas, rest, FirstOf(tab, l + n))
           T == {n \in 0 .. m : Told(n)}
<1>5. 0 \in T
  <2>1. \A rest \in Seq(Int) : <<>> \o rest = rest
    OBVIOUS
  <2>2. l + 0 = l /\ 0 \in 0 .. m
    BY <1>1
  <2>3. QED
    BY <1>2, <1>3, <2>1, <2>2
<1>6. ASSUME NEW n \in 1 .. m, n - 1 \in T PROVE n \in T
  <2> SUFFICES ASSUME NEW rest \in Seq(Int)
               PROVE  Read(schemas, said[n] \o rest, table) = Read(schemas, rest, FirstOf(tab, l + n))
    BY <1>1
  <2> DEFINE s == tab[l + n]
             k == FirstOf(tab, l + n - 1)
             a == Announcement(l + n - 1, s)
             x == said[n - 1]
  <2>1. s \in Texts /\ s \in Seq(Byte) /\ Len(s) < Half(4)
    <3>1. \A i \in 1 .. Len(tab) : tab[i] \in Texts
      OBVIOUS
    <3>2. s \in Texts
      BY <1>1, <3>1, Zenon
    <3>3. QED
      BY <3>2, TextFacts, TextsAssumption
  <2>2. k \in Seq(Texts) /\ Len(k) = l + n - 1
    BY <1>1, FirstFacts
  <2>3. Append(k, s) = FirstOf(tab, l + n)
    <3>1. \A i \in 1 .. Len(tab) : FirstOf(tab, i) = Append(FirstOf(tab, i - 1), tab[i])
      BY FirstFacts
    <3> DEFINE i == l + n
    <3>2. i \in 1 .. Len(tab) /\ i - 1 = l + n - 1
      <4>1. l \in Nat /\ m \in Nat /\ l + n \in 1 .. Len(tab)
        BY <1>1
      <4>2. (l + n) - 1 = l + (n - 1)
        BY <4>1
      <4>3. QED
        BY <4>1, <4>2
    <3> HIDE DEF i
    <3>3. FirstOf(tab, i) = Append(FirstOf(tab, i - 1), tab[i])
      BY <3>1, <3>2
    <3>4. FirstOf(tab, i) = Append(FirstOf(tab, l + n - 1), tab[i])
      BY <3>2, <3>3, Zenon
    <3>5. QED
      BY <3>4, Zenon DEF i
  <2>4. k \in Seq(Seq(Int))
    <3>1. Texts \subseteq Seq(Int)
      BY TextFacts, ByteStrings
    <3>2. QED
      BY <2>2, <3>1, SeqMonotonic
  <2>5. a \in Seq(Int) /\ x \in Seq(Int) /\ said[n] = x \o a
    <3>1. l + n - 1 \in Nat /\ n - 1 \in 0 .. m
      BY <1>1
    <3>2. a \in Seq(Byte)
      BY <2>1, <3>1, AnnouncementParts
    <3>3. x \in Seq(Byte)
      BY <1>2, <3>1
    <3>4. QED
      BY <1>2, <3>2, <3>3, ByteStrings
  <2>6. \A r \in Seq(Int) : Read(schemas, x \o r, table) = Read(schemas, r, k)
    BY <1>1, <1>6
  <2>7. Read(schemas, a \o rest, k) = Read(schemas, rest, Append(k, s))
    BY <1>1, <2>1, <2>2, <2>4, ReadsString
  <2> HIDE DEF a, x, k, s
  <2>8. (x \o a) \o rest = x \o (a \o rest) /\ a \o rest \in Seq(Int)
    BY <2>5, Regrouped, Zenon
  <2>9. Read(schemas, x \o (a \o rest), table) = Read(schemas, a \o rest, k)
    BY <2>6, <2>8
  <2>10. QED
    BY <2>3, <2>5, <2>7, <2>8, <2>9
<1>7. m \in T
  <2>1. 0 .. m \subseteq T
    <3> HIDE DEF T
    <3>1. QED
      BY <1>1, <1>5, <1>6, InductionUpTo
  <2>2. m \in 0 .. m
    BY <1>1
  <2>3. QED
    BY <2>1, <2>2
<1>8. FirstOf(tab, l + m) = tab
  BY <1>4, FirstFacts
<1>9. said[m] \in Seq(Int)
  BY <1>1, <1>2, ByteStrings
<1>10. QED
  BY <1>2, <1>7, <1>8, <1>9

-----------------------------------------------------------------------------
(* What the stream and the buffer tell.                                     *)

\* The bytes in the buffer up to the position.
Held(buf, n) == [k \in 1 .. n |-> buf[k - 1]]

\* One who has read bytes has got the records told and knows the strings of tab.
StreamTells(schemas, bytes, told, tab) ==
  \A rest \in Seq(Int) : Read(schemas, bytes \o rest, <<>>) = told \o Read(schemas, rest, tab)

\* The bytes done hold the records kept, for all who know the strings of tab.
BufferTells(schemas, done, kept, tab) ==
  \A rest \in Seq(Int), known \in Seq(Texts) :
    Extends(known, tab) /\ Knows(known) =>
      Read(schemas, done \o rest, known) = kept \o Read(schemas, rest, known)

\* The bytes part are the prefix and the fields before next of a record.
InProgress(schema, type, time, values, next, part, tab) ==
  /\ type \in {0, 1} /\ time \in Long /\ next \in 1 .. Len(schema) + 1
  /\ \A i \in 1 .. Len(schema) : values[i] \in Values(schema[i])
  /\ part \in Seq(Int) /\ Len(part) = Ends(schema)[next - 1]
  /\ HasPrefixOf(part, 0, type, time)
  /\ HasFields(part, 0, schema, values, next - 1, tab)

LEMMA TextStrings == Seq(Texts) \subseteq Seq(Seq(Int))
<1>1. Texts \subseteq Seq(Int)
  BY TextFacts, ByteStrings
<1>2. QED
  BY <1>1, SeqMonotonic

LEMMA AddedAt == \A S : \A a, c \in Seq(S), e \in S : a \o (<<e>> \o c) = Append(a, e) \o c
<1> SUFFICES ASSUME NEW S, NEW a \in Seq(S), NEW c \in Seq(S), NEW e \in S
             PROVE  a \o (<<e>> \o c) = Append(a, e) \o c
  OBVIOUS
<1>1. <<e>> \in Seq(S) /\ Append(a, e) = a \o <<e>>
  BY AppendIsConcat
<1>2. \A x, y, z \in Seq(S) : (x \o y) \o z = x \o (y \o z)
  BY RegroupedIn
<1>3. (a \o <<e>>) \o c = a \o (<<e>> \o c)
  BY <1>1, <1>2, Zenon
<1>4. QED
  BY <1>1, <1>3, Zenon

LEMMA ReadTyped ==
  ASSUME NEW schemas, TypesAre(schemas), NEW rest \in Seq(Int), NEW known \in Seq(Texts)
  PROVE  Read(schemas, rest, known) \in Seq(Items(schemas))
BY ReadFacts, TextStrings

LEMMA NothingTold ==
  ASSUME NEW schemas, TypesAre(schemas)
  PROVE  /\ StreamTells(schemas, <<>>, <<>>, <<>>)
         /\ \A tab : BufferTells(schemas, <<>>, <<>>, tab)
<1>1. \A S : \A s \in Seq(S) : <<>> \o s = s
  BY ConcatEmptySeq
<1>2. \A rest \in Seq(Int), known \in Seq(Texts) : Read(schemas, rest, known) \in Seq(Items(schemas))
  BY ReadTyped
<1>3. \A rest \in Seq(Int), known \in Seq(Texts) :
        Read(schemas, <<>> \o rest, known) = <<>> \o Read(schemas, rest, known)
  BY <1>1, <1>2, Zenon
<1>4. <<>> \in Seq(Texts)
  OBVIOUS
<1>5. QED
  BY <1>3, <1>4, Zenon DEF StreamTells, BufferTells

\* Announcing what is new tells a reader the new table and no record.
LEMMA AnnounceTells ==
  ASSUME table \in Seq(Texts), NEW tab \in Seq(Texts), Extends(tab, table), Len(tab) <= Half(4),
         NEW schemas, TypesAre(schemas), NEW told, NEW bytes \in Seq(Int),
         StreamTells(schemas, bytes, told, table)
  PROVE  /\ bytes \o Announcements(tab) \in Seq(Int)
         /\ StreamTells(schemas, bytes \o Announcements(tab), told, tab)
<1> DEFINE a == Announcements(tab)
<1>1. a \in Seq(Int) /\ \A rest \in Seq(Int) : Read(schemas, a \o rest, table) = Read(schemas, rest, tab)
  BY AnnouncementsRead
<1> HIDE DEF a
<1>2. ASSUME NEW rest \in Seq(Int)
      PROVE  Read(schemas, (bytes \o a) \o rest, <<>>) = told \o Read(schemas, rest, tab)
  <2>1. (bytes \o a) \o rest = bytes \o (a \o rest) /\ a \o rest \in Seq(Int)
    BY <1>1, Regrouped, Zenon
  <2>2. Read(schemas, bytes \o (a \o rest), <<>>) = told \o Read(schemas, a \o rest, table)
    BY <2>1, Zenon DEF StreamTells
  <2>3. QED
    BY <1>1, <2>1, <2>2, Zenon
<1>3. bytes \o a \in Seq(Int)
  BY <1>1, Regrouped, Zenon
<1>4. QED
  BY <1>2, <1>3, Zenon DEF StreamTells, a

LEMMA BufferStays ==
  ASSUME NEW schemas, NEW done, NEW kept, NEW old, NEW new,
         BufferTells(schemas, done, kept, old), Extends(new, old)
  PROVE  BufferTells(schemas, done, kept, new)
<1>1. \A known : Extends(known, new) => Extends(known, old)
  BY ExtendsAgain
<1>2. QED
  BY <1>1, Zenon DEF BufferTells

\* Sending the buffer tells its records.
LEMMA BufferSent ==
  ASSUME NEW schemas, TypesAre(schemas), NEW bytes \in Seq(Int), NEW told \in Seq(Items(schemas)), NEW tab,
         StreamTells(schemas, bytes, told, tab), NEW done \in Seq(Int), NEW kept \in Seq(Items(schemas)),
         BufferTells(schemas, done, kept, tab), Knows(tab)
  PROVE  StreamTells(schemas, bytes \o done, told \o kept, tab)
<1> SUFFICES ASSUME NEW rest \in Seq(Int)
             PROVE  Read(schemas, (bytes \o done) \o rest, <<>>) = (told \o kept) \o Read(schemas, rest, tab)
  BY DEF StreamTells
<1>1. tab \in Seq(Texts) /\ Extends(tab, tab)
  BY DEF Knows, Extends
<1>2. (bytes \o done) \o rest = bytes \o (done \o rest) /\ done \o rest \in Seq(Int)
  BY Regrouped, Zenon
<1>3. Read(schemas, bytes \o (done \o rest), <<>>) = told \o Read(schemas, done \o rest, tab)
  BY <1>2, Zenon DEF StreamTells
<1>4. Read(schemas, done \o rest, tab) = kept \o Read(schemas, rest, tab)
  BY <1>1, Zenon DEF BufferTells
<1> DEFINE read == Read(schemas, rest, tab)
<1>5. read \in Seq(Items(schemas))
  BY <1>1, ReadTyped
<1> HIDE DEF read
<1>6. (told \o kept) \o read = told \o (kept \o read)
  <2> DEFINE I == Items(schemas)
  <2>1. told \in Seq(I) /\ kept \in Seq(I) /\ read \in Seq(I)
    BY <1>5
  <2> HIDE DEF I
  <2>2. QED
    BY <2>1, RegroupedThree
<1>7. QED
  BY <1>2, <1>3, <1>4, <1>6, Zenon DEF read

\* A record whose fields are all written is one more the buffer holds.
LEMMA BufferGrows ==
  ASSUME NEW schemas, TypesAre(schemas), NEW done \in Seq(Int), NEW kept \in Seq(Items(schemas)), NEW tab,
         BufferTells(schemas, done, kept, tab), Knows(tab), Len(tab) <= Half(4),
         NEW schema, NEW type, schema = schemas[type + 1], NEW time, NEW values, NEW part,
         InProgress(schema, type, time, values, Len(schema) + 1, part, tab)
  PROVE  /\ EntryOf(schema, type, time, values) \in Items(schemas)
         /\ BufferTells(schemas, done \o part, Append(kept, EntryOf(schema, type, time, values)), tab)
<1> DEFINE e == EntryOf(schema, type, time, values)
<1>1. schema \in Seq(Kinds) /\ type \in {0, 1} /\ time \in Long /\ part \in Seq(Int)
  BY DEF InProgress, TypesAre
<1>2. Len(schema) \in Nat /\ (Len(schema) + 1) - 1 = Len(schema)
  BY <1>1
<1>3. Complete(schemas, type, time, values, part, tab)
  <2>1. Len(part) = RecordEnd(schema) /\ HasPrefixOf(part, 0, type, time)
        /\ HasFields(part, 0, schema, values, Len(schema), tab)
    BY <1>2, Zenon DEF InProgress, RecordEnd
  <2>2. QED
    BY <1>1, <2>1, Zenon DEF Complete
<1>4. ASSUME NEW rest \in Seq(Int), NEW known, Extends(known, tab), Knows(known)
      PROVE  /\ e \in Items(schemas)
             /\ Read(schemas, part \o rest, known) = <<e>> \o Read(schemas, rest, known)
  <2>1. /\ RecordAt(schemas, part \o rest, known) = EntryOf(schemas[type + 1], type, time, values)
        /\ RecordAt(schemas, part \o rest, known) \in Items(schemas)
        /\ Read(schemas, part \o rest, known) =
             <<RecordAt(schemas, part \o rest, known)>> \o Read(schemas, rest, known)
    BY <1>3, <1>4, ReadsRecord
  <2>2. QED
    BY <2>1, Zenon DEF e
<1> HIDE DEF e
<1>5. e \in Items(schemas)
  <2>1. Extends(tab, tab) /\ <<>> \in Seq(Int)
    BY DEF Knows, Extends
  <2>2. QED
    BY <1>4, <2>1, Zenon
<1>6. ASSUME NEW rest \in Seq(Int), NEW known \in Seq(Texts), Extends(known, tab), Knows(known)
      PROVE  Read(schemas, (done \o part) \o rest, known) = Append(kept, e) \o Read(schemas, rest, known)
  <2>1. (done \o part) \o rest = done \o (part \o rest) /\ part \o rest \in Seq(Int)
    BY <1>1, Regrouped, Zenon
  <2>2. Read(schemas, done \o (part \o rest), known) = kept \o Read(schemas, part \o rest, known)
    BY <1>6, <2>1, Zenon DEF BufferTells
  <2>3. Read(schemas, part \o rest, known) = <<e>> \o Read(schemas, rest, known)
    BY <1>4, <1>6, Zenon
  <2> DEFINE read == Read(schemas, rest, known)
  <2>4. read \in Seq(Items(schemas))
    BY ReadTyped
  <2> HIDE DEF read
  <2>5. kept \o (<<e>> \o read) = Append(kept, e) \o read
    BY <1>5, <2>4, AddedAt, Zenon
  <2>6. QED
    BY <2>1, <2>2, <2>3, <2>5, Zenon DEF read
<1>7. QED
  BY <1>5, <1>6, Zenon DEF BufferTells, e

-----------------------------------------------------------------------------
(* The buffer.                                                              *)

Buffers == [0 .. BufferSize - 1 -> Int]

LEMMA HeldFacts ==
  ASSUME NEW buf \in Buffers, NEW n \in 0 .. BufferSize
  PROVE  Held(buf, n) \in Seq(Int) /\ Len(Held(buf, n)) = n /\ \A k \in 1 .. n : Held(buf, n)[k] = buf[k - 1]
<1>1. n \in Nat /\ BufferSize \in Nat
  BY WireBoundsAssumption
<1>2. \A k \in 1 .. n : buf[k - 1] \in Int
  BY <1>1 DEF Buffers
<1>3. Held(buf, n) \in [1 .. n -> Int]
  BY <1>2 DEF Held
<1>4. Held(buf, n) \in Seq(Int) /\ Len(Held(buf, n)) = n
  BY <1>1, <1>3
<1>5. QED
  BY <1>4 DEF Held

\* What Put writes goes behind what the buffer holds, and nowhere else.
LEMMA PutHeld ==
  ASSUME buffer \in Buffers, NEW at \in Nat, NEW bytes \in Seq(Int)
  PROVE  /\ Put(at, bytes) \in Buffers
         /\ \A k \in DOMAIN buffer : Put(at, bytes)[k] # buffer[k] => at =< k /\ k < at + Len(bytes)
         /\ at + Len(bytes) <= BufferSize =>
              Held(Put(at, bytes), at + Len(bytes)) = Held(buffer, at) \o bytes
<1> DEFINE m == Len(bytes)
           new == Put(at, bytes)
<1>1. m \in Nat /\ BufferSize \in Nat /\ DOMAIN bytes = 1 .. m /\ \A k \in 1 .. m : bytes[k] \in Int
  BY WireBoundsAssumption
<1>2. DOMAIN buffer = 0 .. BufferSize - 1 /\ \A k \in 0 .. BufferSize - 1 : buffer[k] \in Int
  BY DEF Buffers
<1>3. new = [k \in 0 .. BufferSize - 1 |->
               IF k \in at .. at + m - 1 THEN bytes[k - at + 1] ELSE buffer[k]]
  BY <1>2, Zenon DEF Put
<1> HIDE DEF m, new
<1>4. ASSUME NEW k \in at .. at + m - 1 PROVE k - at + 1 \in 1 .. m /\ at =< k /\ k < at + m
  BY <1>1
<1>5. new \in Buffers
  <2>1. \A k \in 0 .. BufferSize - 1 :
          (IF k \in at .. at + m - 1 THEN bytes[k - at + 1] ELSE buffer[k]) \in Int
    BY <1>1, <1>2, <1>4
  <2>2. QED
    BY <1>3, <2>1 DEF Buffers
<1>6. ASSUME NEW k \in DOMAIN buffer, new[k] # buffer[k] PROVE at =< k /\ k < at + m
  <2>1. k \in at .. at + m - 1
    BY <1>2, <1>3, <1>6
  <2>2. QED
    BY <1>4, <2>1
<1>7. ASSUME at + m <= BufferSize PROVE Held(new, at + m) = Held(buffer, at) \o bytes
  <2> DEFINE a == Held(buffer, at)
             b == Held(new, at + m)
             c == a \o bytes
  <2>1. at \in 0 .. BufferSize /\ at + m \in 0 .. BufferSize
    BY <1>1, <1>7
  <2>2. /\ a \in Seq(Int) /\ Len(a) = at /\ \A k \in 1 .. at : a[k] = buffer[k - 1]
        /\ b \in Seq(Int) /\ Len(b) = at + m /\ \A k \in 1 .. at + m : b[k] = new[k - 1]
    BY <1>5, <2>1, HeldFacts
  <2> HIDE DEF a, b
  <2>3. Joint(c, a, bytes, Int, at, m)
    <3>1. Joint(c, a, bytes, Int, Len(a), Len(bytes))
      BY <2>2, Joined
    <3>2. QED
      BY <2>2, <3>1 DEF m
  <2> HIDE DEF c
  <2>4. c \in Seq(Int) /\ Len(c) = at + m /\ (\A n \in 1 .. at : c[n] = a[n])
        /\ \A n \in 1 .. m : c[at + n] = bytes[n]
    BY <2>3 DEF Joint
  <2>5. ASSUME NEW k \in 1 .. at PROVE b[k] = c[k]
    <3>1. k \in 1 .. at + m /\ k - 1 \in 0 .. BufferSize - 1 /\ ~(k - 1 \in at .. at + m - 1)
      BY <1>1, <1>7
    <3>2. b[k] = new[k - 1] /\ c[k] = buffer[k - 1]
      BY <2>2, <2>4, <3>1
    <3>3. new[k - 1] = buffer[k - 1]
      BY <1>3, <3>1
    <3>4. QED
      BY <3>2, <3>3
  <2>6. ASSUME NEW n \in 1 .. m PROVE b[at + n] = c[at + n]
    <3> DEFINE i == at + n - 1
    <3>1. /\ at + n \in 1 .. at + m /\ i \in 0 .. BufferSize - 1 /\ i \in at .. at + m - 1
          /\ (at + n) - 1 = i /\ i - at + 1 = n
      BY <1>1, <1>7
    <3> HIDE DEF i
    <3>2. new[i] = bytes[i - at + 1]
      BY <1>3, <3>1
    <3>3. b[at + n] = new[(at + n) - 1]
      BY <2>2, <3>1
    <3>4. QED
      BY <2>4, <3>1, <3>2, <3>3
  <2>7. \A k \in 1 .. at + m : b[k] = c[k]
    <3>1. \A k \in 1 .. at + m : k \in 1 .. at \/ (k - at \in 1 .. m /\ at + (k - at) = k)
      BY <1>1
    <3>2. QED
      BY <2>5, <2>6, <3>1
  <2>8. b = c
    BY <2>2, <2>4, <2>7, SeqEqual
  <2>9. QED
    BY <2>8 DEF a, b, c
<1>8. QED
  BY <1>5, <1>6, <1>7 DEF m, new

-----------------------------------------------------------------------------
(* A record in progress.                                                    *)

LEMMA PrefixWritten ==
  ASSUME NEW schema \in Seq(Kinds), NEW type \in {0, 1}, NEW time \in Long, NEW values, NEW tab,
         \A i \in 1 .. Len(schema) : values[i] \in Values(schema[i])
  PROVE  InProgress(schema, type, time, values, 1, BigEndian(type, 4) \o BigEndian(time, 8), tab)
<1> DEFINE a == BigEndian(type, 4)
           b == BigEndian(time, 8)
           c == a \o b
<1>1. a \in Seq(Int) /\ Len(a) = 4 /\ b \in Seq(Int) /\ Len(b) = 8
  <2>1. type \in Int /\ time \in Int /\ 4 \in 0 .. 8 /\ 8 \in 0 .. 8
    BY LongFacts
  <2>2. QED
    BY <2>1, BytesOf
<1> HIDE DEF a, b
<1>2. c \in Seq(Int) /\ Len(c) = 12
  <2>1. Joint(c, a, b, Int, Len(a), Len(b))
    BY <1>1, Joined
  <2> HIDE DEF c
  <2>2. QED
    BY <1>1, <2>1 DEF Joint
<1>3. HasAt(c, 4, b)
  <2>1. HasAt(c, Len(a), b)
    BY <1>1, HasAtJoined
  <2>2. QED
    BY <1>1, <2>1, Zenon
<1>4. HasAt(c, 0, a)
  <2>1. 0 + Len(a) <= Len(a) /\ 0 \in Nat /\ \A n \in 1 .. Len(a) : a[0 + n] = a[n]
    BY <1>1
  <2>2. HasAt(a, 0, a)
    BY <2>1, Zenon DEF HasAt
  <2>3. QED
    BY <1>1, <2>1, <2>2, HasAtJoined
<1> HIDE DEF c
<1>5. HasPrefixOf(c, 0, type, time)
  <2>1. 0 + 4 = 4
    OBVIOUS
  <2>2. QED
    BY <1>3, <1>4, <2>1, Zenon DEF HasPrefixOf, a, b
<1>6. Len(c) = Ends(schema)[0] /\ Len(schema) \in Nat
  BY <1>2, EndsFacts
<1>7. 1 \in 1 .. Len(schema) + 1 /\ 1 - 1 = 0
  BY <1>6
<1>8. HasFields(c, 0, schema, values, 0, tab)
  <2>1. 1 .. 0 = {}
    OBVIOUS
  <2>2. QED
    BY <2>1 DEF HasFields
<1>9. InProgress(schema, type, time, values, 1, c, tab)
  BY <1>2, <1>5, <1>6, <1>7, <1>8, Zenon DEF InProgress
<1>10. QED
  BY <1>9 DEF a, b, c

\* Only strings depend on the table.
LEMMA SerializesAlike ==
  \A v, new, old : /\ Serialize(Boolean, v, new) = Serialize(Boolean, v, old)
                   /\ Serialize(Int32, v, new) = Serialize(Int32, v, old)
                   /\ Serialize(Int64, v, new) = Serialize(Int64, v, old)
                   /\ Serialize(Double, v, new) = Serialize(Double, v, old)
<1> SUFFICES ASSUME NEW v, NEW new, NEW old
             PROVE  /\ Serialize(Boolean, v, new) = Serialize(Boolean, v, old)
                    /\ Serialize(Int32, v, new) = Serialize(Int32, v, old)
                    /\ Serialize(Int64, v, new) = Serialize(Int64, v, old)
                    /\ Serialize(Double, v, new) = Serialize(Double, v, old)
  OBVIOUS
<1>1. Serialize(Boolean, v, new) = Serialize(Boolean, v, old)
  BY DEF Serialize, Boolean, Int32, Int64, Double, Text
<1>2. Serialize(Int32, v, new) = Serialize(Int32, v, old)
  BY DEF Serialize, Boolean, Int32, Int64, Double, Text
<1>3. Serialize(Int64, v, new) = Serialize(Int64, v, old)
  BY DEF Serialize, Boolean, Int32, Int64, Double, Text
<1>4. Serialize(Double, v, new) = Serialize(Double, v, old)
  BY DEF Serialize, Boolean, Int32, Int64, Double, Text
<1>5. QED
  BY <1>1, <1>2, <1>3, <1>4

LEMMA FieldWritten ==
  ASSUME NEW schema \in Seq(Kinds), NEW type, NEW time, NEW values, NEW next, NEW part, NEW old, NEW new,
         InProgress(schema, type, time, values, next, part, old), next \in 1 .. Len(schema), Extends(new, old),
         \A i, j \in 1 .. Len(new) : new[i] = new[j] => i = j,
         schema[next] = Text => values[next] \in ToSet(new)
  PROVE  InProgress(schema, type, time, values, next + 1,
                    part \o Serialize(schema[next], values[next], new).bytes, new)
<1> DEFINE m == Serialize(schema[next], values[next], new).bytes
           c == part \o m
<1>1. /\ type \in {0, 1} /\ time \in Long
      /\ \A i \in 1 .. Len(schema) : values[i] \in Values(schema[i])
      /\ part \in Seq(Int) /\ Len(part) = Ends(schema)[next - 1]
      /\ HasPrefixOf(part, 0, type, time) /\ HasFields(part, 0, schema, values, next - 1, old)
      /\ new \in Seq(Texts) /\ old \in Seq(Texts)
  BY Zenon DEF InProgress, Extends
<1>2. m \in Seq(Int) /\ Len(m) = Width(schema[next]) /\ Len(schema) \in Nat
  <2>1. schema[next] \in Kinds /\ values[next] \in Values(schema[next])
    BY <1>1
  <2>2. QED
    BY <1>1, <2>1, SerializeTyped, ByteStrings
<1> HIDE DEF m
<1>3. c \in Seq(Int) /\ Len(c) = Len(part) + Len(m)
  <2>1. Joint(c, part, m, Int, Len(part), Len(m))
    BY <1>1, <1>2, Joined
  <2> HIDE DEF c
  <2>2. QED
    BY <2>1 DEF Joint
<1>4. HasAt(c, Len(part), m) /\ \A at \in Nat, b \in Seq(Int) : HasAt(part, at, b) => HasAt(c, at, b)
  BY <1>1, <1>2, HasAtJoined
<1> HIDE DEF c
<1>5. Ends(schema)[next] = Ends(schema)[next - 1] + Width(schema[next])
  BY EndsFacts
<1>6. Len(c) = Ends(schema)[(next + 1) - 1] /\ next + 1 \in 1 .. Len(schema) + 1 /\ (next + 1) - 1 = next
  <2>1. (next + 1) - 1 = next /\ next + 1 \in 1 .. Len(schema) + 1
    BY <1>2
  <2>2. Len(c) = Ends(schema)[next]
    BY <1>1, <1>2, <1>3, <1>5
  <2>3. QED
    BY <2>1, <2>2
<1>7. HasPrefixOf(c, 0, type, time)
  <2>1. 0 \in Nat /\ 0 + 4 \in Nat /\ type \in Int /\ time \in Int /\ 4 \in 0 .. 8 /\ 8 \in 0 .. 8
    BY <1>1, LongFacts
  <2>2. BigEndian(type, 4) \in Seq(Int) /\ BigEndian(time, 8) \in Seq(Int)
    BY <2>1, BytesOf
  <2>3. QED
    BY <1>1, <1>4, <2>1, <2>2, Zenon DEF HasPrefixOf
<1>8. ASSUME NEW i \in 1 .. next
      PROVE  /\ values[i] \in Values(schema[i])
             /\ schema[i] = Text => values[i] \in ToSet(new)
             /\ HasAt(c, 0 + Ends(schema)[i - 1], Serialize(schema[i], values[i], new).bytes)
  <2>1. i \in 1 .. Len(schema) /\ i - 1 \in 0 .. Len(schema)
    BY <1>2
  <2>2. values[i] \in Values(schema[i]) /\ schema[i] \in Kinds /\ Ends(schema)[i - 1] \in Nat
    BY <1>1, <2>1, EndsFacts
  <2>3. CASE i = next
    <3>1. 0 + Ends(schema)[i - 1] = Len(part)
      BY <1>1, <2>2, <2>3
    <3>2. HasAt(c, 0 + Ends(schema)[i - 1], m)
      BY <1>4, <3>1
    <3>3. QED
      BY <2>2, <2>3, <3>2 DEF m
  <2>4. CASE i # next
    <3>1. i \in 1 .. next - 1
      BY <2>1, <2>4
    <3>2. /\ schema[i] = Text => values[i] \in ToSet(old)
          /\ HasAt(part, 0 + Ends(schema)[i - 1], Serialize(schema[i], values[i], old).bytes)
      BY <1>1, <3>1 DEF HasFields
    <3>3. schema[i] = Text => values[i] \in ToSet(new) /\ KeyIn(new, values[i]) = KeyIn(old, values[i])
      BY <3>2, KeyStays
    <3>4. Serialize(schema[i], values[i], new) = Serialize(schema[i], values[i], old)
      <4> DEFINE v == values[i]
                 kind == schema[i]
      <4>1. /\ Serialize(Boolean, v, new) = Serialize(Boolean, v, old)
            /\ Serialize(Int32, v, new) = Serialize(Int32, v, old)
            /\ Serialize(Int64, v, new) = Serialize(Int64, v, old)
            /\ Serialize(Double, v, new) = Serialize(Double, v, old)
        BY SerializesAlike
      <4>2. kind = Text => KeyIn(new, v) = KeyIn(old, v)
        BY <3>3
      <4>3. kind \in {Boolean, Int32, Int64, Double, Text}
        BY <2>2 DEF Kinds
      <4> HIDE DEF v, kind
      <4>4. KeyIn(new, v) = KeyIn(old, v) => Serialize(Text, v, new) = Serialize(Text, v, old)
        <5>1. /\ Serialize(Text, v, new) = Copied(BigEndian(KeyIn(new, v), 4), 4)
              /\ Serialize(Text, v, old) = Copied(BigEndian(KeyIn(old, v), 4), 4)
          BY SerializesAs, Zenon
        <5>2. QED
          BY <5>1, Zenon
      <4>5. Serialize(kind, v, new) = Serialize(kind, v, old)
        BY <4>1, <4>2, <4>3, <4>4
      <4>6. QED
        BY <4>5 DEF v, kind
    <3>5. Serialize(schema[i], values[i], old).bytes \in Seq(Int)
      BY <1>1, <2>2, <3>2, SerializeTyped, ByteStrings
    <3>6. 0 + Ends(schema)[i - 1] \in Nat
      BY <2>2
    <3>7. HasAt(c, 0 + Ends(schema)[i - 1], Serialize(schema[i], values[i], old).bytes)
      BY <1>4, <3>2, <3>5, <3>6
    <3>8. QED
      BY <2>2, <3>3, <3>4, <3>7
  <2>5. QED
    BY <2>3, <2>4
<1>9. HasFields(c, 0, schema, values, (next + 1) - 1, new)
  <2>1. HasFields(c, 0, schema, values, next, new)
    BY <1>8, Zenon DEF HasFields
  <2>2. QED
    BY <1>6, <2>1
<1>10. InProgress(schema, type, time, values, next + 1, c, new)
  BY <1>1, <1>3, <1>6, <1>7, <1>9, Zenon DEF InProgress
<1>11. QED
  BY <1>10 DEF c, m

-----------------------------------------------------------------------------
(* The inductive invariant.                                                 *)

\* A bound on the bytes of a record, as RoomAssumption gives it.
Room == CHOOSE size \in 0 .. BufferSize :
          (\A schema \in Schemas : RecordEnd(schema) =< size) /\ size * MaxRecords =< BufferSize

WireTypeOK ==
  /\ types \in {<<TraceMetadata, schema>> : schema \in Schemas}
  /\ TableOK(table) /\ buffer \in Buffers /\ position \in 0 .. BufferSize /\ stream \in Seq(Int)
  /\ ~Registered => position = 0 /\ ~Writing

\* The stream tells the records told, the bytes done in the buffer tell those kept.
Tells(told, kept, done) ==
  /\ told \in Seq(Items(types)) /\ kept \in Seq(Items(types)) /\ done \in Seq(Int)
  /\ StreamTells(types, stream, told, table) /\ BufferTells(types, done, kept, table)
  /\ Len(done) <= Room * Len(kept)

\* No record is in progress, or one is: then its bytes follow the others.
Between(told, kept, done) ==
  /\ ~Writing /\ Held(buffer, position) = done /\ sent = told \o kept
  /\ Len(told) + Len(kept) <= MaxRecords

Within(told, kept, done) ==
  \E type, time, values, next, part :
    /\ record = [type |-> type, values |-> values, next |-> next] /\ Writing
    /\ sent = Append(told \o kept, EntryOf(types[type + 1], type, time, values))
    /\ Held(buffer, position) = done \o part /\ Len(told) + Len(kept) < MaxRecords
    /\ InProgress(types[type + 1], type, time, values, next, part, table)

WireInv ==
  /\ WireTypeOK
  /\ \E told, kept, done : Tells(told, kept, done) /\ (Between(told, kept, done) \/ Within(told, kept, done))

LEMMA RoomFacts ==
  Room \in Nat /\ (\A schema \in Schemas : RecordEnd(schema) <= Room) /\ Room * MaxRecords <= BufferSize
<1>1. Room \in 0 .. BufferSize /\ (\A schema \in Schemas : RecordEnd(schema) <= Room)
      /\ Room * MaxRecords <= BufferSize
  BY RoomAssumption, Zenon DEF Room
<1>2. QED
  BY <1>1

LEMMA RoomLeft ==
  ASSUME NEW n \in Nat, NEW kept \in Nat, NEW told \in Nat, NEW end \in Nat,
         n <= Room * kept, told + kept < MaxRecords, end <= Room
  PROVE  n + end <= BufferSize /\ n + end <= Room * (kept + 1)
<1>1. Room \in Nat /\ MaxRecords \in Nat /\ BufferSize \in Nat /\ Room * MaxRecords <= BufferSize
  BY RoomFacts, WireBoundsAssumption
<1>2. Room * (kept + 1) = Room * kept + Room /\ Room * kept \in Nat
  BY <1>1
<1>3. kept + 1 <= MaxRecords
  BY <1>1
<1>4. Room * (kept + 1) <= Room * MaxRecords
  BY <1>1, <1>3
<1>5. QED
  BY <1>1, <1>2, <1>4

LEMMA TypesTyped ==
  ASSUME WireTypeOK
  PROVE  /\ TypesAre(types)
         /\ \A type \in {0, 1} : /\ types[type + 1] \in Seq(Kinds)
                                 /\ RecordEnd(types[type + 1]) <= Room
         /\ types[1] = TraceMetadata
<1>1. PICK schema \in Schemas : types = <<TraceMetadata, schema>>
  BY DEF WireTypeOK
<1>2. types[1] = TraceMetadata /\ types[2] = schema
  BY <1>1
<1>3. types[1] \in Schemas /\ types[2] \in Schemas
  BY <1>2, SchemasTyped
<1>4. \A type \in {0, 1} : types[type + 1] \in Schemas
  BY <1>3
<1>5. QED
  BY <1>2, <1>3, <1>4, SchemasTyped, RoomFacts DEF TypesAre

LEMMA TableTyped ==
  ASSUME NEW tab, TableOK(tab)
  PROVE  /\ tab \in Seq(Texts) /\ Len(tab) <= Half(4) /\ Extends(tab, tab)
         /\ \A i, j \in 1 .. Len(tab) : tab[i] = tab[j] => i = j
<1>1. tab \in Seq(Texts) /\ \A i, j \in 1 .. Len(tab) : tab[i] = tab[j] => i = j
  BY DEF TableOK
<1>2. Len(tab) \in Nat
  BY <1>1
<1>3. QED
  BY <1>1, <1>2, TableSmall DEF Extends

LEMMA Two ==
  ASSUME NEW a, NEW b
  PROVE  Append(<<a>>, b) = <<a, b>>
<1>1. ASSUME NEW S, NEW x \in Seq(S), NEW e \in S, Len(x) = 1
      PROVE  Append(x, e) \in Seq(S) /\ Len(Append(x, e)) = 2 /\ Append(x, e)[1] = x[1] /\ Append(x, e)[2] = e
  <2> DEFINE y == Append(x, e)
  <2>1. y \in Seq(S) /\ Len(y) = Len(x) + 1 /\ (\A i \in 1 .. Len(x) : y[i] = x[i]) /\ y[Len(x) + 1] = e
    OBVIOUS
  <2> HIDE DEF y
  <2>2. 1 \in 1 .. 1 /\ 1 + 1 = 2
    OBVIOUS
  <2>3. y \in Seq(S) /\ Len(y) = 2 /\ y[1] = x[1] /\ y[2] = e
    BY <1>1, <2>1, <2>2, Zenon
  <2>4. QED
    BY <2>3 DEF y
<1> DEFINE S == {a, b}
           x == <<a>>
           y == Append(x, b)
           z == <<a, b>>
<1>2. a \in S /\ b \in S /\ x \in Seq(S) /\ Len(x) = 1 /\ x[1] = a
  OBVIOUS
<1>3. z \in Seq(S) /\ Len(z) = 2 /\ z[1] = a /\ z[2] = b
  OBVIOUS
<1> HIDE DEF S, x, z
<1>4. y \in Seq(S) /\ Len(y) = 2 /\ y[1] = a /\ y[2] = b
  BY <1>1, <1>2
<1> HIDE DEF y
<1>5. \A n \in 1 .. 2 : y[n] = z[n]
  <2>1. 1 .. 2 = {1, 2}
    OBVIOUS
  <2>2. QED
    BY <1>3, <1>4, <2>1, Zenon
<1>6. y = z
  BY <1>3, <1>4, <1>5, SeqEqual
<1>7. QED
  BY <1>6 DEF x, y, z

\* The names of the types, registered.
LEMMA NamesKnown ==
  LET tab == Intern(Intern(<<>>, TypeNames[1]), TypeNames[2])
  IN  TableOK(tab) /\ Knows(tab) /\ Extends(tab, <<>>) /\ tab # <<>>
<1> DEFINE a == TypeNames[1]
           b == TypeNames[2]
           tab == Intern(Intern(<<>>, a), b)
<1>1. a \in Texts /\ b \in Texts /\ a # b
  BY TextFacts
<1> HIDE DEF a, b
<1>2. Intern(<<>>, a) = <<a>>
  <2>1. ToSet(<<>>) = {} /\ Append(<<>>, a) = <<a>>
    BY DEF ToSet
  <2>2. QED
    BY <2>1 DEF Intern
<1>3. Intern(<<a>>, b) = <<a, b>>
  <2>1. ToSet(<<a>>) = {a}
    <3>1. DOMAIN <<a>> = {1} /\ <<a>>[1] = a
      OBVIOUS
    <3>2. QED
      BY <3>1, Zenon DEF ToSet
  <2>2. Append(<<a>>, b) = <<a, b>>
    BY Two
  <2>3. b \notin ToSet(<<a>>)
    BY <1>1, <2>1
  <2>4. QED
    BY <2>2, <2>3 DEF Intern
<1>4. tab = <<a, b>>
  BY <1>2, <1>3, Zenon
<1> HIDE DEF tab
<1>5. tab \in Seq(Texts) /\ Len(tab) = 2 /\ tab[1] = a /\ tab[2] = b
  BY <1>1, <1>4
<1>6. \A i, j \in 1 .. Len(tab) : tab[i] = tab[j] => i = j
  BY <1>1, <1>5
<1>7. Knows(tab)
  BY <1>5 DEF Knows, a, b
<1>8. Extends(tab, <<>>) /\ tab # <<>>
  BY <1>5 DEF Extends
<1>9. QED
  BY <1>5, <1>6, <1>7, <1>8 DEF TableOK, tab, a, b

LEMMA InternTable ==
  ASSUME NEW tab, TableOK(tab), tab # <<>>, NEW s \in Texts
  PROVE  /\ TableOK(Intern(tab, s)) /\ Extends(Intern(tab, s), tab) /\ Knows(Intern(tab, s))
         /\ Intern(tab, s) # <<>> /\ s \in ToSet(Intern(tab, s))
<1> DEFINE new == Intern(tab, s)
<1>1. /\ tab \in Seq(Texts) /\ Knows(tab)
      /\ \A i, j \in 1 .. Len(tab) : tab[i] = tab[j] => i = j
  BY DEF TableOK
<1>2. /\ new \in Seq(Texts) /\ Extends(new, tab) /\ s \in ToSet(new)
      /\ \A i, j \in 1 .. Len(new) : new[i] = new[j] => i = j
  BY <1>1, InternExtends
<1> HIDE DEF new
<1>3. Knows(new) /\ new # <<>>
  BY <1>1, <1>2 DEF Knows, Extends
<1>4. QED
  BY <1>2, <1>3, Zenon DEF TableOK, new

LEMMA HeldAtStart ==
  ASSUME NEW buf \in Buffers
  PROVE  Held(buf, 0) = <<>>
<1>1. 0 \in 0 .. BufferSize
  BY WireBoundsAssumption
<1>2. Held(buf, 0) \in Seq(Int) /\ Len(Held(buf, 0)) = 0
  BY <1>1, HeldFacts
<1>3. QED
  BY <1>2, EmptySeq

LEMMA WireInit == Init => WireInv
<1> SUFFICES ASSUME Init PROVE WireInv
  OBVIOUS
<1>1. buffer \in Buffers
  <2>1. Uninitialised \in Int
    BY DEF Uninitialised
  <2>2. QED
    BY <2>1 DEF Init, Buffers
<1>2. WireTypeOK
  <2>1. TableOK(<<>>)
    BY DEF TableOK
  <2>2. position \in 0 .. BufferSize /\ stream \in Seq(Int) /\ ~Writing
    BY WireBoundsAssumption DEF Init, Writing
  <2>3. QED
    BY <1>1, <2>1, <2>2 DEF Init, WireTypeOK
<1>3. Tells(<<>>, <<>>, <<>>)
  <2>1. StreamTells(types, <<>>, <<>>, <<>>) /\ BufferTells(types, <<>>, <<>>, <<>>)
    BY <1>2, TypesTyped, NothingTold
  <2>2. Len(<<>>) <= Room * Len(<<>>)
    BY RoomFacts
  <2>3. <<>> \in Seq(Items(types)) /\ <<>> \in Seq(Int)
    OBVIOUS
  <2>4. QED
    BY <2>1, <2>2, <2>3, Zenon DEF Init, Tells
<1>4. Between(<<>>, <<>>, <<>>)
  <2>1. Held(buffer, position) = <<>>
    BY <1>1, HeldAtStart DEF Init
  <2>2. sent = <<>> \o <<>> /\ Len(<<>>) + Len(<<>>) <= MaxRecords /\ ~Writing
    BY WireBoundsAssumption DEF Init, Writing
  <2>3. QED
    BY <2>1, <2>2 DEF Between
<1>5. QED
  BY <1>2, <1>3, <1>4, Zenon DEF WireInv

-----------------------------------------------------------------------------
(* The steps.                                                               *)

\* What Register and Field do to table and stream.
LEMMA AnnouncedStep ==
  ASSUME WireTypeOK, NEW told, NEW kept, NEW done, Tells(told, kept, done),
         NEW tab, TableOK(tab), Extends(tab, table), Announce(tab), UNCHANGED types
  PROVE  stream' \in Seq(Int) /\ Tells(told, kept, done)'
<1>1. TypesAre(types) /\ table \in Seq(Texts) /\ stream \in Seq(Int)
  BY TypesTyped DEF WireTypeOK, TableOK
<1>2. tab \in Seq(Texts) /\ Len(tab) <= Half(4)
  BY TableTyped
<1>3. /\ told \in Seq(Items(types)) /\ kept \in Seq(Items(types)) /\ done \in Seq(Int)
      /\ StreamTells(types, stream, told, table) /\ BufferTells(types, done, kept, table)
      /\ Len(done) <= Room * Len(kept)
  BY DEF Tells
<1>4. table' = tab /\ stream' = stream \o Announcements(tab) /\ types' = types
  BY DEF Announce
<1>5. /\ stream \o Announcements(tab) \in Seq(Int)
      /\ StreamTells(types, stream \o Announcements(tab), told, tab)
  BY <1>1, <1>2, <1>3, AnnounceTells
<1>6. BufferTells(types, done, kept, tab)
  BY <1>3, BufferStays
<1>7. stream' \in Seq(Int) /\ StreamTells(types', stream', told, table') /\ BufferTells(types', done, kept, table')
  BY <1>4, <1>5, <1>6, Zenon
<1>8. told \in Seq(Items(types')) /\ kept \in Seq(Items(types'))
  BY <1>3, <1>4, Zenon
<1>9. QED
  BY <1>3, <1>7, <1>8, Zenon DEF Tells

LEMMA RegisterStep == WireInv /\ Register => WireInv'
<1> SUFFICES ASSUME WireInv, Register PROVE WireInv'
  OBVIOUS
<1> DEFINE tab == Intern(Intern(table, TypeNames[1]), TypeNames[2])
           bytes == kieker_serialize_string(TypeNames[1], tab).bytes
                      \o kieker_serialize_string(TypeNames[2], tab).bytes
<1>1. /\ table = <<>> /\ Announce(tab) /\ buffer' = Put(0, bytes)
      /\ UNCHANGED <<types, position, record, sent>>
  BY Zenon DEF Register, Registered
<1>2. WireTypeOK /\ position = 0 /\ ~Writing /\ buffer \in Buffers
  BY <1>1 DEF WireInv, WireTypeOK, Registered
<1>3. TableOK(tab) /\ Knows(tab) /\ Extends(tab, table) /\ tab # <<>>
  BY <1>1, NamesKnown
<1>4. bytes \in Seq(Int)
  <2>1. tab \in Seq(Texts) /\ Len(tab) \in Nat
    BY <1>3 DEF Knows
  <2> DEFINE x == kieker_serialize_string(TypeNames[1], tab).bytes
             y == kieker_serialize_string(TypeNames[2], tab).bytes
  <2>2. ASSUME NEW v \in ToSet(tab) PROVE kieker_serialize_string(v, tab).bytes \in Seq(Int)
    <3> HIDE DEF tab
    <3>1. KeyIn(tab, v) \in Int /\ 4 \in 0 .. 8
      BY <2>1, <2>2, KeyFacts
    <3>2. BigEndian(KeyIn(tab, v), 4) \in Seq(Int)
      BY <3>1, BytesOf
    <3>3. QED
      BY <3>2 DEF kieker_serialize_string, Copied
  <2>3. TypeNames[1] \in ToSet(tab) /\ TypeNames[2] \in ToSet(tab)
    <3> HIDE DEF tab
    <3>1. DOMAIN tab = 1 .. Len(tab) /\ 1 \in 1 .. Len(tab) /\ 2 \in 1 .. Len(tab)
          /\ tab[1] = TypeNames[1] /\ tab[2] = TypeNames[2]
      BY <1>3, <2>1 DEF Knows
    <3>2. QED
      BY <3>1, Zenon DEF ToSet
  <2>4. x \in Seq(Int) /\ y \in Seq(Int)
    BY <2>2, <2>3, Zenon
  <2> HIDE DEF x, y
  <2>5. x \o y \in Seq(Int)
    BY <2>4, Regrouped, Zenon
  <2>6. QED
    BY <2>5 DEF x, y
<1>5. PICK told, kept, done : Tells(told, kept, done) /\ Between(told, kept, done)
  <2>1. ~Writing => \A told, kept, done : ~Within(told, kept, done)
    BY Zenon DEF Within
  <2>2. QED
    BY <1>2, <2>1, Zenon DEF WireInv
<1>6. stream' \in Seq(Int) /\ Tells(told, kept, done)'
  BY <1>1, <1>2, <1>3, <1>5, AnnouncedStep
<1>7. buffer' \in Buffers /\ Held(buffer', 0) = <<>> /\ done = <<>>
  <2>1. buffer' \in Buffers
    <3> HIDE DEF bytes
    <3>1. QED
      BY <1>1, <1>2, <1>4, PutHeld
  <2>2. Held(buffer, 0) = done
    BY <1>2, <1>5 DEF Between
  <2>3. QED
    BY <1>2, <2>1, <2>2, HeldAtStart
<1> HIDE DEF tab, bytes
<1>8. table' = tab /\ types' = types /\ position' = 0 /\ record' = record /\ sent' = sent
  BY <1>1, <1>2 DEF Announce
<1>9. WireTypeOK'
  <2>1. Registered'
    BY <1>3, <1>8 DEF Registered
  <2>2. types' \in {<<TraceMetadata, schema>> : schema \in Schemas} /\ position' \in 0 .. BufferSize
    BY <1>2, <1>8 DEF WireTypeOK
  <2>3. QED
    BY <1>3, <1>6, <1>7, <1>8, <2>1, <2>2, Zenon DEF WireTypeOK
<1>10. Between(told, kept, done)'
  BY <1>2, <1>5, <1>7, <1>8, Zenon DEF Between, Writing
<1>11. QED
  BY <1>6, <1>9, <1>10, Zenon DEF WireInv

\* The record of NoRecord is none that Prefix begins.
LEMMA RecordBegun ==
  ASSUME WireTypeOK, NEW type \in {0, 1}, NEW f
  PROVE  [type |-> type, values |-> [i \in DOMAIN types[type + 1] |-> f[i]], next |-> 1] # NoRecord
<1> DEFINE values == [i \in DOMAIN types[type + 1] |-> f[i]]
           rec == [type |-> type, values |-> values, next |-> 1]
<1>1. types[1] = TraceMetadata
  BY TypesTyped
<1>2. rec.type = type /\ rec.values = values
  OBVIOUS
<1> HIDE DEF rec
<1>3. NoRecord.type = 0 /\ NoRecord.values = <<>>
  BY DEF NoRecord
<1>4. ASSUME type = 1 PROVE rec # NoRecord
  <2>1. rec.type # NoRecord.type
    BY <1>2, <1>3, <1>4
  <2>2. QED
    BY <2>1
<1>5. ASSUME type = 0 PROVE rec # NoRecord
  <2>1. DOMAIN values = DOMAIN TraceMetadata
    BY <1>1, <1>5
  <2>2. 1 \in DOMAIN TraceMetadata
    BY DEF TraceMetadata
  <2>3. DOMAIN <<>> = {}
    OBVIOUS
  <2> HIDE DEF values
  <2>4. values # <<>>
    BY <2>1, <2>2, <2>3
  <2>5. rec.values # NoRecord.values
    BY <1>2, <1>3, <2>4
  <2>6. QED
    BY <2>5
<1>6. rec # NoRecord
  <2>1. type = 0 \/ type = 1
    OBVIOUS
  <2>2. QED
    BY <1>4, <1>5, <2>1, Zenon
<1>7. QED
  BY <1>6 DEF rec

\* Bytes were put at the position, which moved behind them.
Written == \E bytes \in Seq(Int) : buffer' = Put(position, bytes) /\ position' = position + Len(bytes)

LEMMA PrefixStep ==
  ASSUME WireInv, NEW type \in {0, 1}, NEW variant \in Variants, Prefix(type, variant)
  PROVE  WireInv' /\ Written
<1> DEFINE schema == types[type + 1]
           time == Sample(Int64, variant)
           f == [i \in DOMAIN schema |-> Sample(schema[i], i + variant)]
           part == BigEndian(type, 4) \o BigEndian(time, 8)
<1>1. /\ table # <<>> /\ ~Writing /\ Len(sent) < MaxRecords
      /\ buffer' = Put(position, part) /\ position' = position + 4 + 8
      /\ record' = [type |-> type, values |-> f, next |-> 1]
      /\ sent' = Append(sent, EntryOf(schema, type, time, f))
      /\ types' = types /\ table' = table /\ stream' = stream
  <2>1. /\ kieker_serialize_int32(type).bytes = BigEndian(type, 4) /\ kieker_serialize_int32(type).returns = 4
        /\ kieker_serialize_int64(time).bytes = BigEndian(time, 8) /\ kieker_serialize_int64(time).returns = 8
    BY DEF kieker_serialize_int32, kieker_serialize_int64, Copied
  <2>2. Prefix(type, variant)
    OBVIOUS
  <2>3. QED
    BY <2>1, <2>2, Zenon DEF Prefix, Registered, EntryOf
<1>2. WireTypeOK
  BY DEF WireInv
<1>3. /\ TypesAre(types) /\ schema \in Seq(Kinds) /\ RecordEnd(schema) <= Room
      /\ Len(schema) \in Nat /\ DOMAIN schema = 1 .. Len(schema)
      /\ buffer \in Buffers /\ position \in 0 .. BufferSize /\ position \in Nat /\ BufferSize \in Nat
  BY <1>2, TypesTyped, WireBoundsAssumption DEF WireTypeOK
<1>4. PICK told, kept, done : Tells(told, kept, done) /\ Between(told, kept, done)
  <2>1. ~Writing => \A told, kept, done : ~Within(told, kept, done)
    BY Zenon DEF Within
  <2>2. QED
    BY <1>1, <2>1, Zenon DEF WireInv
<1>5. /\ done \in Seq(Int) /\ Held(buffer, position) = done /\ sent = told \o kept
      /\ Len(done) = position /\ Len(told) \in Nat /\ Len(kept) \in Nat /\ Len(done) <= Room * Len(kept)
      /\ Len(told) + Len(kept) < MaxRecords
  <2>1. /\ done \in Seq(Int) /\ Held(buffer, position) = done /\ sent = told \o kept
        /\ told \in Seq(Items(types)) /\ kept \in Seq(Items(types)) /\ Len(done) <= Room * Len(kept)
    BY <1>4, Zenon DEF Tells, Between
  <2>2. Len(done) = position
    BY <1>3, <2>1, HeldFacts
  <2>3. Len(sent) = Len(told) + Len(kept) /\ Len(told) \in Nat /\ Len(kept) \in Nat
    BY <2>1, ConcatProperties, LenProperties
  <2>4. QED
    BY <1>1, <2>1, <2>2, <2>3
<1>6. time \in Long /\ \A i \in 1 .. Len(schema) : f[i] \in Values(schema[i])
  <2>1. variant \in Nat
    BY WireBoundsAssumption
  <2>2. time \in Long
    <3>1. Int64 \in Kinds
      BY DEF Kinds
    <3>2. QED
      BY <2>1, <3>1, SampleTyped, ValuesOf
  <2>3. ASSUME NEW i \in 1 .. Len(schema) PROVE f[i] \in Values(schema[i])
    <3>1. schema[i] \in Kinds /\ i \in DOMAIN schema /\ i + variant \in Nat
      BY <1>3, <2>1
    <3>2. f[i] = Sample(schema[i], i + variant)
      BY <3>1
    <3>3. QED
      BY <3>1, <3>2, SampleTyped
  <2>4. QED
    BY <2>2, <2>3
<1>7. record' # NoRecord
  BY <1>1, <1>2, RecordBegun
<1> HIDE DEF time, f
<1>8. InProgress(schema, type, time, f, 1, part, table)
  BY <1>3, <1>6, PrefixWritten
<1>9. part \in Seq(Int) /\ Len(part) = 12
  <2>1. part \in Seq(Int) /\ Len(part) = Ends(schema)[1 - 1]
    BY <1>8, Zenon DEF InProgress
  <2>2. 1 - 1 = 0 /\ Ends(schema)[0] = 12
    BY <1>3, EndsFacts
  <2>3. QED
    BY <2>1, <2>2
<1> HIDE DEF part
<1>10. position + 12 <= BufferSize
  <2>1. 12 <= RecordEnd(schema) /\ RecordEnd(schema) \in Nat
    BY <1>3, EndsFacts
  <2>2. position + RecordEnd(schema) <= BufferSize
    BY <1>3, <1>5, <2>1, RoomLeft
  <2> DEFINE end == RecordEnd(schema)
  <2>3. 12 <= end /\ end \in Nat /\ position + end <= BufferSize
    BY <2>1, <2>2
  <2> HIDE DEF end, schema
  <2>4. QED
    BY <1>3, <2>3
<1>11. buffer' \in Buffers /\ position' \in 0 .. BufferSize /\ Held(buffer', position') = done \o part
  <2>1. position' = position + Len(part) /\ position + Len(part) <= BufferSize /\ position' \in 0 .. BufferSize
    BY <1>1, <1>3, <1>9, <1>10
  <2>2. Put(position, part) \in Buffers
        /\ Held(Put(position, part), position + Len(part)) = Held(buffer, position) \o part
    BY <1>3, <1>9, <2>1, PutHeld
  <2>3. QED
    BY <1>1, <1>5, <2>1, <2>2, Zenon
<1>12. WireTypeOK'
  <2>1. Registered'
    BY <1>1, Zenon DEF Registered
  <2>2. types \in {<<TraceMetadata, sch>> : sch \in Schemas} /\ TableOK(table) /\ stream \in Seq(Int)
    BY <1>2 DEF WireTypeOK
  <2>3. types' \in {<<TraceMetadata, sch>> : sch \in Schemas} /\ TableOK(table') /\ stream' \in Seq(Int)
    BY <1>1, <2>2, Zenon
  <2>4. QED
    BY <1>11, <2>1, <2>3, Zenon DEF WireTypeOK
<1>13. Tells(told, kept, done)'
  BY <1>1, <1>4, Zenon DEF Tells
<1>14. Within(told, kept, done)'
  <2>1. /\ record' = [type |-> type, values |-> f, next |-> 1] /\ Writing'
        /\ sent' = Append(told \o kept, EntryOf(types'[type + 1], type, time, f))
        /\ Held(buffer', position') = done \o part /\ Len(told) + Len(kept) < MaxRecords
        /\ InProgress(types'[type + 1], type, time, f, 1, part, table')
    BY <1>1, <1>5, <1>7, <1>8, <1>11, Zenon DEF Writing
  <2>2. QED
    BY <2>1, Zenon DEF Within
<1>15. Written
  <2>1. position' = position + Len(part)
    BY <1>1, <1>3, <1>9
  <2>2. QED
    BY <1>1, <1>9, <2>1, Zenon DEF Written
<1>16. QED
  BY <1>12, <1>13, <1>14, <1>15, Zenon DEF WireInv

LEMMA FieldStep ==
  ASSUME WireInv, Field
  PROVE  WireInv' /\ Written
<1>1. Writing /\ WireTypeOK
  BY Zenon DEF Field, WireInv
<1>2. PICK told, kept, done : Tells(told, kept, done) /\ Within(told, kept, done)
  <2>1. Writing => \A told, kept, done : ~Between(told, kept, done)
    BY Zenon DEF Between
  <2>2. QED
    BY <1>1, <2>1, Zenon DEF WireInv
<1>3. PICK type, time, values, next, part :
        /\ record = [type |-> type, values |-> values, next |-> next] /\ Writing
        /\ sent = Append(told \o kept, EntryOf(types[type + 1], type, time, values))
        /\ Held(buffer, position) = done \o part /\ Len(told) + Len(kept) < MaxRecords
        /\ InProgress(types[type + 1], type, time, values, next, part, table)
  BY <1>2, Zenon DEF Within
<1> DEFINE schema == types[type + 1]
           value == values[next]
           tab == IF schema[next] = Text THEN Intern(table, value) ELSE table
           m == Serialize(schema[next], value, tab)
<1>4. record.type = type /\ record.values = values /\ record.next = next
  BY <1>3
<1>5. /\ next =< Len(schema) /\ Announce(tab) /\ buffer' = Put(position, m.bytes)
      /\ position' = position + m.returns /\ record' = [record EXCEPT !.next = next + 1]
      /\ types' = types /\ sent' = sent
  BY <1>4, Zenon DEF Field
<1>6. record' = [type |-> type, values |-> values, next |-> next + 1]
  BY <1>3, <1>5
<1>7. /\ type \in {0, 1} /\ next \in 1 .. Len(schema) + 1 /\ part \in Seq(Int)
      /\ \A i \in 1 .. Len(schema) : values[i] \in Values(schema[i])
  BY <1>3, Zenon DEF InProgress
<1>8. /\ TypesAre(types) /\ schema \in Seq(Kinds) /\ RecordEnd(schema) <= Room /\ Len(schema) \in Nat
      /\ buffer \in Buffers /\ position \in 0 .. BufferSize /\ position \in Nat /\ BufferSize \in Nat
      /\ table # <<>> /\ TableOK(table)
  <2>1. TypesAre(types) /\ schema \in Seq(Kinds) /\ RecordEnd(schema) <= Room
    BY <1>1, <1>7, TypesTyped
  <2>2. /\ buffer \in Buffers /\ position \in 0 .. BufferSize /\ BufferSize \in Nat
        /\ table # <<>> /\ TableOK(table)
    BY <1>1, WireBoundsAssumption DEF WireTypeOK, Registered
  <2>3. QED
    BY <2>1, <2>2
<1>9. next \in 1 .. Len(schema) /\ schema[next] \in Kinds /\ value \in Values(schema[next])
  <2>1. next \in 1 .. Len(schema)
    BY <1>5, <1>7, <1>8
  <2>2. QED
    BY <1>7, <1>8, <2>1
<1>10. /\ TableOK(tab) /\ Extends(tab, table) /\ tab # <<>>
       /\ schema[next] = Text => value \in ToSet(tab)
  <2>1. CASE schema[next] = Text
    <3>1. value \in Texts
      BY <1>9, <2>1, ValuesOf
    <3>2. /\ TableOK(Intern(table, value)) /\ Extends(Intern(table, value), table)
          /\ Intern(table, value) # <<>> /\ value \in ToSet(Intern(table, value))
      BY <1>8, <3>1, InternTable
    <3>3. QED
      BY <2>1, <3>2
  <2>2. CASE schema[next] # Text
    BY <1>8, <2>2, TableTyped
  <2>3. QED
    BY <2>1, <2>2
<1>11. m.bytes \in Seq(Int) /\ m.returns = Len(m.bytes)
  <2>1. tab \in Seq(Texts)
    BY <1>10, TableTyped
  <2>2. QED
    BY <1>9, <1>10, <2>1, SerializeTyped, ByteStrings
<1>12. stream' \in Seq(Int) /\ Tells(told, kept, done)'
  <2> HIDE DEF tab
  <2>1. QED
    BY <1>1, <1>2, <1>5, <1>10, AnnouncedStep
<1>13. InProgress(schema, type, time, values, next + 1, part \o m.bytes, tab)
  <2>1. \A i, j \in 1 .. Len(tab) : tab[i] = tab[j] => i = j
    BY <1>10, TableTyped
  <2> DEFINE b == Serialize(schema[next], values[next], tab).bytes
  <2> HIDE DEF tab
  <2>2. InProgress(schema, type, time, values, next + 1, part \o b, tab)
    BY <1>3, <1>8, <1>9, <1>10, <2>1, FieldWritten
  <2>3. QED
    BY <2>2
<1>14. table' = tab
  BY <1>5, Zenon DEF Announce
<1> DEFINE b == m.bytes
<1> HIDE DEF m, tab
<1>15. b \in Seq(Int) /\ Len(b) \in Nat /\ buffer' = Put(position, b) /\ position' = position + Len(b)
  <2>1. b \in Seq(Int) /\ buffer' = Put(position, b) /\ position' = position + Len(b)
    BY <1>5, <1>11, Zenon
  <2>2. QED
    BY <2>1
<1> HIDE DEF b
<1>16. /\ done \in Seq(Int) /\ Len(done) \in Nat /\ Len(kept) \in Nat /\ Len(told) \in Nat
       /\ Len(done) <= Room * Len(kept) /\ position = Len(done) + Len(part)
       /\ part \o b \in Seq(Int) /\ Len(part \o b) = Len(part) + Len(b) /\ Len(part) \in Nat
       /\ (done \o part) \o b = done \o (part \o b)
  <2>1. /\ told \in Seq(Items(types)) /\ kept \in Seq(Items(types)) /\ done \in Seq(Int)
        /\ Len(done) <= Room * Len(kept)
    BY <1>2, Zenon DEF Tells
  <2>2. Len(told) \in Nat /\ Len(kept) \in Nat /\ Len(done) \in Nat /\ Len(part) \in Nat
    BY <1>7, <2>1, LenProperties
  <2>3. /\ Len(done \o part) = Len(done) + Len(part) /\ part \o b \in Seq(Int)
        /\ Len(part \o b) = Len(part) + Len(b)
    BY <1>7, <1>15, <2>1, ConcatProperties
  <2>4. position = Len(done \o part)
    BY <1>3, <1>8, HeldFacts
  <2>5. (done \o part) \o b = done \o (part \o b)
    BY <1>7, <1>15, <2>1, Regrouped, Zenon
  <2>6. QED
    BY <2>1, <2>2, <2>3, <2>4, <2>5
<1>17. position + Len(b) <= BufferSize
  <2>1. Len(part \o b) = Ends(schema)[(next + 1) - 1] /\ (next + 1) - 1 = next
    <3>1. Len(part \o b) = Ends(schema)[(next + 1) - 1]
      BY <1>13, Zenon DEF InProgress, b
    <3>2. QED
      BY <1>9, <3>1
  <2>2. Ends(schema)[next] \in Nat /\ Ends(schema)[next] <= RecordEnd(schema) /\ RecordEnd(schema) \in Nat
    <3>1. next \in 0 .. Len(schema)
      BY <1>8, <1>9
    <3>2. QED
      BY <1>8, <3>1, EndsFacts
  <2>3. Len(done) + RecordEnd(schema) <= BufferSize
    BY <1>3, <1>8, <1>16, <2>2, RoomLeft
  <2> DEFINE end == RecordEnd(schema)
             n == Ends(schema)[next]
  <2>4. n \in Nat /\ n <= end /\ end \in Nat /\ Len(done) + end <= BufferSize /\ Len(part) + Len(b) = n
    BY <1>16, <2>1, <2>2, <2>3
  <2> HIDE DEF end, n
  <2>5. QED
    BY <1>8, <1>15, <1>16, <2>4
<1>18. buffer' \in Buffers /\ position' \in 0 .. BufferSize /\ Held(buffer', position') = done \o (part \o b)
  <2>1. position' \in 0 .. BufferSize
    BY <1>8, <1>15, <1>17
  <2>2. Put(position, b) \in Buffers
        /\ Held(Put(position, b), position + Len(b)) = Held(buffer, position) \o b
    BY <1>8, <1>15, <1>17, PutHeld
  <2>3. QED
    BY <1>3, <1>15, <1>16, <2>1, <2>2, Zenon
<1>19. record' # NoRecord
  <2>1. next + 1 # 1
    BY <1>9
  <2>2. record'.next = next + 1 /\ NoRecord.next = 1
    BY <1>6 DEF NoRecord
  <2>3. QED
    BY <2>1, <2>2
<1>20. WireTypeOK'
  <2>1. Registered'
    BY <1>10, <1>14, Zenon DEF Registered
  <2>2. types \in {<<TraceMetadata, sch>> : sch \in Schemas}
    BY <1>1 DEF WireTypeOK
  <2>3. QED
    BY <1>5, <1>10, <1>12, <1>14, <1>18, <2>1, <2>2, Zenon DEF WireTypeOK
<1>21. Within(told, kept, done)'
  <2>1. /\ record' = [type |-> type, values |-> values, next |-> next + 1] /\ Writing'
        /\ sent' = Append(told \o kept, EntryOf(types'[type + 1], type, time, values))
        /\ Held(buffer', position') = done \o (part \o b) /\ Len(told) + Len(kept) < MaxRecords
        /\ InProgress(types'[type + 1], type, time, values, next + 1, part \o b, table')
    BY <1>3, <1>5, <1>6, <1>13, <1>14, <1>18, <1>19, Zenon DEF Writing, b
  <2>2. QED
    BY <2>1, Zenon DEF Within
<1>22. WireInv'
  BY <1>12, <1>20, <1>21, Zenon DEF WireInv
<1>23. QED
  BY <1>15, <1>22, Zenon DEF Written

LEMMA FinishStep == WireInv /\ Finish => WireInv'
<1> SUFFICES ASSUME WireInv, Finish PROVE WireInv'
  OBVIOUS
<1>1. Writing /\ WireTypeOK /\ record' = NoRecord /\ record.next > Len(types[record.type + 1])
      /\ UNCHANGED <<types, table, buffer, position, stream, sent>>
  BY Zenon DEF Finish, WireInv
<1>2. PICK told, kept, done : Tells(told, kept, done) /\ Within(told, kept, done)
  <2>1. Writing => \A told, kept, done : ~Between(told, kept, done)
    BY Zenon DEF Between
  <2>2. QED
    BY <1>1, <2>1, Zenon DEF WireInv
<1>3. PICK type, time, values, next, part :
        /\ record = [type |-> type, values |-> values, next |-> next] /\ Writing
        /\ sent = Append(told \o kept, EntryOf(types[type + 1], type, time, values))
        /\ Held(buffer, position) = done \o part /\ Len(told) + Len(kept) < MaxRecords
        /\ InProgress(types[type + 1], type, time, values, next, part, table)
  BY <1>2, Zenon DEF Within
<1> DEFINE schema == types[type + 1]
           e == EntryOf(schema, type, time, values)
           more == Append(kept, e)
           all == done \o part
<1>4. record.type = type /\ record.next = next
  BY <1>3
<1>5. type \in {0, 1} /\ next \in 1 .. Len(schema) + 1 /\ part \in Seq(Int) /\ Len(part) = Ends(schema)[next - 1]
  BY <1>3, Zenon DEF InProgress
<1>6. /\ TypesAre(types) /\ schema \in Seq(Kinds) /\ RecordEnd(schema) <= Room /\ Len(schema) \in Nat
      /\ RecordEnd(schema) \in Nat /\ Knows(table) /\ Len(table) <= Half(4)
  <2>1. TypesAre(types) /\ schema \in Seq(Kinds) /\ RecordEnd(schema) <= Room
    BY <1>1, <1>5, TypesTyped
  <2>2. TableOK(table) /\ table # <<>>
    BY <1>1 DEF WireTypeOK, Registered
  <2>3. QED
    BY <2>1, <2>2, TableTyped, EndsFacts DEF TableOK
<1>7. next = Len(schema) + 1 /\ next - 1 = Len(schema)
  <2>1. next > Len(schema)
    BY <1>1, <1>4, Zenon
  <2>2. QED
    BY <1>5, <1>6, <2>1
<1>8. InProgress(schema, type, time, values, Len(schema) + 1, part, table)
  BY <1>3, <1>7, Zenon
<1>9. /\ told \in Seq(Items(types)) /\ kept \in Seq(Items(types)) /\ done \in Seq(Int)
      /\ StreamTells(types, stream, told, table) /\ BufferTells(types, done, kept, table)
      /\ Len(done) <= Room * Len(kept)
  BY <1>2, Zenon DEF Tells
<1>10. e \in Items(types) /\ BufferTells(types, all, more, table)
  BY <1>6, <1>8, <1>9, BufferGrows
<1> HIDE DEF e
<1>11. more \in Seq(Items(types)) /\ Len(more) = Len(kept) + 1 /\ told \o more = Append(told \o kept, e)
  <2> DEFINE I == Items(types)
  <2>1. told \in Seq(I) /\ kept \in Seq(I) /\ e \in I
    BY <1>9, <1>10
  <2> HIDE DEF I
  <2>2. more \in Seq(I) /\ Len(more) = Len(kept) + 1
    BY <2>1, AppendProperties
  <2>3. told \o more = Append(told \o kept, e)
    <3>1. <<e>> \in Seq(I) /\ told \o kept \in Seq(I)
      BY <2>1, ConcatProperties
    <3>2. more = kept \o <<e>> /\ Append(told \o kept, e) = (told \o kept) \o <<e>>
      BY <2>1, <3>1, AppendIsConcat
    <3>3. (told \o kept) \o <<e>> = told \o (kept \o <<e>>)
      BY <2>1, <3>1, RegroupedThree
    <3>4. QED
      BY <3>2, <3>3, Zenon
  <2>4. QED
    BY <2>2, <2>3 DEF I
<1>12. all \in Seq(Int) /\ Len(all) <= Room * Len(more) /\ Len(told) + Len(more) <= MaxRecords
  <2>1. /\ all \in Seq(Int) /\ Len(all) = Len(done) + Len(part) /\ Len(done) \in Nat
        /\ Len(told) \in Nat /\ Len(kept) \in Nat
    <3>1. all \in Seq(Int) /\ Len(all) = Len(done) + Len(part)
      BY <1>5, <1>9, ConcatProperties
    <3>2. QED
      BY <1>9, <3>1, LenProperties
  <2>2. Len(part) = RecordEnd(schema)
    BY <1>5, <1>7, Zenon DEF RecordEnd
  <2>3. Len(done) + RecordEnd(schema) <= Room * (Len(kept) + 1)
    BY <1>3, <1>6, <1>9, <2>1, RoomLeft
  <2>4. Len(told) + (Len(kept) + 1) <= MaxRecords
    BY <1>3, <2>1, WireBoundsAssumption
  <2>5. QED
    BY <1>11, <2>1, <2>2, <2>3, <2>4, Zenon
<1> HIDE DEF all, more
<1>13. PICK k, d : k = more /\ d = all
  OBVIOUS
<1>14. types' = types /\ table' = table /\ stream' = stream /\ buffer' = buffer
       /\ position' = position /\ sent' = sent
  BY <1>1
<1>15. Tells(told, k, d)'
  <2>1. Tells(told, k, d)
    BY <1>9, <1>10, <1>11, <1>12, <1>13, Zenon DEF Tells
  <2>2. QED
    BY <1>14, <2>1, Zenon DEF Tells
<1>16. Between(told, k, d)'
  <2>1. Held(buffer, position) = d /\ sent = told \o k /\ ~Writing'
    BY <1>1, <1>3, <1>11, <1>13, Zenon DEF all, e, Writing
  <2>2. QED
    BY <1>12, <1>13, <1>14, <2>1, Zenon DEF Between
<1>17. WireTypeOK'
  BY <1>1, Zenon DEF WireTypeOK, Registered, Writing
<1>18. QED
  BY <1>15, <1>16, <1>17, Zenon DEF WireInv

LEMMA SendStep == WireInv /\ Send => WireInv'
<1> SUFFICES ASSUME WireInv, Send PROVE WireInv'
  OBVIOUS
<1>1. /\ ~Writing /\ WireTypeOK /\ position > 0 /\ stream' = stream \o Held(buffer, position) /\ position' = 0
      /\ UNCHANGED <<types, table, buffer, record, sent>>
  BY Zenon DEF Send, WireInv, Held
<1>2. PICK told, kept, done : Tells(told, kept, done) /\ Between(told, kept, done)
  <2>1. ~Writing => \A told, kept, done : ~Within(told, kept, done)
    BY Zenon DEF Within
  <2>2. QED
    BY <1>1, <2>1, Zenon DEF WireInv
<1>3. /\ told \in Seq(Items(types)) /\ kept \in Seq(Items(types)) /\ done \in Seq(Int)
      /\ StreamTells(types, stream, told, table) /\ BufferTells(types, done, kept, table)
      /\ Held(buffer, position) = done /\ sent = told \o kept /\ Len(told) + Len(kept) <= MaxRecords
  BY <1>2, Zenon DEF Tells, Between
<1>4. TypesAre(types) /\ Knows(table) /\ stream \in Seq(Int) /\ buffer \in Buffers /\ BufferSize \in Nat
  <2>1. TypesAre(types)
    BY <1>1, TypesTyped
  <2>2. /\ stream \in Seq(Int) /\ buffer \in Buffers /\ TableOK(table) /\ position # 0
        /\ ~Registered => position = 0
    BY <1>1 DEF WireTypeOK
  <2>3. QED
    BY <2>1, <2>2, WireBoundsAssumption DEF TableOK, Registered
<1> DEFINE all == told \o kept
<1>5. StreamTells(types, stream \o done, all, table)
  BY <1>3, <1>4, BufferSent
<1>6. all \in Seq(Items(types)) /\ Len(all) = Len(told) + Len(kept) /\ all \o <<>> = all
  BY <1>3, ConcatProperties, ConcatEmptySeq
<1> HIDE DEF all
<1>7. stream' \in Seq(Int) /\ stream' = stream \o done
  <2>1. stream \o done \in Seq(Int)
    BY <1>3, <1>4, Regrouped, Zenon
  <2>2. QED
    BY <1>1, <1>3, <2>1, Zenon
<1>8. Tells(all, <<>>, <<>>)'
  <2>1. BufferTells(types, <<>>, <<>>, table)
    BY <1>4, NothingTold
  <2>2. Len(<<>>) <= Room * Len(<<>>) /\ <<>> \in Seq(Int)
    BY RoomFacts
  <2>3. <<>> \in Seq(Items(types))
    OBVIOUS
  <2>4. QED
    BY <1>1, <1>5, <1>6, <1>7, <2>1, <2>2, <2>3, Zenon DEF Tells
<1>9. Between(all, <<>>, <<>>)'
  <2>1. Held(buffer', position') = <<>>
    BY <1>1, <1>4, HeldAtStart
  <2>2. Len(all) + Len(<<>>) <= MaxRecords
    <3>1. Len(told) \in Nat /\ Len(kept) \in Nat /\ Len(<<>>) = 0
      BY <1>3, LenProperties
    <3>2. QED
      BY <1>3, <1>6, <3>1, WireBoundsAssumption
  <2>3. sent' = all \o <<>> /\ ~Writing'
    BY <1>1, <1>3, <1>6, Zenon DEF all, Writing
  <2>4. QED
    BY <2>1, <2>2, <2>3, Zenon DEF Between
<1>10. WireTypeOK'
  <2>1. position' \in 0 .. BufferSize
    BY <1>1, <1>4
  <2>2. QED
    BY <1>1, <1>7, <2>1, Zenon DEF WireTypeOK, Registered, Writing
<1>11. QED
  BY <1>8, <1>9, <1>10, Zenon DEF WireInv

LEMMA WireStep == WireInv /\ [Next]_vars => WireInv'
<1> SUFFICES ASSUME WireInv, [Next]_vars PROVE WireInv'
  OBVIOUS
<1>1. CASE Register
  BY <1>1, RegisterStep
<1>2. CASE Field
  BY <1>2, FieldStep
<1>3. CASE Finish
  BY <1>3, FinishStep
<1>4. CASE Send
  BY <1>4, SendStep
<1>5. ASSUME NEW type \in {0, 1}, NEW variant \in Variants, Prefix(type, variant) PROVE WireInv'
  BY <1>5, PrefixStep
<1>6. CASE UNCHANGED vars
  <2>1. /\ types' = types /\ table' = table /\ buffer' = buffer /\ position' = position
        /\ record' = record /\ stream' = stream /\ sent' = sent
    BY <1>6 DEF vars
  <2>2. PICK told, kept, done : Tells(told, kept, done) /\ (Between(told, kept, done) \/ Within(told, kept, done))
    BY Zenon DEF WireInv
  <2>3. WireTypeOK'
    BY <2>1, Zenon DEF WireInv, WireTypeOK, Registered, Writing
  <2>4. Tells(told, kept, done)'
    BY <2>1, <2>2, Zenon DEF Tells
  <2>5. Between(told, kept, done) => Between(told, kept, done)'
    BY <2>1, Zenon DEF Between, Writing
  <2>6. Within(told, kept, done) => Within(told, kept, done)'
    BY <2>1, Zenon DEF Within, Writing
  <2>7. QED
    BY <2>2, <2>3, <2>4, <2>5, <2>6, Zenon DEF WireInv
<1>7. CASE AllSent
  BY <1>6, <1>7 DEF AllSent
<1>8. QED
  BY <1>1, <1>2, <1>3, <1>4, <1>5, <1>6, <1>7, Zenon DEF Next

-----------------------------------------------------------------------------
(* Results.                                                                 *)

\* What the stream and the buffer hold is the records sent, for all byte sizes,
\* texts and samples: the invariant of the serializers and the sends together
\* (kieker_serialize.c, kieker_controller.c).
THEOREM WireCorrect == Spec => []WireInv
<1>1. Init => WireInv
  BY WireInit
<1>2. WireInv /\ [Next]_vars => WireInv'
  BY WireStep
<1>3. QED
  BY <1>1, <1>2, PTL DEF Spec

\* Once the buffer is sent, a collector that knows the record types only reads the
\* records that were written, in order, each value at the width its type has and
\* each string as the text announced for its key.
THEOREM StreamRead == Spec => []StreamReadsBack
<1>1. WireInv => StreamReadsBack
  <2> SUFFICES ASSUME WireInv, ~Writing, position = 0 PROVE Read(types, stream, <<>>) = sent
    BY Zenon DEF StreamReadsBack
  <2>1. PICK told, kept, done : Tells(told, kept, done) /\ Between(told, kept, done)
    <3>1. ~Writing => \A told, kept, done : ~Within(told, kept, done)
      BY Zenon DEF Within
    <3>2. QED
      BY <3>1, Zenon DEF WireInv
  <2>2. WireTypeOK
    BY DEF WireInv
  <2>3. /\ told \in Seq(Items(types)) /\ kept \in Seq(Items(types))
        /\ StreamTells(types, stream, told, table) /\ BufferTells(types, done, kept, table)
        /\ Held(buffer, position) = done /\ sent = told \o kept
    BY <2>1, Zenon DEF Tells, Between
  <2>4. /\ TypesAre(types) /\ stream \in Seq(Int) /\ table \in Seq(Texts) /\ TableOK(table) /\ buffer \in Buffers
    BY <2>2, TypesTyped DEF WireTypeOK, TableOK
  <2>5. done = <<>>
    BY <2>3, <2>4, HeldAtStart
  <2>6. <<>> \in Seq(Int)
    OBVIOUS
  <2>7. Read(types, <<>>, table) = <<>> /\ stream \o <<>> = stream
    <3>1. table \in Seq(Seq(Int))
      BY <2>4, TextStrings
    <3>2. QED
      BY <2>4, <2>6, <3>1, ReadFacts, ConcatEmptySeq
  <2>8. Read(types, stream, <<>>) = told
    <3>1. Read(types, stream \o <<>>, <<>>) = told \o Read(types, <<>>, table)
      BY <2>3, <2>6, Zenon DEF StreamTells
    <3>2. told \o <<>> = told
      BY <2>3, ConcatEmptySeq
    <3>3. QED
      BY <2>7, <3>1, <3>2, Zenon
  <2>9. kept = <<>>
    <3>1. PICK known : Extends(known, table) /\ Knows(known)
      <4>1. CASE table = <<>>
        BY <4>1, NamesKnown
      <4>2. CASE table # <<>>
        BY <2>4, <4>2, TableTyped DEF TableOK
      <4>3. QED
        BY <4>1, <4>2
    <3>2. known \in Seq(Texts) /\ known \in Seq(Seq(Int))
      BY <3>1, TextStrings DEF Knows
    <3>3. Read(types, <<>> \o <<>>, known) = kept \o Read(types, <<>>, known)
      BY <2>3, <2>5, <2>6, <3>1, <3>2, Zenon DEF BufferTells
    <3>4. Read(types, <<>>, known) = <<>> /\ <<>> \o <<>> = <<>>
      BY <2>4, <2>6, <3>2, ReadFacts, ConcatEmptySeq
    <3>5. kept \o <<>> = kept
      BY <2>3, ConcatEmptySeq
    <3>6. QED
      BY <3>3, <3>4, <3>5, Zenon
  <2>10. told \o <<>> = told
    BY <2>3, ConcatEmptySeq
  <2>11. QED
    BY <2>3, <2>8, <2>9, <2>10, Zenon
<1>2. QED
  BY <1>1, WireCorrect, PTL

\* A call writes the bytes between the old and the new position and no others
\* (kieker_serialize.c, kieker_controller_prefix_serialize, the serializers).
THEOREM SpanWritten == Spec => WritesItsSpan
<1> DEFINE Spans == Registered => \A k \in DOMAIN buffer :
                      buffer'[k] # buffer[k] => position =< k /\ k < position'
<1>1. WireInv /\ [Next]_vars => [Spans]_vars
  <2> SUFFICES ASSUME WireInv, [Next]_vars PROVE Spans
    OBVIOUS
  <2>1. buffer \in Buffers /\ position \in Nat
    BY WireBoundsAssumption DEF WireInv, WireTypeOK
  <2>2. Written => Spans
    <3> SUFFICES ASSUME Written PROVE Spans
      OBVIOUS
    <3>1. PICK bytes \in Seq(Int) : buffer' = Put(position, bytes) /\ position' = position + Len(bytes)
      BY DEF Written
    <3>2. \A k \in DOMAIN buffer :
            Put(position, bytes)[k] # buffer[k] => position =< k /\ k < position + Len(bytes)
      BY <2>1, PutHeld
    <3>3. QED
      BY <3>1, <3>2, Zenon
  <2>3. buffer' = buffer => Spans
    BY Zenon
  <2> HIDE DEF Spans
  <2>4. CASE Register
    BY <2>4 DEF Register, Spans
  <2>5. CASE Field
    BY <2>2, <2>5, FieldStep
  <2>6. CASE Finish \/ Send \/ AllSent \/ UNCHANGED vars
    BY <2>3, <2>6 DEF Finish, Send, AllSent, vars
  <2>7. ASSUME NEW type \in {0, 1}, NEW variant \in Variants, Prefix(type, variant) PROVE Spans
    BY <2>2, <2>7, PrefixStep
  <2>8. QED
    BY <2>4, <2>5, <2>6, <2>7, Zenon DEF Next
<1>2. QED
  BY <1>1, WireCorrect, PTL DEF Spec, WritesItsSpan
===============================================================================
